--------------------------- MODULE MCMemoryCache ---------------------------
(***************************************************************************)
(* Two reports, two callers and room for one entry, for TLC.               *)
(***************************************************************************)
EXTENDS MemoryCache

CONSTANTS c1, c2, q1, q2, v1, none

MCTwoCallers == {c1, c2}
MCKeys       == {q1, q2}
MCValues     == {v1, none}
=============================================================================
