--------------------------- MODULE MCSymbolFetch ---------------------------
(***************************************************************************)
(* One source with two symbols for TLC, where the round, refreshes and     *)
(* pruning meet.                                                           *)
(***************************************************************************)
EXTENDS SymbolFetch, TLC

CONSTANTS yahoo, A, B, t1, t2

MCOneSource  == {yahoo}
MCTwoSymbols == {A, B}
MCKeys       == Sources \X Symbols
MCEverything == Sources \union Symbols
MCOnlyB     == {B}
MCTwoTasks   == {t1, t2}
FullSymmetry == Permutations(Tasks) \union Permutations(Symbols)
=============================================================================
