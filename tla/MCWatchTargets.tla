-------------------------- MODULE MCWatchTargets ---------------------------
(***************************************************************************)
(* Two clients, two symbols and two callers of targets(), for TLC.         *)
(***************************************************************************)
EXTENDS WatchTargets

CONSTANTS web, bot, A, B, yahoo, naver

MCClients  == {web, bot}
MCSymbols  == {A, B}
MCCallers  == {yahoo, naver}
=============================================================================
