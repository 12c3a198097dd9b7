-------------------------- MODULE MCSourcePolling --------------------------
(***************************************************************************)
(* Instances of SourcePolling for TLC.  rss is a feed with validators,     *)
(* dart a source without them; sources.yaml enables both unless a run says *)
(* otherwise.  Runs are interchangeable identities.                        *)
(***************************************************************************)
EXTENDS SourcePolling, TLC

CONSTANTS rss, dart, r1, r2, r3

MCSources     == {rss, dart}
MCOnlyRss     == {rss}
MCNone        == {}
MCTwoRuns     == {r1, r2}
MCThreeRuns   == {r1, r2, r3}
MCBlankSecond == {2}
RunSymmetry   == Permutations(Runs)
=============================================================================
