-------------------------- MODULE MCCursorFeed -----------------------------
(***************************************************************************)
(* Two feeds that share the articles a and b, two ingests, and a consumer  *)
(* that takes one article at a time: wire is kept for one tick, bank for   *)
(* two.                                                                    *)
(***************************************************************************)
EXTENDS CursorFeed, TLC

CONSTANTS wire, bank, a, b, j1, j2

Item(k, title, summary, date) == [key |-> k, title |-> title, summary |-> summary, date |-> date]

MCSources   == {wire, bank}
MCKeys      == {a, b}
MCJobs      == {j1, j2}
MCRetention == (wire :> 1) @@ (bank :> 2)

(* Short entries first, summaries and dates later, an article without a    *)
(* date, one of the future, and one that a batch lists twice.              *)
MCBatches ==
    (wire :> {<<Item(a, 1, FALSE, 0), Item(b, 1, FALSE, NoDate), Item(a, 2, FALSE, 0)>>}) @@
    (bank :> {<<Item(a, 2, TRUE, 0), Item(b, 1, TRUE, 1)>>})

JobSymmetry == Permutations(MCJobs)
=============================================================================
