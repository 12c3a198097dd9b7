----------------------------- MODULE MCTagIndex -----------------------------
(***************************************************************************)
(* Two names for TLC: x, an alias that aliases.yaml has, and y, a name of  *)
(* a remote list that stopnames.txt may exclude; two texts, batches of one.*)
(***************************************************************************)
EXTENDS TagIndex, TLC

CONSTANTS x, y, put, refresh, refresh2, t1, t2

MCItem(text, fixed, summary) == [text |-> text, fixed |-> fixed, summary |-> summary]

MCNames   == {x, y}
MCAliases == {x}
MCManual  == {x}
MCStop    == {{}, {y}}
MCItems   == {MCItem({x, y}, {}, TRUE), MCItem({}, {y}, FALSE)}
MCPuts    == {put}
MCRefreshes == {refresh, refresh2}
MCTasks   == {t1, t2}
MCNoEditors == {}
MCNoStop  == {{}}

(* A feed and a search for x list the same article.                        *)
MCSearchItems == {MCItem({x}, {}, TRUE), MCItem({x}, {x}, TRUE)}

Symmetry == Permutations(MCTasks) \union Permutations(MCRefreshes)
=============================================================================
