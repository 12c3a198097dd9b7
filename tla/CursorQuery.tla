----------------------------- MODULE CursorQuery -----------------------------
(***************************************************************************)
(* One page of QueryService.headlines in newsserver/query.py: the plain *)
(* path, the symbol path with its two capped searches, the de-duplication  *)
(* by title, the limit and the next cursor.                                *)
(*                                                                         *)
(* A table is a function from ids to rows [tag, text, holds, title, ts]:   *)
(* whether the row passes the filters and has the symbol's tag (tag), is   *)
(* found by the text search (text), and then contains one of the terms as  *)
(* the rules of matching.py want it (holds).  For a query without a symbol *)
(* tag says that the row passes the filters.  A query is [symbol, match,   *)
(* since, limit, dedup], since being -1 when no cursor is given.           *)
(***************************************************************************)
EXTENDS Integers, FiniteSetsExt

CONSTANTS TagCap, TextCap   \* TAG_CANDIDATE_CAP, TEXT_CANDIDATE_CAP

ASSUME CursorQueryAssumption == TagCap \in Nat \ {0} /\ TextCap \in Nat \ {0}

(* _order: by id with a cursor, otherwise newest first.                    *)
Before(table, q, i, j) ==
    IF q.since >= 0 THEN i < j
    ELSE table[i].ts > table[j].ts \/ (table[i].ts = table[j].ts /\ i > j)

Earlier(table, q, ids, i) == {j \in ids : Before(table, q, j, i)}

(* ORDER BY ... LIMIT n.                                                   *)
FirstOf(table, q, ids, n) == {i \in ids : Cardinality(Earlier(table, q, ids, i)) < n}

(* The part of _base_where that the cursor is.                             *)
After(table, q) == {i \in DOMAIN table : i > q.since}

Tagged(table, q)     == IF q.match = "text" THEN {} ELSE {i \in After(table, q) : table[i].tag}
Candidates(table, q) == IF q.match = "tag" THEN {} ELSE {i \in After(table, q) : table[i].text}

(* Mutant: no surplus of rows for the de-duplication.                      *)
PlainRows_NoSurplus(table, q) ==
    FirstOf(table, q, {i \in After(table, q) : table[i].tag}, q.limit)

PlainRows(table, q) ==
    FirstOf(table, q, {i \in After(table, q) : table[i].tag}, IF q.dedup THEN 3 * q.limit ELSE q.limit)

(* _symbol_rows: both searches are capped, the second before its rows are  *)
(* looked at.                                                              *)
SymbolRows(table, q) ==
    FirstOf(table, q, Tagged(table, q), TagCap)
    \union {i \in FirstOf(table, q, Candidates(table, q), TextCap) : table[i].holds}

(* Of rows with one title the first stays.                                 *)
Deduped(table, q, rows) ==
    {i \in rows : \A j \in Earlier(table, q, rows, i) : table[j].title # table[i].title}

(* headlines.                                                              *)
Items(table, q) ==
    LET rows == IF q.symbol THEN SymbolRows(table, q) ELSE PlainRows(table, q)
    IN FirstOf(table, q, IF q.dedup THEN Deduped(table, q, rows) ELSE rows, q.limit)

NextSince(table, q) == Max({q.since} \union Items(table, q))

----------------------------------------------------------------------------
(* The rows a query asks for.                                              *)
Matches(table, q) ==
    IF q.symbol THEN Tagged(table, q) \union {i \in Candidates(table, q) : table[i].holds}
    ELSE {i \in After(table, q) : table[i].tag}

(* A row that the search which finds it leaves out.                        *)
Capped(table, q, i) ==
    IF q.symbol
    THEN /\ i \in Tagged(table, q) =>
               Cardinality(Earlier(table, q, Tagged(table, q), i)) >= TagCap
         /\ i \in Candidates(table, q) /\ table[i].holds =>
               Cardinality(Earlier(table, q, Candidates(table, q), i)) >= TextCap
    ELSE q.dedup /\ Cardinality(Earlier(table, q, Matches(table, q), i)) >= 3 * q.limit

(* A match that a page leaves out repeats the title of one before it,      *)
(* comes after a full page, or lies beyond a cap: with room in the caps a  *)
(* consumer of next_since_id misses nothing and never stands still.        *)
PageIsComplete(table, q) ==
    LET items == Items(table, q) IN
    \A m \in Matches(table, q) \ items :
        \/ Capped(table, q, m)
        \/ q.dedup /\ \E i \in items : Before(table, q, i, m) /\ table[i].title = table[m].title
        \/ /\ Cardinality(items) = q.limit
           /\ \A i \in items : Before(table, q, i, m)
           /\ q.since >= 0 => m > NextSince(table, q)
=============================================================================
