----------------------------- MODULE CursorFeed -----------------------------
(***************************************************************************)
(* ArticleStore with its readers: the cursor query of newsserver/query.py, *)
(* headlines(since_id), and the incremental consumer of newsclient.  A     *)
(* query sees one committed state; a failed request leaves the cursor.     *)
(***************************************************************************)
EXTENDS ArticleStore

CONSTANT
    PageMax     \* the consumer's limit

ASSUME PageAssumption == PageMax \in Nat \ {0}

VARIABLE
    consumer    \* whether it has started, its first cursor, cursor and what it got

storeVars == vars
feedVars  == <<vars, consumer>>

FeedInit ==
    /\ Init
    /\ consumer = [started |-> FALSE, from |-> 0, cursor |-> 0, got |-> {}]

(* The newest article by ts, then id: GET /headlines?limit=1.              *)
Newest ==
    CHOOSE k \in DOMAIN db.article :
        \A l \in DOMAIN db.article :
            \/ ts(db.article[l]) < ts(db.article[k])
            \/ ts(db.article[l]) = ts(db.article[k]) /\ db.article[l].id <= db.article[k].id

LatestCursor == IF DOMAIN db.article = {} THEN 0 ELSE db.article[Newest].id

(* The first cursor is 0 or latest_id().                                   *)
Connect(first) ==
    /\ ~consumer.started
    /\ consumer' = [consumer EXCEPT !.started = TRUE, !.from = first, !.cursor = first]
    /\ UNCHANGED storeVars

(* Mutant: the page is cut from the newest end.                            *)
Page_Newest(cursor) ==
    LET new == {k \in DOMAIN db.article : db.article[k].id > cursor} IN
    {k \in new : Cardinality({l \in new : db.article[l].id > db.article[k].id}) < PageMax}

(* The first PageMax articles above the cursor in ascending order of id.   *)
Page(cursor) ==
    LET new == {k \in DOMAIN db.article : db.article[k].id > cursor} IN
    {k \in new : Cardinality({l \in new : db.article[l].id < db.article[k].id}) < PageMax}

since ==
    LET page == Page(consumer.cursor) IN
    /\ consumer.started
    /\ page # {}
    /\ consumer' = [consumer EXCEPT
                       !.cursor = Max({db.article[k].id : k \in page}),
                       !.got = @ \union {<<db.article[k].id, k>> : k \in page}]
    /\ UNCHANGED storeVars

FeedNext ==
    \/ Next /\ UNCHANGED consumer
    \/ Connect(0)
    \/ Connect(LatestCursor)
    \/ since

FeedSpec == FeedInit /\ [][FeedNext]_feedVars

----------------------------------------------------------------------------
(* Properties.                                                             *)

(* The cursor skips nothing: an article that is stored and not above the   *)
(* cursor has been delivered, or was already there for a consumer that     *)
(* started later.  It needs ids that grow with the commits and are never   *)
(* used again, and pages cut at the right end.                             *)
CursorComplete ==
    \A k \in DOMAIN db.article :
        LET id == db.article[k].id IN
        consumer.from < id /\ id <= consumer.cursor => <<id, k>> \in consumer.got
=============================================================================
