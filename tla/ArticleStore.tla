---------------------------- MODULE ArticleStore ----------------------------
(***************************************************************************)
(* The article table and its writers: Ingestor.ingest of                   *)
(* newsserver/pipeline.py, purge_expired of newsserver/scheduler.py and    *)
(* the write transactions of storage/db.py.  CursorFeed adds the readers.  *)
(*                                                                         *)
(* An ingest takes its clock first, asks which articles are known and tags *)
(* the others outside the write lock, and only then stores item by item in *)
(* one transaction.  The purge deletes source by source, batch by batch.   *)
(*                                                                         *)
(* Abstractions: time is counted in ticks longer than FUTURE_TOLERANCE; a  *)
(* text is its title and whether it has a summary, and the derived tags    *)
(* and topics of an article are the text they were computed from (the      *)
(* directory is fixed here); fixed tags are left out; a crash is the       *)
(* failure of everything in progress.                                      *)
(***************************************************************************)
EXTENDS Naturals, Sequences, Functions, FiniteSets, FiniteSetsExt

CONSTANTS
    Sources,    \* source keys
    Keys,       \* url_key values
    Retention,  \* retention_days of every source
    Batches,    \* the sequences of items that a source's feed can show
    NoDate,     \* an item or article without a publication time
    Jobs,       \* identities of ingests
    NoJob,      \* nobody
    NoText,     \* no text
    DeleteMax,  \* purge_expired's batch
    MaxTick,    \* bound: the clock
    MaxId       \* bound: article ids

ASSUME ConstantsAssumption ==
    /\ Retention \in [Sources -> Nat \ {0}]
    /\ NoDate \notin Nat
    /\ \A s \in Sources : Batches[s] \subseteq
          Seq([key: Keys, title: Nat, summary: BOOLEAN, date: Nat \union {NoDate}])
    /\ NoJob \notin Jobs
    /\ DeleteMax \in Nat \ {0}
    /\ MaxTick \in Nat /\ MaxId \in Nat

VARIABLES
    now,       \* utcnow()
    db,        \* the committed tables: articles with their feeds, sqlite_sequence
    work,      \* the tables as the open transaction sees them
    writer,    \* the ingest that has the write lock
    job,       \* the ingests
    purge,     \* purge_expired: its clock and the sources it has not finished
    purged,    \* history: the last deletion of every article
    twice      \* history: articles stored from a batch that listed them twice

vars == <<now, db, work, writer, job, purge, purged, twice>>

Text  == [title: Nat, summary: BOOLEAN]
Dates == 0 .. MaxTick \union {NoDate}
Ids   == 1 .. MaxId

Article == [id: Ids, text: Text, tagged: Text, date: Dates, collected: 0 .. MaxTick,
            owner: Sources, feeds: SUBSET Sources]

ts(a) == IF a.date = NoDate THEN a.collected ELSE a.date

IsTable(t) ==
    /\ DOMAIN t.article \subseteq Keys
    /\ \A k \in DOMAIN t.article :
          /\ t.article[k] \in Article
          /\ t.article[k].owner \in t.article[k].feeds
          /\ t.article[k].id < t.nextId
    /\ \A k, l \in DOMAIN t.article : t.article[k].id = t.article[l].id => k = l

NoWork  == [phase |-> "idle", source |-> CHOOSE s \in Sources : TRUE, now |-> 0,
            left |-> << >>, derived |-> [k \in Keys |-> NoText]]
NoPurge == [now |-> 0, left |-> {}]

(* The rows are well formed in and outside of transactions, ids are unique *)
(* and handed out in ascending order.                                      *)
TypeOK ==
    /\ now \in 0 .. MaxTick
    /\ IsTable(db) /\ IsTable(work)
    /\ writer \in Jobs \union {NoJob}
    /\ \A j \in Jobs : job[j].phase \in {"idle", "read", "wait", "write"}
    /\ \A j \in Jobs : job[j].phase = "write" <=> writer = j
    /\ purge.left \subseteq Sources

Init ==
    /\ now = 0
    /\ db = [article |-> << >>, nextId |-> 1]
    /\ work = db
    /\ writer = NoJob
    /\ job = [j \in Jobs |-> NoWork]
    /\ purge = NoPurge
    /\ purged = << >>
    /\ twice = {}

----------------------------------------------------------------------------
(* ingest.                                                                 *)

(* sanitize_published.                                                     *)
Published(item, clock) == IF item.date = NoDate \/ item.date > clock THEN NoDate ELSE item.date

(* Mutant: items are accepted whatever their age.                          *)
Acceptable_AnyAge(s, date, clock) == TRUE

Acceptable(s, date, clock) == date = NoDate \/ date + Retention[s] >= clock

(* The items ingest goes on with, by their place in the batch: dates       *)
(* sanitized, old items skipped.                                           *)
Prepared(s, batch, clock) ==
    [i \in {k \in DOMAIN batch : Acceptable(s, Published(batch[k], clock), clock)} |->
        [batch[i] EXCEPT !.date = Published(batch[i], clock)]]

Begin(j, s, batch) ==
    /\ job[j].phase = "idle"
    /\ DOMAIN Prepared(s, batch, now) # {}
    /\ job' = [job EXCEPT ![j] = [NoWork EXCEPT !.phase = "read", !.source = s, !.now = now,
                                                !.left = Prepared(s, batch, now)]]
    /\ UNCHANGED <<now, db, work, writer, purge, purged, twice>>

ItemText(item) == [title |-> item.title, summary |-> item.summary]

(* Of an item that a batch lists twice, the last text is tagged.           *)
DerivedTexts(items, known) ==
    [k \in Keys |->
        LET at == {i \in DOMAIN items : items[i].key = k} IN
        IF at = {} \/ k \in known THEN NoText ELSE ItemText(items[Max(at)])]

ReadKnown(j) ==
    /\ job[j].phase = "read"
    /\ job' = [job EXCEPT ![j].phase = "wait",
                          ![j].derived = DerivedTexts(job[j].left, DOMAIN db.article)]
    /\ UNCHANGED <<now, db, work, writer, purge, purged, twice>>

Lock(j) ==
    /\ job[j].phase = "wait"
    /\ writer = NoJob
    /\ writer' = j
    /\ job' = [job EXCEPT ![j].phase = "write"]
    /\ UNCHANGED <<now, db, work, purge, purged, twice>>

WithArticle(t, k, a) == [l \in DOMAIN t.article \union {k} |-> IF l = k THEN a ELSE t.article[l]]

(* Mutant: the largest id in use plus one, as without AUTOINCREMENT.       *)
NewId_MaxPlusOne(t) == Max({t.article[k].id : k \in DOMAIN t.article} \union {0}) + 1

NewId(t) == t.nextId

(* Mutant: no tags for an article that was known and has been deleted.     *)
Insert_OnlyDerived(j, item) ==
    LET text == job[j].derived[item.key] IN
    /\ NewId(work) \in Ids
    /\ work' = [article |-> WithArticle(work, item.key,
                   [id |-> NewId(work), text |-> ItemText(item),
                    tagged |-> IF text = NoText THEN [title |-> 0, summary |-> FALSE] ELSE text,
                    date |-> item.date, collected |-> job[j].now,
                    owner |-> job[j].source, feeds |-> {job[j].source}]),
                nextId |-> NewId(work) + 1]

(* A new article: its tags are those derived before the lock, or are       *)
(* derived now if it was known then and has been deleted since.            *)
Insert(j, item) ==
    LET text == job[j].derived[item.key] IN
    /\ NewId(work) \in Ids
    /\ work' = [article |-> WithArticle(work, item.key,
                   [id |-> NewId(work), text |-> ItemText(item),
                    tagged |-> IF text = NoText THEN ItemText(item) ELSE text,
                    date |-> item.date, collected |-> job[j].now,
                    owner |-> job[j].source, feeds |-> {job[j].source}]),
                nextId |-> NewId(work) + 1]

(* Mutant: the row of the feed replaces the others.                        *)
Enriched_ReplacesFeeds(a, item, s) ==
    LET filled == ~a.text.summary /\ item.summary
        text   == [a.text EXCEPT !.summary = @ \/ item.summary] IN
    [a EXCEPT !.text = text,
              !.tagged = IF filled THEN text ELSE @,
              !.date = IF @ = NoDate THEN item.date ELSE @,
              !.feeds = {s}]

(* A stored article: a missing summary or date is filled in, a new summary *)
(* renews the tags, the feed is recorded.                                  *)
Enriched(a, item, s) ==
    LET filled == ~a.text.summary /\ item.summary
        text   == [a.text EXCEPT !.summary = @ \/ item.summary] IN
    [a EXCEPT !.text = text,
              !.tagged = IF filled THEN text ELSE @,
              !.date = IF @ = NoDate THEN item.date ELSE @,
              !.feeds = @ \union {s}]

(* The items are stored in the order of the batch.                         *)
StoreItem(j) ==
    LET first == Min(DOMAIN job[j].left)
        item  == job[j].left[first]
        rest  == Restrict(job[j].left, DOMAIN job[j].left \ {first}) IN
    /\ writer = j
    /\ DOMAIN job[j].left # {}
    /\ IF item.key \in DOMAIN work.article
       THEN work' = [work EXCEPT !.article[item.key] = Enriched(@, item, job[j].source)]
       ELSE Insert(j, item)
    /\ job' = [job EXCEPT ![j].left = rest]
    /\ twice' = IF /\ item.key \notin DOMAIN work.article
                   /\ \E i \in DOMAIN rest : rest[i].key = item.key
                THEN twice \union {item.key} ELSE twice
    /\ UNCHANGED <<now, db, writer, purge, purged>>

Commit(j) ==
    /\ writer = j
    /\ DOMAIN job[j].left = {}
    /\ db' = work
    /\ writer' = NoJob
    /\ job' = [job EXCEPT ![j] = NoWork]
    /\ UNCHANGED <<now, work, purge, purged, twice>>

(* Mutant: no rollback.                                                    *)
Fail_NoRollback(j) ==
    /\ job[j].phase # "idle"
    /\ job' = [job EXCEPT ![j] = NoWork]
    /\ writer' = IF writer = j THEN NoJob ELSE writer
    /\ UNCHANGED <<now, db, work, purge, purged, twice>>

(* A statement fails, or the task is cancelled, before the commit.         *)
Fail(j) ==
    /\ job[j].phase # "idle"
    /\ job' = [job EXCEPT ![j] = NoWork]
    /\ writer' = IF writer = j THEN NoJob ELSE writer
    /\ work' = IF writer = j THEN db ELSE work
    /\ UNCHANGED <<now, db, purge, purged, twice>>

----------------------------------------------------------------------------
(* purge_expired.                                                          *)

PurgeStart ==
    /\ purge.left = {}
    /\ DOMAIN db.article # {}
    /\ purge' = [now |-> now, left |-> {db.article[k].owner : k \in DOMAIN db.article}]
    /\ UNCHANGED <<now, db, work, writer, job, purged, twice>>

(* Mutant: only the retention of the source that stored the article first. *)
Expired_ByOwner(a) == ts(a) + Retention[a.owner] < purge.now

(* The article is too old for every feed that lists it.                    *)
Expired(a) == \A s \in a.feeds \union {a.owner} : ts(a) + Retention[s] < purge.now

(* One DELETE of at most DeleteMax rows in a transaction of its own; a     *)
(* short batch was the last one of the source.                             *)
PurgeDelete(s) ==
    LET expired == {k \in DOMAIN db.article : db.article[k].owner = s /\ Expired(db.article[k])} IN
    /\ writer = NoJob
    /\ s \in purge.left
    /\ \E gone \in kSubset(Min({DeleteMax, Cardinality(expired)}), expired) :
          /\ db' = [db EXCEPT !.article = Restrict(@, DOMAIN @ \ gone)]
          /\ work' = db'
          /\ purge' = IF Cardinality(gone) < DeleteMax
                      THEN [purge EXCEPT !.left = @ \ {s}] ELSE purge
          /\ purged' = [k \in DOMAIN purged \union gone |->
                           IF k \in gone THEN [now |-> purge.now, ts |-> ts(db.article[k]),
                                               feeds |-> db.article[k].feeds]
                           ELSE purged[k]]
    /\ UNCHANGED <<now, writer, job, twice>>

PurgeFails ==
    /\ purge.left # {}
    /\ purge' = NoPurge
    /\ UNCHANGED <<now, db, work, writer, job, purged, twice>>

----------------------------------------------------------------------------
Tick ==
    /\ now < MaxTick
    /\ now' = now + 1
    /\ UNCHANGED <<db, work, writer, job, purge, purged, twice>>

----------------------------------------------------------------------------
Next ==
    \/ \E j \in Jobs, s \in Sources : \E batch \in Batches[s] : Begin(j, s, batch)
    \/ \E j \in Jobs : ReadKnown(j) \/ Lock(j) \/ StoreItem(j) \/ Commit(j) \/ Fail(j)
    \/ PurgeStart
    \/ \E s \in Sources : PurgeDelete(s)
    \/ PurgeFails
    \/ Tick

Spec == Init /\ [][Next]_vars

----------------------------------------------------------------------------
(* Properties.                                                             *)

(* The derived tags of an article are those of its stored title and        *)
(* summary, whatever was known, deleted, enriched or rolled back between   *)
(* the tagging and the lock, unless one batch listed it twice.             *)
TagsMatchText ==
    \A k \in DOMAIN db.article :
        k \in twice \/ db.article[k].tagged = db.article[k].text

(* What fails leaves nothing behind: outside of a transaction the writer   *)
(* sees just what is committed.                                            *)
NothingPending == writer = NoJob => work = db

(* An article stays as long as one of the feeds that list it keeps it, at  *)
(* any place in the batches of a purge at which another feed picks it up.  *)
KeptByAnyFeed ==
    [][\A k \in DOMAIN db.article :
          k \notin DOMAIN db'.article =>
              \A s \in db.article[k].feeds : ts(db.article[k]) + Retention[s] < now]_vars

(* What the purge has deleted does not come back from a feed that listed   *)
(* it, as long as the feed shows a date that is not later, unless the      *)
(* ingest took its clock before the purge did.                             *)
ComesBackOnlyLate ==
    [][\A j \in Jobs, k \in DOMAIN purged :
          (/\ writer = j /\ writer' = NoJob
           /\ k \notin DOMAIN db.article /\ k \in DOMAIN db'.article
           /\ job[j].source \in purged[k].feeds
           /\ db'.article[k].date # NoDate
           /\ db'.article[k].date <= purged[k].ts)
          => job[j].now < purged[k].now]_vars
=============================================================================
