------------------------------ MODULE TagIndex ------------------------------
(***************************************************************************)
(* The symbol directory and the symbol tags of stored articles: the table  *)
(* symbols and the index in memory of newsserver/symbols.py, its edits     *)
(* (put_aliases of api/v1/symbols.py, refresh_symbols of scheduler.py),    *)
(* retag and retag_changed of pipeline.py, the start of the server, and    *)
(* the ingests and purges that run between their steps.                    *)
(*                                                                         *)
(* Abstractions: an entry of the directory is one name of a symbol of its  *)
(* own; a text is the set of names in it.  How names are found in a text   *)
(* is the subject of TextTags, rollback that of ArticleStore.  Tags are    *)
(* computed and the write lock is asked for without an await in between,   *)
(* and the lock is first come, first served: queue.  Rows are read and     *)
(* their tags computed in one step.  Edits and purges compute nothing      *)
(* before the lock: they happen whenever no transaction is open.           *)
(***************************************************************************)
EXTENDS Naturals, SequencesExt, FiniteSetsExt, Functions

CONSTANTS
    Names,              \* names the directory may have
    Aliases,            \* those that users edit as aliases
    Manual,             \* the aliases in aliases.yaml
    StopNames,          \* the contents that stopnames.txt can have
    Items,              \* feed items: names in the text, symbols the source gives, a summary or not
    Puts, Refreshes,    \* identities of put_aliases and refresh_symbols
    Tasks,              \* bound: identities of retags
    Ingest,             \* the ingest as an owner of the write lock
    Batch,              \* rows of a retag's batch
    MaxIncremental,     \* MAX_INCREMENTAL_TERMS
    MaxId, MaxEdits, MaxStarts  \* bounds: articles, changes of the table, restarts

ASSUME ConstantsAssumption ==
    /\ Manual \subseteq Aliases /\ Aliases \subseteq Names
    /\ {} \in StopNames /\ StopNames \subseteq SUBSET Names
    /\ \A item \in Items : item.text \subseteq Names /\ item.fixed \subseteq Names
    /\ Puts \cap Refreshes = {} /\ Ingest \notin Tasks
    /\ Batch \in Nat \ {0}
    /\ MaxIncremental \in Nat /\ MaxId \in Nat /\ MaxEdits \in Nat /\ MaxStarts \in Nat

VARIABLES
    table,    \* the committed names of the table symbols
    stop,     \* stopnames.txt as this process has read it
    index,    \* the names that SymbolDirectory tags with
    article,  \* the committed articles by id
    nextId,   \* sqlite_sequence
    queue,    \* who waits for the write lock, its holder first
    job,      \* the ingest and the row it writes
    edit,     \* the edits and refreshes of the directory
    retag,    \* the tasks that renew tags
    rulesDue, \* meta symbol_rules_fp is not the fingerprint of the rules
    count,    \* changes of the table and restarts, for the bounds
    spoiled,  \* history: articles that a known race has left with wrong tags
    behind    \* history: an overtaken or aborted load has left the index behind

directory == <<table, stop, index, edit, behind>>
store     == <<article, nextId, queue, job>>
vars      == <<directory, store, retag, rulesDue, count, spoiled>>

Editors == Puts \union Refreshes

NoRow   == [text |-> {}, short |-> TRUE, fixed |-> {}, derived |-> {}, given |-> {}]
NoJob   == [phase |-> "idle", target |-> 0, item |-> CHOOSE item \in Items : TRUE,
            seen |-> {}, row |-> NoRow]
NoEdit  == [phase |-> "idle", before |-> {}, rows |-> {}, overlapped |-> FALSE]
NoRetag == [phase |-> "idle", changes |-> {}, all |-> FALSE, last |-> 0, todo |-> {},
            batch |-> << >>, rules |-> FALSE]

(* _rebuild: the index of a table.                                         *)
Indexed(names) == names \ stop

(* SymbolDirectory.tag.                                                    *)
tag(text) == text \cap index

(* The derived tags a row should have; a symbol is tagged once, and what   *)
(* the source gives comes first.                                           *)
Right(a) == tag(a.text) \ a.fixed

Init ==
    /\ table = Manual /\ stop = {} /\ index = Manual
    /\ article = << >> /\ nextId = 1
    /\ queue = << >> /\ job = NoJob
    /\ edit = [e \in Editors |-> NoEdit]
    /\ retag = [t \in Tasks |-> NoRetag]
    /\ rulesDue = FALSE
    /\ count = [edits |-> 0, starts |-> 0]
    /\ spoiled = {} /\ behind = FALSE

Holds(w)      == queue # << >> /\ Head(queue) = w
InTransaction == job.phase = "open"

(* Mutant: who asks for the lock last gets it first.                       *)
Enqueue_Last(w) ==
    queue' = IF queue = << >> THEN <<w>> ELSE <<Head(queue), w>> \o Tail(queue)

Enqueue(w) == queue' = Append(queue, w)

----------------------------------------------------------------------------
(* Ingest of an item whose article is new (target 0) or stored.            *)

(* The tags of a new article are computed before the lock, with the index  *)
(* of this moment.                                                         *)
TagItem(target, item) ==
    /\ job.phase = "idle"
    /\ nextId <= MaxId
    /\ job' = [NoJob EXCEPT !.phase = "wait", !.target = target, !.item = item,
                            !.seen = index]
    /\ Enqueue(Ingest)
    /\ UNCHANGED <<directory, article, nextId, retag, rulesDue, count, spoiled>>

(* A new row with tags from the index seen.                                *)
Inserted(item, seen) ==
    [text |-> item.text, short |-> ~item.summary, fixed |-> item.fixed,
     derived |-> (item.text \cap seen) \ item.fixed, given |-> item.fixed]

(* A row that lacks a summary which the item has.                          *)
Fills(a, item) == a.short /\ item.summary

(* Mutant: the new summary does not renew the tags.                        *)
Enriched_KeepsTags(a, item) ==
    [text |-> IF Fills(a, item) THEN a.text \union item.text ELSE a.text,
     short |-> a.short /\ ~item.summary,
     fixed |-> a.fixed \union (item.fixed \ a.derived), derived |-> a.derived,
     given |-> a.given \union item.fixed]

(* A row that gets a summary gets its derived tags anew; to any other row  *)
(* the source's tags are added, INSERT OR IGNORE.                          *)
Enriched(a, item) ==
    LET fills == Fills(a, item)
        fixed == a.fixed \union (IF fills THEN item.fixed ELSE item.fixed \ a.derived)
        text  == IF fills THEN a.text \union item.text ELSE a.text IN
    [text |-> text, short |-> a.short /\ ~item.summary, fixed |-> fixed,
     derived |-> IF fills THEN tag(text) \ fixed ELSE a.derived,
     given |-> a.given \union item.fixed]

(* Under the lock; an article that was known and has been purged is tagged *)
(* and stored again.                                                       *)
WriteItem ==
    LET seen == IF job.target = 0 THEN job.seen ELSE index IN
    /\ job.phase = "wait" /\ Holds(Ingest)
    /\ job' = [job EXCEPT !.phase = "open", !.seen = seen,
                          !.row = IF job.target \in DOMAIN article
                                  THEN Enriched(article[job.target], job.item)
                                  ELSE Inserted(job.item, seen)]
    /\ UNCHANGED <<directory, article, nextId, queue, retag, rulesDue, count, spoiled>>

(* The commit.  The row is spoiled when the index has changed since its    *)
(* tags were computed, or when a retag waits that has read its old text.   *)
CommitItem ==
    LET new == job.target \notin DOMAIN article
        id  == IF new THEN nextId ELSE job.target IN
    /\ InTransaction
    /\ article' = [i \in DOMAIN article \union {id} |-> IF i = id THEN job.row ELSE article[i]]
    /\ nextId' = IF new THEN nextId + 1 ELSE nextId
    /\ queue' = Tail(queue) /\ job' = NoJob
    /\ spoiled' = IF /\ new \/ Fills(article[id], job.item)
                     /\ job.seen # index \/ \E t \in Tasks : id \in DOMAIN retag[t].batch
                  THEN spoiled \union {id} ELSE spoiled
    /\ UNCHANGED <<directory, retag, rulesDue, count>>

(* purge_expired deletes an article and its tags.                          *)
PurgeArticle(i) ==
    /\ i \in DOMAIN article /\ ~InTransaction
    /\ article' = Restrict(article, DOMAIN article \ {i})
    /\ spoiled' = spoiled \ {i}
    /\ UNCHANGED <<directory, nextId, queue, job, retag, rulesDue, count>>

----------------------------------------------------------------------------
(* Edits of the directory.                                                 *)

ChangeTable(names) ==
    /\ count.edits < MaxEdits /\ ~InTransaction
    /\ table' = names
    /\ count' = [count EXCEPT !.edits = @ + 1]

(* Mutant: the directory is loaded again only for a new alias.             *)
PutAliases_LoadsNew(p, alias, present) ==
    /\ edit[p].phase = "idle"
    /\ ChangeTable(IF present THEN table \union {alias} ELSE table \ {alias})
    /\ edit' = IF present THEN [edit EXCEPT ![p].phase = "snapshot"] ELSE edit
    /\ UNCHANGED <<stop, index, behind, store, retag, rulesDue, spoiled>>

(* put_aliases commits first and takes its snapshot then.                  *)
PutAliases(p, alias, present) ==
    /\ edit[p].phase = "idle"
    /\ ChangeTable(IF present THEN table \union {alias} ELSE table \ {alias})
    /\ edit' = [edit EXCEPT ![p].phase = "snapshot"]
    /\ UNCHANGED <<stop, index, behind, store, retag, rulesDue, spoiled>>

(* refresh_symbols takes its snapshot first.                               *)
TakeSnapshot(e) ==
    /\ edit[e].phase = IF e \in Puts THEN "snapshot" ELSE "idle"
    /\ e \in Refreshes => count.edits < MaxEdits
    /\ edit' = [edit EXCEPT ![e] = [NoEdit EXCEPT !.before = index,
                                    !.phase = IF e \in Puts THEN "select" ELSE "remote"]]
    /\ UNCHANGED <<table, stop, index, behind, store, retag, rulesDue, count, spoiled>>

(* refresh_remote commits the names the remote lists have now; a list that *)
(* fails or is too short is left as it was.                                *)
RefreshRemote(r, listed) ==
    /\ edit[r].phase = "remote"
    /\ ChangeTable((table \cap Aliases) \union listed)
    /\ edit' = [edit EXCEPT ![r].phase = "manual"]
    /\ UNCHANGED <<stop, index, behind, store, retag, rulesDue, spoiled>>

(* e is about to load what the table holds now.                            *)
Fresh(e) == edit[e].phase = "rebuild" => edit[e].rows = Indexed(table)

(* apply_manual_aliases merges aliases.yaml, or fails on a bad entry: then *)
(* what refresh_remote has committed is not loaded.                        *)
ApplyManual(r, ok) ==
    /\ edit[r].phase = "manual" /\ ~InTransaction
    /\ IF ok THEN /\ table' = table \union Manual
                  /\ edit' = [edit EXCEPT ![r].phase = "select"]
                  /\ UNCHANGED behind
             ELSE /\ edit' = [edit EXCEPT ![r] = NoEdit]
                  /\ behind' = (behind \/ index # Indexed(table) \/ \E e \in Editors : ~Fresh(e))
                  /\ UNCHANGED table
    /\ UNCHANGED <<stop, index, store, retag, rulesDue, count, spoiled>>

SelectNames(e) ==
    /\ edit[e].phase = "select"
    /\ edit' = [edit EXCEPT ![e].phase = "rebuild", ![e].rows = Indexed(table)]
    /\ UNCHANGED <<table, stop, index, behind, store, retag, rulesDue, count, spoiled>>

(* Mutant: names that are gone are not changes.                            *)
Changes_OnlyNew(old, new) == new \ old

(* changes_since.                                                          *)
Changes(old, new) == (new \ old) \union (old \ new)

(* The new index, and the task that renews the tags of the names that have *)
(* changed since the snapshot, or all tags when these are too many.  What  *)
(* another load has changed since the snapshot may be missing from them.   *)
Rebuild(e, t) ==
    LET rows    == edit[e].rows
        changes == Changes(edit[e].before, rows)
        unseen  == Changes(index, rows) \ changes IN
    /\ edit[e].phase = "rebuild" /\ retag[t].phase = "idle"
    /\ index' = rows
    /\ edit' = [f \in Editors |->
                   IF f = e THEN NoEdit
                   ELSE [edit[f] EXCEPT !.overlapped = @ \/ edit[f].phase \notin {"idle", "snapshot"}]]
    /\ behind' = (rows # Indexed(table) /\ (behind \/ edit[e].overlapped))
    /\ retag' = IF changes = {} THEN retag
                ELSE [retag EXCEPT ![t] =
                        IF Cardinality(changes) > MaxIncremental
                        THEN [NoRetag EXCEPT !.phase = "read", !.all = TRUE]
                        ELSE [NoRetag EXCEPT !.phase = "select", !.changes = changes]]
    /\ spoiled' = IF edit[e].overlapped
                  THEN spoiled \union {i \in DOMAIN article : article[i].text \cap unseen # {}}
                  ELSE spoiled
    /\ UNCHANGED <<table, stop, store, rulesDue, count>>

----------------------------------------------------------------------------
(* retag_changed and retag.                                                *)

(* The candidates: the articles that mention a changed name.               *)
SelectArticles(t) ==
    /\ retag[t].phase = "select"
    /\ retag' = [retag EXCEPT ![t].phase = "read", ![t].changes = {},
           ![t].todo = {i \in DOMAIN article : article[i].text \cap retag[t].changes # {}}]
    /\ UNCHANGED <<directory, store, rulesDue, count, spoiled>>

(* The ids that a task has still to read.                                  *)
Left(t) == IF retag[t].all THEN {i \in DOMAIN article : i > retag[t].last} ELSE retag[t].todo

EndOfRetag(t) == retag[t].phase = "read" /\ Left(t) = {}

(* One batch: its rows are read, their tags computed, the lock asked for.  *)
ReadBatch(t) ==
    LET chunk == {i \in Left(t) : Cardinality({k \in Left(t) : k < i}) < Batch}
        rows  == chunk \cap DOMAIN article IN
    /\ retag[t].phase = "read" /\ Left(t) # {}
    /\ retag' = [retag EXCEPT ![t].phase = "wait", ![t].todo = @ \ chunk, ![t].last = Max(chunk),
                              ![t].batch = [i \in rows |-> tag(article[i].text)]]
    /\ Enqueue(t)
    /\ UNCHANGED <<directory, article, nextId, job, rulesDue, count, spoiled>>

(* Under the lock the derived tags of the batch are replaced.  Tags of an  *)
(* article that has been purged break the foreign key and end the task.  A *)
(* spoiled row is put right unless another batch will spoil it again.      *)
WriteBatch(t) ==
    LET batch   == retag[t].batch
        breaks  == \E i \in DOMAIN batch : i \notin DOMAIN article /\ batch[i] # {}
        renewed == [i \in DOMAIN article |->
                       IF i \in DOMAIN batch
                       THEN [article[i] EXCEPT !.derived = batch[i] \ article[i].fixed]
                       ELSE article[i]]
        right(i) == /\ renewed[i].derived = Right(renewed[i])
                    /\ \A u \in Tasks \ {t} : i \in DOMAIN retag[u].batch =>
                          retag[u].batch[i] \ article[i].fixed = Right(renewed[i]) IN
    /\ Holds(t)
    /\ queue' = Tail(queue)
    /\ IF breaks
       THEN /\ retag' = [retag EXCEPT ![t] = NoRetag]
            /\ spoiled' = spoiled \union ((DOMAIN batch \union Left(t)) \cap DOMAIN article)
            /\ UNCHANGED article
       ELSE /\ retag' = [retag EXCEPT ![t].phase = "read", ![t].batch = << >>]
            /\ article' = renewed
            /\ spoiled' = spoiled \ {i \in DOMAIN batch \cap DOMAIN article : right(i)}
    /\ UNCHANGED <<directory, nextId, job, rulesDue, count>>

(* The last batch is done; the startup retag records the fingerprint.      *)
EndRetag(t) ==
    /\ EndOfRetag(t)
    /\ retag' = [retag EXCEPT ![t] = NoRetag]
    /\ rulesDue' = (rulesDue /\ ~retag[t].rules)
    /\ UNCHANGED <<directory, store, count, spoiled>>

----------------------------------------------------------------------------
(* A crash and the start after it, possibly with other stop names: the     *)
(* directory is loaded, aliases.yaml merged, and everything is retagged    *)
(* when the rules have changed since the last full retag, otherwise only   *)
(* what the merge has changed.  What was wrong then stays wrong.           *)
Restart(words) ==
    LET due   == rulesDue \/ words # stop
        added == Manual \ (table \union words)
        first == IF due THEN [NoRetag EXCEPT !.phase = "read", !.all = TRUE, !.rules = TRUE]
                 ELSE IF added = {} THEN NoRetag
                 ELSE [NoRetag EXCEPT !.phase = "select", !.changes = added] IN
    /\ count.starts < MaxStarts
    /\ count' = [count EXCEPT !.starts = @ + 1]
    /\ stop' = words
    /\ table' = table \union Manual
    /\ index' = table' \ words
    /\ rulesDue' = due
    /\ queue' = << >> /\ job' = NoJob
    /\ edit' = [e \in Editors |-> NoEdit]
    /\ \E t \in Tasks : retag' = [u \in Tasks |-> IF u = t THEN first ELSE NoRetag]
    /\ spoiled' = IF due THEN {}
                  ELSE {i \in DOMAIN article :
                           article[i].derived # (article[i].text \cap (table \ words)) \ article[i].fixed}
    /\ behind' = FALSE
    /\ UNCHANGED <<article, nextId>>

----------------------------------------------------------------------------
Next ==
    \/ \E target \in DOMAIN article \union {0}, item \in Items : TagItem(target, item)
    \/ WriteItem \/ CommitItem
    \/ \E i \in DOMAIN article : PurgeArticle(i)
    \/ \E p \in Puts, alias \in Aliases, present \in BOOLEAN : PutAliases(p, alias, present)
    \/ \E r \in Refreshes :
          \/ \E listed \in SUBSET (Names \ Aliases) : RefreshRemote(r, listed)
          \/ \E ok \in BOOLEAN : ApplyManual(r, ok)
    \/ \E e \in Editors : TakeSnapshot(e) \/ SelectNames(e) \/ \E t \in Tasks : Rebuild(e, t)
    \/ \E t \in Tasks : SelectArticles(t) \/ ReadBatch(t) \/ WriteBatch(t) \/ EndRetag(t)
    \/ \E words \in StopNames : Restart(words)

Spec == Init /\ [][Next]_vars

----------------------------------------------------------------------------
(* Properties.                                                             *)

(* The task t has still to look at the article i for the name n.           *)
WillRenew(t, i, n) ==
    \/ retag[t].phase = "select" /\ n \in retag[t].changes
    \/ retag[t].phase \in {"read", "wait"} /\ i \in Left(t)
    \/ i \in DOMAIN retag[t].batch /\ (n \in retag[t].batch[i] <=> n \in tag(article[i].text))

(* Whatever edits, refreshes, retags, ingests, purges and restarts overlap:*)
(* an article whose dictionary tags are not those of its text and of the   *)
(* index is on the way of a retag that puts it right, unless it is one     *)
(* that a race listed in the README has spoiled.                           *)
StaleIsRenewed ==
    \A i \in DOMAIN article \ spoiled :
        \A n \in article[i].text \ article[i].fixed :
            (n \in article[i].derived <=> n \in index) \/ \E t \in Tasks : WillRenew(t, i, n)

(* The index is the table as committed, unless an edit or refresh is about *)
(* to load it, a load was overtaken by a later one, or a refresh ended in  *)
(* apply_manual_aliases.                                                   *)
IndexFollowsTable ==
    \/ index = Indexed(table)
    \/ behind
    \/ \E e \in Editors : \/ edit[e].phase \in {"snapshot", "remote", "manual", "select"}
                          \/ edit[e].phase = "rebuild" /\ edit[e].rows = Indexed(table)

(* What docs/DESIGN.md says of an article that is stored already: the tags *)
(* of the source and of the search target are added.  They stay.           *)
SourceTagsKept ==
    \A i \in DOMAIN article : article[i].given \subseteq article[i].fixed \union article[i].derived
=============================================================================
