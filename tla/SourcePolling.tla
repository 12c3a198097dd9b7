--------------------------- MODULE SourcePolling ---------------------------
(***************************************************************************)
(* Polling of the global sources by newsserver/scheduler.py: the one       *)
(* second tick of _global_loop, the manual refresh run_source_now, the run *)
(* _run_source (semaphore, conditional GET, ingest, state update, save,    *)
(* log), the enable switch set_enabled, and crash / init_state.            *)
(*                                                                         *)
(* The server is one asyncio process: code between two awaits is one step. *)
(* The only awaits of a run are the semaphore, the HTTP exchange and the   *)
(* database's write lock, so those are the phases of a run.  The write     *)
(* lock (storage/db.py) is a FIFO asyncio.Lock; "writers" is its holder    *)
(* followed by its waiters, and a transaction takes effect when it is at   *)
(* the head.                                                               *)
(*                                                                         *)
(* Abstractions: a feed's content is a version number, its ETag (or        *)
(* Last-Modified) is that number; next_poll_at is "due" or "later"; the    *)
(* idle streak only lengthens the wait and is left to PollInterval;        *)
(* last_error is set exactly when fail_streak > 0, so it has no variable.  *)
(***************************************************************************)
EXTENDS Naturals, Sequences, FiniteSets

CONSTANTS
    Sources,          \* the global (not per_symbol) sources with their configuration present
    EnabledByDefault, \* the sources whose sources.yaml entry is enabled
    Conditional,      \* the sources whose server sends validators (ETag / Last-Modified)
    Blank,            \* the versions of a feed without an acceptable item
    MaxFetches,       \* settings.max_concurrent_fetches
    Runs,             \* identities of concurrent _run_source calls (a bound)
    MaxRefreshes,     \* bound: manual refreshes in progress at a time
    NoSource,         \* the source of an unused run
    MaxVersion,       \* bound: versions a feed goes through
    MaxStreak,        \* bound: fail_streak is counted up to here
    MaxQueue,         \* bound: no new PATCH while this many wait for the write lock
    MaxCrashes        \* bound: crashes of the process

Overrides  == {"none", "on", "off"}
SetEnabled == [src: Sources, to: Overrides]

ASSUME ConstantsAssumption ==
    /\ EnabledByDefault \subseteq Sources
    /\ Conditional \subseteq Sources
    /\ NoSource \notin Sources
    /\ Runs \intersect SetEnabled = {}
    /\ MaxFetches \in Nat \ {0}
    /\ MaxVersion \in Nat \ {0}
    /\ MaxStreak \in Nat \ {0}
    /\ MaxRefreshes \in Nat
    /\ MaxQueue \in Nat
    /\ MaxCrashes \in Nat

NoTag    == 0
Versions == 1 .. MaxVersion
Tags     == Versions \union {NoTag}

VARIABLES
    up,           \* the process runs
    running,      \* Scheduler._running
    run,          \* the _run_source calls in progress
    st,           \* Scheduler.state without the override
    override,     \* SourceState.enabled_override
    writers,      \* the write lock: its holder, then its waiters
    disk,         \* the polling columns of table sources
    diskOverride, \* column sources.enabled_override
    stored,       \* the feed versions whose items were committed by ingest
    remote,       \* the version every feed shows now
    crashes

memory == <<up, running, run, st, override, writers>>
vars   == <<up, running, run, st, override, writers, disk, diskOverride,
            stored, remote, crashes>>

----------------------------------------------------------------------------
(* Types.                                                                  *)

SourceState == [etag: Tags, failStreak: 0 .. MaxStreak, poll: {"due", "later"}]

Collecting  == {"queued", "fetching", "prepare", "ingest"}
Phases      == Collecting \union {"idle", "save", "log"}
Run         == [phase: Phases, src: Sources \union {NoSource}, sent: Tags,
                got: Tags, manual: BOOLEAN, failed: BOOLEAN]

TypeOK ==
    /\ up \in BOOLEAN
    /\ running \in SUBSET Sources
    /\ run \in [Runs -> Run]
    /\ st \in [Sources -> SourceState]
    /\ override \in [Sources -> Overrides]
    /\ writers \in Seq(Runs \union SetEnabled)
    /\ disk \in [Sources -> SourceState]
    /\ diskOverride \in [Sources -> Overrides]
    /\ stored \in [Sources -> SUBSET Versions]
    /\ remote \in [Sources -> Versions]
    /\ crashes \in 0 .. MaxCrashes

FreshState == [etag |-> NoTag, failStreak |-> 0, poll |-> "due"]
NoRun      == [phase |-> "idle", src |-> NoSource, sent |-> NoTag,
               got |-> NoTag, manual |-> FALSE, failed |-> FALSE]
NewRun(s, byHand) == [NoRun EXCEPT !.phase = "queued", !.src = s, !.manual = byHand]

Init ==
    /\ up = TRUE
    /\ running = {}
    /\ run = [r \in Runs |-> NoRun]
    /\ st = [s \in Sources |-> FreshState]
    /\ override = [s \in Sources |-> "none"]
    /\ writers = << >>
    /\ disk = [s \in Sources |-> FreshState]
    /\ diskOverride = [s \in Sources |-> "none"]
    /\ stored = [s \in Sources |-> {}]
    /\ remote = [s \in Sources |-> 1]
    /\ crashes = 0

----------------------------------------------------------------------------
(* Starting a run.                                                         *)

Enabled(s) == IF override[s] = "none" THEN s \in EnabledByDefault
                                      ELSE override[s] = "on"

Due == {s \in Sources : s \notin running /\ Enabled(s) /\ st[s].poll = "due"}

(* One pass of _global_loop: it has no await, so it spawns a run for every *)
(* due source in one step.  "spawn" gives each of them an unused identity. *)
Tick ==
    /\ up
    /\ Due # {}
    /\ \E spawn \in [Runs -> Due \union {NoSource}] :
          /\ \A r \in Runs : spawn[r] \in Due => run[r].phase = "idle"
          /\ \A s \in Due : \E r \in Runs : spawn[r] = s
          /\ \A q, r \in Runs : spawn[q] = spawn[r] /\ spawn[r] \in Due => q = r
          /\ run' = [r \in Runs |-> IF spawn[r] = NoSource THEN run[r]
                                                          ELSE NewRun(spawn[r], FALSE)]
    /\ running' = running \union Due
    /\ UNCHANGED <<up, st, override, writers, disk, diskOverride, stored, remote, crashes>>

(* Mutant: the SourceBusy check forgotten.                                 *)
run_source_now_Unguarded(s) ==
    /\ up
    /\ Cardinality({r \in Runs : run[r].manual}) < MaxRefreshes
    /\ \E r \in Runs : /\ run[r].phase = "idle"
                       /\ run' = [run EXCEPT ![r] = NewRun(s, TRUE)]
    /\ running' = running \union {s}
    /\ UNCHANGED <<up, st, override, writers, disk, diskOverride, stored, remote, crashes>>

(* POST /v1/sources/{key}/refresh: neither the override nor the due time   *)
(* is looked at, only _running (SourceBusy otherwise).                     *)
run_source_now(s) ==
    /\ up
    /\ s \notin running
    /\ Cardinality({r \in Runs : run[r].manual}) < MaxRefreshes
    /\ \E r \in Runs : /\ run[r].phase = "idle"
                       /\ run' = [run EXCEPT ![r] = NewRun(s, TRUE)]
    /\ running' = running \union {s}
    /\ UNCHANGED <<up, st, override, writers, disk, diskOverride, stored, remote, crashes>>

----------------------------------------------------------------------------
(* The run.                                                                *)

Fetching == {r \in Runs : run[r].phase = "fetching"}

(* "async with self._sem" and the request, which carries the validators    *)
(* the state holds at that moment.                                         *)
AcquireSem(r) ==
    /\ run[r].phase = "queued"
    /\ Cardinality(Fetching) < MaxFetches
    /\ run' = [run EXCEPT ![r].phase = "fetching", ![r].sent = st[run[r].src].etag]
    /\ UNCHANGED <<up, running, st, override, writers, disk, diskOverride,
                   stored, remote, crashes>>

Capped(n) == IF n > MaxStreak THEN MaxStreak ELSE n

(* Mutant: no "finally", so a failed run stays in _running.                *)
Finish_StaysRunning(r, ok, tag, queue) ==
    LET s == run[r].src IN
    /\ running' = IF ok THEN running \ {s} ELSE running
    /\ st' = [st EXCEPT ![s] =
                 [etag       |-> tag,
                  failStreak |-> IF ok THEN 0 ELSE Capped(st[s].failStreak + 1),
                  poll       |-> "later"]]
    /\ run' = [run EXCEPT ![r] = [NoRun EXCEPT !.phase = "save", !.src = s, !.failed = ~ok,
                                               !.manual = run[r].manual]]
    /\ writers' = Append(queue, r)

(* _run_source from the end of its try statement to the write lock of      *)
(* _save_state: no await in between, so the source leaves _running and its *)
(* state changes in the same step.  "tag" is the validator afterwards and  *)
(* "queue" the write lock before _save_state joins it.                     *)
Finish(r, ok, tag, queue) ==
    LET s == run[r].src IN
    /\ running' = running \ {s}
    /\ st' = [st EXCEPT ![s] =
                 [etag       |-> tag,
                  failStreak |-> IF ok THEN 0 ELSE Capped(st[s].failStreak + 1),
                  poll       |-> "later"]]
    /\ run' = [run EXCEPT ![r] = [NoRun EXCEPT !.phase = "save", !.src = s, !.failed = ~ok,
                                               !.manual = run[r].manual]]
    /\ writers' = Append(queue, r)

TagOf(s, version) == IF s \in Conditional THEN version ELSE NoTag

(* 304: no items, the state keeps its validators.                          *)
FetchNotModified(r) ==
    /\ run[r].phase = "fetching"
    /\ run[r].sent # NoTag
    /\ run[r].sent = remote[run[r].src]
    /\ Finish(r, TRUE, st[run[r].src].etag, writers)
    /\ UNCHANGED <<up, override, disk, diskOverride, stored, remote, crashes>>

(* Mutant: the validators are kept as soon as the response is there.       *)
FetchItems_KeepsTag(r) ==
    LET s == run[r].src IN
    /\ run[r].phase = "fetching"
    /\ st' = [st EXCEPT ![s].etag = TagOf(s, remote[s])]
    /\ run' = [run EXCEPT ![r].phase = "prepare", ![r].got = remote[s]]
    /\ UNCHANGED <<up, running, override, writers, disk, diskOverride, stored, remote, crashes>>

(* 200 (a server may send the feed again in spite of the validators): the  *)
(* semaphore is released, ingest starts on the feed's items.               *)
FetchItems(r) ==
    /\ run[r].phase = "fetching"
    /\ run' = [run EXCEPT ![r].phase = "prepare", ![r].got = remote[run[r].src]]
    /\ UNCHANGED <<up, running, st, override, writers, disk, diskOverride,
                   stored, remote, crashes>>

(* A network error, an HTTP error status, a parse error, or a failed read  *)
(* of the known keys: the run ends as a failure, the validators stay.      *)
FetchFails(r) ==
    /\ run[r].phase \in {"fetching", "prepare"}
    /\ Finish(r, FALSE, st[run[r].src].etag, writers)
    /\ UNCHANGED <<up, override, disk, diskOverride, stored, remote, crashes>>

(* ingest returns early when no item of the feed is acceptable.            *)
IngestNothing(r) ==
    /\ run[r].phase = "prepare"
    /\ run[r].got \in Blank
    /\ Finish(r, TRUE, TagOf(run[r].src, run[r].got), writers)
    /\ UNCHANGED <<up, override, disk, diskOverride, stored, remote, crashes>>

(* ingest has read the known keys and asks for the write lock.             *)
QueueIngest(r) ==
    /\ run[r].phase = "prepare"
    /\ run[r].got \notin Blank
    /\ run' = [run EXCEPT ![r].phase = "ingest"]
    /\ writers' = Append(writers, r)
    /\ UNCHANGED <<up, running, st, override, disk, diskOverride, stored, remote, crashes>>

Holds(w) == writers # << >> /\ Head(writers) = w

(* The ingest transaction commits; the task then runs on to _save_state.   *)
IngestCommit(r) ==
    LET s == run[r].src IN
    /\ run[r].phase = "ingest"
    /\ Holds(r)
    /\ stored' = [stored EXCEPT ![s] = @ \union {run[r].got}]
    /\ Finish(r, TRUE, TagOf(s, run[r].got), Tail(writers))
    /\ UNCHANGED <<up, override, disk, diskOverride, remote, crashes>>

(* The ingest transaction raises and is rolled back.                       *)
IngestFails(r) ==
    /\ run[r].phase = "ingest"
    /\ Holds(r)
    /\ Finish(r, FALSE, st[run[r].src].etag, Tail(writers))
    /\ UNCHANGED <<up, override, disk, diskOverride, stored, remote, crashes>>

(* Mutant: fail_streak missing from the UPDATE.                            *)
SaveState_NoStreak(r) ==
    LET s == run[r].src IN
    /\ run[r].phase = "save"
    /\ Holds(r)
    /\ disk' = [disk EXCEPT ![s] = [st[s] EXCEPT !.failStreak = disk[s].failStreak]]
    /\ run' = [run EXCEPT ![r].phase = "log"]
    /\ writers' = Append(Tail(writers), r)
    /\ UNCHANGED <<up, running, st, override, diskOverride, stored, remote, crashes>>

(* The UPDATE takes its parameters from the state once the lock is held.   *)
SaveState(r) ==
    LET s == run[r].src IN
    /\ run[r].phase = "save"
    /\ Holds(r)
    /\ disk' = [disk EXCEPT ![s] = st[s]]
    /\ run' = [run EXCEPT ![r].phase = "log"]
    /\ writers' = Append(Tail(writers), r)
    /\ UNCHANGED <<up, running, st, override, diskOverride, stored, remote, crashes>>

(* The fetch_log row, after which the run returns to whoever awaits it.    *)
LogFetch(r) ==
    /\ run[r].phase = "log"
    /\ Holds(r)
    /\ run' = [run EXCEPT ![r] = NoRun]
    /\ writers' = Tail(writers)
    /\ UNCHANGED <<up, running, st, override, disk, diskOverride, stored, remote, crashes>>

----------------------------------------------------------------------------
(* The enable switch: memory at once, the column when the lock is free.    *)

set_enabled(s, o) ==
    /\ up
    /\ Len(writers) < MaxQueue
    /\ override' = [override EXCEPT ![s] = o]
    /\ writers' = Append(writers, [src |-> s, to |-> o])
    /\ UNCHANGED <<up, running, run, st, disk, diskOverride, stored, remote, crashes>>

CommitEnabled ==
    /\ writers # << >>
    /\ Head(writers) \in SetEnabled
    /\ diskOverride' = [diskOverride EXCEPT ![Head(writers).src] = Head(writers).to]
    /\ writers' = Tail(writers)
    /\ UNCHANGED <<up, running, run, st, override, disk, stored, remote, crashes>>

----------------------------------------------------------------------------
(* The environment, the crash and the restart.                             *)

Publish(s) ==
    /\ remote[s] < MaxVersion
    /\ remote' = [remote EXCEPT ![s] = @ + 1]
    /\ UNCHANGED <<memory, disk, diskOverride, stored, crashes>>

(* next_poll_at, in memory and in the column, comes to lie in the past.    *)
ComesDue(s) ==
    /\ "later" \in {st[s].poll, disk[s].poll}
    /\ st' = [st EXCEPT ![s].poll = "due"]
    /\ disk' = [disk EXCEPT ![s].poll = "due"]
    /\ UNCHANGED <<up, running, run, override, writers, diskOverride, stored, remote, crashes>>

(* stop() or a kill: every task is gone, an open transaction rolls back.   *)
Crash ==
    /\ up
    /\ crashes < MaxCrashes
    /\ crashes' = crashes + 1
    /\ up' = FALSE
    /\ running' = {}
    /\ run' = [r \in Runs |-> NoRun]
    /\ st' = [s \in Sources |-> FreshState]
    /\ override' = [s \in Sources |-> "none"]
    /\ writers' = << >>
    /\ UNCHANGED <<disk, diskOverride, stored, remote>>

(* Mutant: the column's integer is not turned back into an override.       *)
init_state_RawOverride ==
    /\ ~up
    /\ up' = TRUE
    /\ st' = disk
    /\ override' = [s \in Sources |-> IF diskOverride[s] = "none" THEN "none" ELSE "integer"]
    /\ UNCHANGED <<running, run, writers, disk, diskOverride, stored, remote, crashes>>

(* The columns of table sources become the state again.                    *)
init_state ==
    /\ ~up
    /\ up' = TRUE
    /\ st' = disk
    /\ override' = diskOverride
    /\ UNCHANGED <<running, run, writers, disk, diskOverride, stored, remote, crashes>>

----------------------------------------------------------------------------
RunStep(r) ==
    \/ AcquireSem(r)
    \/ FetchNotModified(r)
    \/ FetchItems(r)
    \/ FetchFails(r)
    \/ IngestNothing(r)
    \/ QueueIngest(r)
    \/ IngestCommit(r)
    \/ IngestFails(r)
    \/ SaveState(r)
    \/ LogFetch(r)

Next ==
    \/ Tick
    \/ \E r \in Runs : RunStep(r)
    \/ \E s \in Sources : \/ run_source_now(s)
                          \/ \E o \in Overrides : set_enabled(s, o)
                          \/ Publish(s)
                          \/ ComesDue(s)
    \/ CommitEnabled
    \/ Crash
    \/ init_state

Spec == Init /\ [][Next]_vars

----------------------------------------------------------------------------
(* Safety.                                                                 *)

(* _running is exactly the set of sources with a run between its start and *)
(* the end of its try statement, and no source has two: the tick and the   *)
(* manual refresh never poll one feed at the same time, whatever runs are  *)
(* still saving or logging.                                                *)
OneRunPerSource ==
    /\ \A r \in Runs : run[r].phase \in Collecting => run[r].src \in running
    /\ \A s \in running : \E r \in Runs : run[r].phase \in Collecting /\ run[r].src = s
    /\ \A q, r \in Runs :
          run[q].phase \in Collecting /\ run[r].phase \in Collecting
              /\ run[q].src = run[r].src => q = r

(* A validator is only kept for content whose items are committed (or that *)
(* had none), in memory and in the database, across failures and crashes:  *)
(* otherwise the next poll would be answered 304 and the items be lost.    *)
Covered(s) == stored[s] \union Blank \union {NoTag}
EtagCovered == \A s \in Sources : st[s].etag \in Covered(s) /\ disk[s].etag \in Covered(s)

(* The inductive invariant behind the three properties above and           *)
(* EtagsAdvance: a run has a source while it is in progress, a stopped     *)
(* process has neither runs nor state, a validator is only known for a     *)
(* server that sends them, and the versions are ordered along the way they *)
(* travel, remote -> run -> memory -> database.                            *)
RunsHaveSources == \A r \in Runs : run[r].phase = "idle" <=> run[r].src = NoSource
DownIsEmpty     == ~up => /\ running = {}
                          /\ \A r \in Runs : run[r].phase = "idle"
                          /\ \A s \in Sources : st[s].etag = NoTag
TagsOnlyIfSent  == \A s \in Sources : s \notin Conditional =>
                       st[s].etag = NoTag /\ disk[s].etag = NoTag
VersionsOrdered ==
    /\ \A s \in Sources : /\ st[s].etag <= remote[s]
                          /\ disk[s].etag <= remote[s]
                          /\ up => disk[s].etag <= st[s].etag
    /\ \A r \in Runs : run[r].phase \in {"prepare", "ingest"} =>
          /\ st[run[r].src].etag <= run[r].got
          /\ run[r].got <= remote[run[r].src]
          /\ run[r].got \in Versions
          /\ run[r].phase = "ingest" => run[r].got \notin Blank
Inductive == /\ TypeOK
             /\ RunsHaveSources
             /\ OneRunPerSource
             /\ EtagCovered
             /\ DownIsEmpty
             /\ TagsOnlyIfSent
             /\ VersionsOrdered

(* What _save_state and set_enabled still owe the database is always in    *)
(* the write queue: with no run of a source waiting to save, its columns   *)
(* equal the memory, and the override column becomes the value of the last *)
(* PATCH that waits.                                                       *)
SavePending(s) == \E r \in Runs : run[r].phase = "save" /\ run[r].src = s
Patches(s)     == {i \in DOMAIN writers : writers[i] \in SetEnabled /\ writers[i].src = s}
FinalOverride(s) ==
    IF Patches(s) = {} THEN diskOverride[s]
    ELSE writers[CHOOSE i \in Patches(s) : \A j \in Patches(s) : j <= i].to
DatabaseCatchesUp ==
    up => \A s \in Sources :
              /\ ~SavePending(s) => disk[s] = st[s]
              /\ FinalOverride(s) = override[s]

(* The validators of a feed never go back to an older version: not in      *)
(* memory while the process is up, and not in the database even by a late  *)
(* save of an earlier run or by a crash.                                   *)
Advance == \A s \in Sources : /\ disk[s].etag <= disk'[s].etag
                              /\ up /\ up' => st[s].etag <= st'[s].etag
EtagsAdvance == [][Advance]_vars

----------------------------------------------------------------------------
(* Liveness.                                                               *)

(* The tick repeats every second, time passes, every HTTP exchange ends    *)
(* (httpx has timeouts), every transaction ends, and both the semaphore    *)
(* and the write lock serve in arrival order.  The semaphore's queue is    *)
(* not modelled, so its order is the strong fairness of AcquireSem.        *)
(* Refreshes, PATCHes, new content, crashes and restarts are not fair.     *)
Fairness ==
    /\ WF_vars(Tick)
    /\ \A s \in Sources : WF_vars(ComesDue(s))
    /\ \A r \in Runs :
          /\ SF_vars(AcquireSem(r))
          /\ WF_vars(FetchNotModified(r) \/ FetchItems(r) \/ FetchFails(r))
          /\ WF_vars(QueueIngest(r) \/ IngestNothing(r) \/ FetchFails(r))
          /\ WF_vars(IngestCommit(r) \/ IngestFails(r))
          /\ WF_vars(SaveState(r) \/ LogFetch(r))
    /\ WF_vars(CommitEnabled)

FairSpec == Spec /\ Fairness

(* Whatever fails, a source that stays enabled is requested again and      *)
(* again: no run, lock or queue ends its polling for good.                 *)
PolledForever ==
    \A s \in Sources :
        []<>(\/ ~up \/ ~Enabled(s)
             \/ \E r \in Runs : run[r].phase = "fetching" /\ run[r].src = s)

(* A remote that answers now and then, and a database that commits now and *)
(* then: of the requests made for a source, not all fail for ever.         *)
RemoteRecovers(s) ==
    /\ SF_vars(\E r \in Runs : run[r].src = s /\ (FetchNotModified(r) \/ FetchItems(r)))
    /\ SF_vars(\E r \in Runs : run[r].src = s /\ (QueueIngest(r) \/ IngestNothing(r)))
    /\ SF_vars(\E r \in Runs : run[r].src = s /\ IngestCommit(r))

(* The retries end well, whatever becomes of the other sources: the        *)
(* content a feed finally shows is stored, even if earlier attempts failed *)
(* after the request.                                                      *)
FinalContentStored ==
    \A s \in Sources :
        RemoteRecovers(s) => []<>(~up \/ ~Enabled(s) \/ remote[s] \in stored[s] \union Blank)
=============================================================================
