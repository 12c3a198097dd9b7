---------------------------- MODULE SymbolFetch ----------------------------
(***************************************************************************)
(* The per-symbol sources of newsserver/scheduler.py: the round of         *)
(* _symbol_loop over the watched symbols, the immediate refresh_symbol,    *)
(* the shared job _symbol_job / _run_symbol behind the per-source gate of  *)
(* _paced and the process-wide semaphore, and _prune_symbol_state.         *)
(*                                                                         *)
(* Abstractions: an entry of symbol_state is its last_fetch_at: "never",   *)
(* "recent" (inside the refresh cooldown) or "old", and "none" without an  *)
(* entry; the streak only lengthens the wait, which has no length here;    *)
(* the keys whose next_poll_at has passed are ordered as they came due,    *)
(* which is the order of next_poll_at; the callers of a job are not        *)
(* modelled, a refresh that times out or is answered changes nothing; a    *)
(* row of symbol_fetch_state is kept like an entry, until the last         *)
(* restart; what the global sources do to the semaphore is a number of     *)
(* occupied slots; "watch" is what targets() answers, its cache is the     *)
(* subject of WatchTargets.                                                *)
(***************************************************************************)
EXTENDS Naturals, FiniteSets, Sequences, Functions

CONSTANTS
    Sources,    \* the per_symbol sources
    Symbols,    \* (market, symbol) pairs
    Keys,       \* the pairs <<source, symbol>> that _applies allows
    MaxFetches, \* settings.max_concurrent_fetches
    Tasks,      \* identities of _run_symbol tasks (a bound)
    NoTask,     \* no task
    MaxPrunes,  \* bound: runs of the daily maintenance
    MaxRestarts,\* bound: stops and crashes, each followed by a start
    OtherRuns,  \* bound: global sources that hold a semaphore slot at a time
    Switched    \* bound: the sources and symbols that users switch on and off

ASSUME ConstantsAssumption ==
    /\ Keys \subseteq Sources \X Symbols
    /\ MaxFetches \in Nat \ {0}
    /\ NoTask \notin Tasks
    /\ MaxPrunes \in Nat
    /\ MaxRestarts \in Nat
    /\ OtherRuns \in Nat
    /\ Switched \subseteq Sources \union Symbols

VARIABLES
    enabled,   \* the enabled sources
    watch,     \* the symbols targets() returns
    state,     \* Scheduler.symbol_state
    dueOrder,  \* the order of next_poll_at among a source's keys whose next_poll_at has passed
    inflight,  \* Scheduler._symbol_inflight
    task,      \* the _run_symbol tasks
    gate,      \* Scheduler._symbol_gates: the holder, then the waiters
    gapOver,   \* request_gap_sec has passed since the source's last request
    elsewhere, \* semaphore slots taken by the global sources
    loop,      \* the job every _symbol_loop awaits
    stale,     \* what _prune_symbol_state has selected and not yet removed
    prunes,    \* number of prunings so far
    stored,    \* table symbol_fetch_state
    restarts,  \* number of restarts so far
    lost,      \* history: the keys a restart stopped between request and upsert
    lately     \* history: the keys really fetched inside the last cooldown

pruning == <<stale, prunes>>
rows == <<stored, restarts, lost>>
vars == <<enabled, watch, state, dueOrder, inflight, task, gate, gapOver,
          elsewhere, loop, pruning, rows, lately>>

Entry  == {"none", "never", "recent", "old"}
Live   == {"start", "gate", "sem", "request", "ingest", "save"}
Task   == [phase: Live \union {"idle", "done"}, key: Keys \union {<< >>},
           by: {"loop", "refresh"}, attached: BOOLEAN]
NoWork == [phase |-> "idle", key |-> << >>, by |-> "loop", attached |-> FALSE]

Due == {k \in Keys : <<k, k>> \in dueOrder}

(* Total orders of the keys of every source.                               *)
Ordered(R, K) ==
    /\ R \subseteq K \X K
    /\ \A j, k \in K : /\ j[1] = k[1] => <<j, k>> \in R \/ <<k, j>> \in R
                       /\ <<j, k>> \in R => j[1] = k[1]
                       /\ <<j, k>> \in R /\ <<k, j>> \in R => j = k
    /\ \A j, k, l \in K : <<j, k>> \in R /\ <<k, l>> \in R => <<j, l>> \in R

(* Types, and the bookkeeping of the queues: a gate holds just the tasks   *)
(* that wait for it or work behind it, and the due keys of a source are    *)
(* totally ordered.                                                        *)
TypeOK ==
    /\ enabled \subseteq Sources
    /\ watch \subseteq Symbols
    /\ state \in [Keys -> Entry]
    /\ Ordered(dueOrder, Due)
    /\ inflight \in [Keys -> Tasks \union {NoTask}]
    /\ task \in [Tasks -> Task]
    /\ gate \in [Sources -> Seq(Tasks)]
    /\ \A s \in Sources :
          /\ IsInjective(gate[s])
          /\ Range(gate[s]) = {t \in Tasks : /\ task[t].phase \in {"gate", "sem", "request"}
                                            /\ task[t].key[1] = s}
    /\ gapOver \subseteq Sources
    /\ elsewhere \in 0 .. OtherRuns
    /\ loop \in [Sources -> Tasks \union {NoTask}]
    /\ stale \subseteq Keys
    /\ prunes \in 0 .. MaxPrunes
    /\ stored \in [Keys -> Entry \ {"never"}]
    /\ restarts \in 0 .. MaxRestarts
    /\ lost \union lately \subseteq Keys

Init ==
    /\ enabled = Sources
    /\ watch \in SUBSET Symbols
    /\ state = [k \in Keys |-> "none"]
    /\ dueOrder = {}
    /\ inflight = [k \in Keys |-> NoTask]
    /\ task = [t \in Tasks |-> NoWork]
    /\ gate = [s \in Sources |-> << >>]
    /\ gapOver = Sources
    /\ elsewhere = 0
    /\ loop = [s \in Sources |-> NoTask]
    /\ stale = {}
    /\ prunes = 0
    /\ stored = [k \in Keys |-> "none"]
    /\ restarts = 0
    /\ lost = {}
    /\ lately = {}

----------------------------------------------------------------------------
(* Jobs.                                                                   *)

(* Mutant: a registered task is never joined.                              *)
Joinable_Never(k) == inflight[k] # NoTask /\ task[inflight[k]].phase = "done"

(* _symbol_job joins a task that is registered and not done.               *)
Joinable(k) == inflight[k] # NoTask /\ task[inflight[k]].phase # "done"

NewTask(k, by) == [phase |-> "start", key |-> k, by |-> by, attached |-> FALSE]

(* The keys of "wanted" without a joinable task get one each, in one step. *)
CreateJobs(wanted, by) ==
    LET new == {k \in wanted : ~Joinable(k)} IN
    \E job \in [new -> {t \in Tasks : task[t].phase = "idle"}] :
        /\ IsInjective(job)
        /\ task' = [t \in Tasks |-> IF t \in Range(job)
                                    THEN NewTask(AntiFunction(job)[t], by)
                                    ELSE task[t]]
        /\ inflight' = [k \in Keys |-> IF k \in new THEN job[k] ELSE inflight[k]]

KeysOf(s)   == {k \in Keys : k[1] = s}
Unpolled(s) == {k \in KeysOf(s) : k[2] \in watch /\ state[k] \in {"none", "never"}}

Waiting(s) == {k \in KeysOf(s) \cap Due : k[2] \in watch}

(* Mutant: the latest instead of the earliest next_poll_at.                *)
Selected_Latest(s) ==
    IF Unpolled(s) # {} THEN Unpolled(s)
    ELSE {k \in Waiting(s) : \A j \in Waiting(s) : <<j, k>> \in dueOrder}

(* What one turn of _symbol_loop selects: a watched symbol without a       *)
(* next_poll_at, else the watched symbol with the earliest one, if it has  *)
(* passed.                                                                 *)
Selected(s) ==
    IF Unpolled(s) # {} THEN Unpolled(s)
    ELSE {k \in Waiting(s) : \A j \in Waiting(s) : <<k, j>> \in dueOrder}

_symbol_loop(s) ==
    /\ s \in enabled
    /\ loop[s] = NoTask
    /\ \E k \in Selected(s) :
          /\ CreateJobs({k}, "loop")
          /\ loop' = [loop EXCEPT ![s] = inflight'[k]]
    /\ UNCHANGED <<rows, enabled, watch, state, dueOrder, gate, gapOver, elsewhere, pruning, lately>>

(* From the cooldown test to the creation of the jobs there is no await.   *)
refresh_symbol(y) ==
    LET wanted == {k \in Keys : k[2] = y /\ k[1] \in enabled /\ state[k] # "recent"} IN
    /\ CreateJobs(wanted, "refresh")
    /\ UNCHANGED <<rows, enabled, watch, state, dueOrder, gate, gapOver, elsewhere, loop, pruning, lately>>

----------------------------------------------------------------------------
(* _run_symbol.                                                            *)

At(t, phase) == task[t].phase = phase
Src(t)       == task[t].key[1]

(* The task starts: symbol_state.setdefault, then the gate, first come     *)
(* first served.  "attached" says that the task's object is the one in     *)
(* symbol_state.                                                           *)
Begin(t) ==
    LET k == task[t].key IN
    /\ At(t, "start")
    /\ state' = [state EXCEPT ![k] = IF @ = "none" THEN "never" ELSE @]
    /\ gate' = [gate EXCEPT ![k[1]] = Append(@, t)]
    /\ task' = [task EXCEPT ![t].phase = "gate", ![t].attached = TRUE]
    /\ UNCHANGED <<rows, enabled, watch, dueOrder, inflight, gapOver, elsewhere, loop, pruning, lately>>

(* Mutant: whoever has waited for the gap goes on.                         *)
Pace_Unqueued(t) ==
    /\ At(t, "gate")
    /\ Src(t) \in gapOver
    /\ task' = [task EXCEPT ![t].phase = "sem"]
    /\ UNCHANGED <<rows, enabled, watch, state, dueOrder, inflight, gate, gapOver, elsewhere, loop,
                   pruning, lately>>

(* The holder of the gate has waited until the gap is over.                *)
Pace(t) ==
    /\ At(t, "gate")
    /\ Head(gate[Src(t)]) = t
    /\ Src(t) \in gapOver
    /\ task' = [task EXCEPT ![t].phase = "sem"]
    /\ UNCHANGED <<rows, enabled, watch, state, dueOrder, inflight, gate, gapOver, elsewhere, loop,
                   pruning, lately>>

Occupied == elsewhere + Cardinality({t \in Tasks : task[t].phase = "request"})

AcquireSem(t) ==
    /\ At(t, "sem")
    /\ Occupied < MaxFetches
    /\ task' = [task EXCEPT ![t].phase = "request"]
    /\ UNCHANGED <<rows, enabled, watch, state, dueOrder, inflight, gate, gapOver, elsewhere, loop,
                   pruning, lately>>

(* A next_poll_at in the future, or none: the keys are not due.            *)
Without(keys) == {p \in dueOrder : p[1] \notin keys /\ p[2] \notin keys}

(* Mutant: last_fetch_at only set by a success.                            *)
Finish_OnlySuccess(t, ok) ==
    LET k == task[t].key IN
    /\ state' = IF task[t].attached /\ ok THEN [state EXCEPT ![k] = "recent"] ELSE state
    /\ dueOrder' = Without({k})
    /\ task' = [task EXCEPT ![t].phase = "save"]
    /\ lost' = lost \ {k}
    /\ lately' = lately \union {k}

(* The end of the try statement up to the write lock of the upsert: no     *)
(* await.  A task whose entry was pruned meanwhile updates its own object, *)
(* which nobody reads any more.                                            *)
Finish(t, ok) ==
    LET k == task[t].key IN
    /\ state' = IF task[t].attached THEN [state EXCEPT ![k] = "recent"] ELSE state
    /\ dueOrder' = IF task[t].attached THEN Without({k}) ELSE dueOrder
    /\ task' = [task EXCEPT ![t].phase = "save"]
    /\ lost' = lost \ {k}
    /\ lately' = lately \union {k}

(* Mutant: a failed request keeps the gate.                                *)
Respond_KeepsGate(t, ok) ==
    LET s == Src(t) IN
    /\ At(t, "request")
    /\ gate' = [gate EXCEPT ![s] = IF ok THEN Tail(@) ELSE @]
    /\ gapOver' = gapOver \ {s}
    /\ IF ok THEN /\ task' = [task EXCEPT ![t].phase = "ingest"]
                  /\ UNCHANGED <<lost, state, dueOrder, lately>>
             ELSE Finish(t, FALSE)
    /\ UNCHANGED <<stored, restarts, enabled, watch, inflight, elsewhere, loop, pruning>>

(* The answer of the remote releases the semaphore and the gate and starts *)
(* a new gap, whatever it is; a failure ends the job without an ingest.    *)
Respond(t, ok) ==
    LET s == Src(t) IN
    /\ At(t, "request")
    /\ gate' = [gate EXCEPT ![s] = Tail(@)]
    /\ gapOver' = gapOver \ {s}
    /\ IF ok THEN /\ task' = [task EXCEPT ![t].phase = "ingest"]
                  /\ UNCHANGED <<lost, state, dueOrder, lately>>
             ELSE Finish(t, FALSE)
    /\ UNCHANGED <<stored, restarts, enabled, watch, inflight, elsewhere, loop, pruning>>

IngestEnds(t, ok) ==
    /\ At(t, "ingest")
    /\ Finish(t, ok)
    /\ UNCHANGED <<stored, restarts, enabled, watch, inflight, gate, gapOver, elsewhere, loop, pruning>>

(* A row is of no use after the last restart.                              *)
Row(k) == IF restarts = MaxRestarts THEN "none" ELSE IF k \in lately THEN "recent" ELSE "old"

(* Mutant: a row that exists is left as it is.                             *)
SaveAndLog_InsertOnly(t) ==
    LET k == task[t].key IN
    /\ At(t, "save")
    /\ stored' = [stored EXCEPT ![k] = IF @ = "none" THEN Row(k) ELSE @]
    /\ task' = [task EXCEPT ![t].phase = "done"]
    /\ UNCHANGED <<restarts, lost, enabled, watch, state, dueOrder, inflight, gate, gapOver, elsewhere,
                   loop, pruning, lately>>

(* The upsert and the log row are written: the task is done.               *)
SaveAndLog(t) ==
    LET k == task[t].key IN
    /\ At(t, "save")
    /\ stored' = [stored EXCEPT ![k] = Row(k)]
    /\ task' = [task EXCEPT ![t].phase = "done"]
    /\ UNCHANGED <<restarts, lost, enabled, watch, state, dueOrder, inflight, gate, gapOver, elsewhere,
                   loop, pruning, lately>>

(* The done callbacks, one event loop iteration later: the registration is *)
(* removed unless another task has replaced it, the loop wakes up.         *)
Reap(t) ==
    LET k == task[t].key IN
    /\ At(t, "done")
    /\ inflight' = [inflight EXCEPT ![k] = IF @ = t THEN NoTask ELSE @]
    /\ loop' = [loop EXCEPT ![k[1]] = IF @ = t THEN NoTask ELSE @]
    /\ task' = [task EXCEPT ![t] = NoWork]
    /\ UNCHANGED <<rows, enabled, watch, state, dueOrder, gate, gapOver, elsewhere, pruning, lately>>

----------------------------------------------------------------------------
(* Maintenance: the selection precedes the wait for the write lock.        *)

PruneSelect ==
    /\ stale = {}
    /\ prunes < MaxPrunes
    /\ prunes' = prunes + 1
    /\ stale' = {k \in Keys : state[k] # "none" /\ k[2] \notin watch}
    /\ UNCHANGED <<rows, enabled, watch, state, dueOrder, inflight, task, gate, gapOver, elsewhere,
                   loop, lately>>

PruneRemove ==
    /\ stale # {}
    /\ state' = [k \in Keys |-> IF k \in stale THEN "none" ELSE state[k]]
    /\ dueOrder' = Without(stale)
    /\ task' = [t \in Tasks |-> IF task[t].key \in stale
                                THEN [task[t] EXCEPT !.attached = FALSE] ELSE task[t]]
    /\ stored' = [k \in Keys |-> IF k \in stale THEN "none" ELSE stored[k]]
    /\ stale' = {}
    /\ UNCHANGED <<restarts, lost, prunes, enabled, watch, inflight, gate, gapOver, elsewhere, loop, lately>>

----------------------------------------------------------------------------
(* A stop or a crash at any point, and the next start: init_state reads    *)
(* symbol_fetch_state; jobs, gates and the time of the last request of a   *)
(* source are forgotten.                                                   *)
Restart ==
    /\ restarts < MaxRestarts
    /\ restarts' = restarts + 1
    /\ state' = stored
    /\ stored' = [k \in Keys |-> IF restarts' = MaxRestarts THEN "none" ELSE stored[k]]
    /\ dueOrder' = {}
    /\ inflight' = [k \in Keys |-> NoTask]
    /\ task' = [t \in Tasks |-> NoWork]
    /\ gate' = [s \in Sources |-> << >>]
    /\ gapOver' = Sources
    /\ elsewhere' = 0
    /\ loop' = [s \in Sources |-> NoTask]
    /\ stale' = {}
    /\ lost' = lost \union {task[t].key : t \in {u \in Tasks : At(u, "save")}}
    /\ UNCHANGED <<enabled, watch, prunes, lately>>

----------------------------------------------------------------------------
(* The environment: switches, watchlists, global sources and time.         *)

set_enabled(s) ==
    /\ s \in Switched
    /\ enabled' = IF s \in enabled THEN enabled \ {s} ELSE enabled \union {s}
    /\ UNCHANGED <<rows, watch, state, dueOrder, inflight, task, gate, gapOver, elsewhere, loop,
                   pruning, lately>>

Watch(y) ==
    /\ y \in Switched
    /\ watch' = IF y \in watch THEN watch \ {y} ELSE watch \union {y}
    /\ UNCHANGED <<rows, enabled, state, dueOrder, inflight, task, gate, gapOver, elsewhere, loop,
                   pruning, lately>>

GlobalAcquire ==
    /\ elsewhere < OtherRuns
    /\ Occupied < MaxFetches
    /\ elsewhere' = elsewhere + 1
    /\ UNCHANGED <<rows, enabled, watch, state, dueOrder, inflight, task, gate, gapOver, loop, pruning,
                   lately>>

GlobalRelease ==
    /\ elsewhere > 0
    /\ elsewhere' = elsewhere - 1
    /\ UNCHANGED <<rows, enabled, watch, state, dueOrder, inflight, task, gate, gapOver, loop, pruning,
                   lately>>

GapElapses(s) ==
    /\ s \notin gapOver
    /\ gapOver' = gapOver \union {s}
    /\ UNCHANGED <<rows, enabled, watch, state, dueOrder, inflight, task, gate, elsewhere, loop, pruning,
                   lately>>

CooldownElapses(k) ==
    /\ k \in lately
    /\ lately' = lately \ {k}
    /\ lost' = lost \ {k}
    /\ state' = [state EXCEPT ![k] = IF @ = "recent" THEN "old" ELSE @]
    /\ stored' = [stored EXCEPT ![k] = IF @ = "recent" THEN "old" ELSE @]
    /\ UNCHANGED <<restarts, enabled, watch, dueOrder, inflight, task, gate, gapOver, elsewhere, loop,
                   pruning>>

ComesDue(k) ==
    /\ state[k] \in {"recent", "old"}
    /\ k \notin Due
    /\ dueOrder' = dueOrder \union (({j \in Due : j[1] = k[1]} \union {k}) \X {k})
    /\ UNCHANGED <<rows, enabled, watch, state, inflight, task, gate, gapOver, elsewhere, loop, pruning,
                   lately>>

----------------------------------------------------------------------------
TaskStep(t) ==
    \/ Begin(t)
    \/ Pace(t)
    \/ AcquireSem(t)
    \/ \E ok \in BOOLEAN : Respond(t, ok) \/ IngestEnds(t, ok)
    \/ SaveAndLog(t)
    \/ Reap(t)

Next ==
    \/ \E s \in Sources : _symbol_loop(s) \/ set_enabled(s) \/ GapElapses(s)
    \/ \E y \in Symbols : refresh_symbol(y) \/ Watch(y)
    \/ \E t \in Tasks : TaskStep(t)
    \/ \E k \in Keys : CooldownElapses(k) \/ ComesDue(k)
    \/ PruneSelect
    \/ PruneRemove
    \/ Restart
    \/ GlobalAcquire
    \/ GlobalRelease

Spec == Init /\ [][Next]_vars

----------------------------------------------------------------------------
(* Safety.                                                                 *)

(* A symbol of a source is never fetched by two jobs at a time: the loop   *)
(* and overlapping refreshes join the job in progress, also in the moment  *)
(* between the end of a job and its callbacks.                             *)
OneJobPerKey ==
    \A t, u \in Tasks :
        task[t].phase \in Live /\ task[u].phase \in Live /\ task[t].key = task[u].key => t = u

(* A source sees one request at a time, and the next one only after a gap, *)
(* however many loops and refreshes are waiting.                           *)
PacedRequests ==
    \A t, u \in Tasks :
        At(t, "request") =>
            /\ Src(t) \in gapOver
            /\ At(u, "request") /\ Src(u) = Src(t) => t = u

Starts(t) == task[t].phase = "idle" /\ task'[t].phase = "start" /\ task'[t].by = "refresh"

(* A refresh does not fetch a key again inside its cooldown, also not      *)
(* after a restart, unless the maintenance has removed the key's entry in  *)
(* between or the restart came before the row was written.                 *)
CooldownUnlessForgotten ==
    [][\A t \in Tasks : Starts(t) => LET k == task'[t].key IN
           k \notin lately \/ state[k] = "none" \/ k \in lost]_vars

----------------------------------------------------------------------------
(* Liveness.  Loops turn, time passes, HTTP exchanges and transactions     *)
(* end; the semaphore is first come first served and every global run      *)
(* gives its slot back, which is the strong fairness of AcquireSem; that   *)
(* of _symbol_loop is for the turns at which all Tasks are in use.         *)
(* Refreshes, switches, watchlists and maintenance are not fair.           *)
Fairness ==
    /\ \A s \in Sources : SF_vars(_symbol_loop(s)) /\ WF_vars(GapElapses(s))
    /\ \A k \in Keys : WF_vars(ComesDue(k))
    /\ WF_vars(GlobalRelease)
    /\ \A t \in Tasks :
          /\ WF_vars(Begin(t) \/ Pace(t) \/ SaveAndLog(t) \/ Reap(t))
          /\ SF_vars(AcquireSem(t))
          /\ WF_vars(\E ok \in BOOLEAN : Respond(t, ok) \/ IngestEnds(t, ok))

FairSpec == Spec /\ Fairness

(* Every watched symbol of an enabled source is requested again and again, *)
(* whatever is refreshed in between.                                       *)
WatchedPolledForever ==
    \A k \in Keys :
        []<>(\/ k[1] \notin enabled
             \/ k[2] \notin watch
             \/ \E t \in Tasks : task[t].key = k /\ task[t].phase = "request")

(* A job that has started ends: gate and semaphore never wait for each     *)
(* other in a circle.                                                      *)
JobsEnd == \A t \in Tasks : task[t].phase = "start" ~> task[t].phase = "done"
=============================================================================
