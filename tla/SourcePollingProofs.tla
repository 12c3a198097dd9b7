------------------------ MODULE SourcePollingProofs ------------------------
(***************************************************************************)
(* Theorems about SourcePolling for every set of sources and runs and      *)
(* every bound: type correctness, one run per source, no validator for     *)
(* content that was not committed, validators that never go back, and a    *)
(* database that catches up with memory.                                   *)
(***************************************************************************)
EXTENDS SourcePolling, TLAPS

(* The initial state is well typed.                                        *)
LEMMA InitTypeOK == Init => TypeOK
BY ConstantsAssumption
   DEF Init, TypeOK, Run, NoRun, Phases, Collecting, Tags, Versions, NoTag,
       SourceState, FreshState, Overrides

(* Validators are compared as numbers.                                     *)
LEMMA TagsAreNumbers == Tags \subseteq Nat
BY ConstantsAssumption DEF Tags, Versions, NoTag

(* An unused run identity has the type of a run.                           *)
LEMMA NoRunType == NoRun \in Run
BY ConstantsAssumption DEF NoRun, Run, Phases, Collecting, Tags, NoTag

(* So has a run that has just been started.                                *)
LEMMA NewRunType ==
    ASSUME NEW s \in Sources, NEW byHand \in BOOLEAN
    PROVE  NewRun(s, byHand) \in Run
BY NoRunType DEF NewRun, NoRun, Run, Phases, Collecting, Tags, NoTag

(* What Finish does to the types, for any validator and queue it is given. *)
LEMMA FinishType ==
    ASSUME TypeOK, NEW r \in Runs, run[r].src \in Sources, NEW ok \in BOOLEAN,
           NEW tag \in Tags, NEW queue \in Seq(Runs \union SetEnabled),
           Finish(r, ok, tag, queue)
    PROVE  /\ running' \in SUBSET Sources
           /\ run' \in [Runs -> Run]
           /\ st' \in [Sources -> SourceState]
           /\ writers' \in Seq(Runs \union SetEnabled)
<1> DEFINE s == run[r].src
           next == [etag |-> tag,
                    failStreak |-> IF ok THEN 0 ELSE Capped(st[s].failStreak + 1),
                    poll |-> "later"]
           saving == [NoRun EXCEPT !.phase = "save", !.src = s, !.failed = ~ok,
                                   !.manual = run[r].manual]
<1>1. next \in SourceState
  BY ConstantsAssumption DEF TypeOK, SourceState, Capped
<1>2. saving \in Run
  <2>1. run[r].manual \in BOOLEAN
    BY DEF TypeOK, Run
  <2>2. QED
    BY <2>1, NoRunType DEF NoRun, Run, Phases, Collecting, Tags, NoTag
<1>3. st' = [st EXCEPT ![s] = next] /\ run' = [run EXCEPT ![r] = saving]
  BY DEF Finish
<1>4. QED
  BY <1>1, <1>2, <1>3 DEF TypeOK, Finish

(* Every step keeps the types, given that runs in progress have a source.  *)
LEMMA NextTypeOK == Inductive /\ [Next]_vars => TypeOK'
<1> SUFFICES ASSUME Inductive, [Next]_vars
             PROVE  TypeOK'
  OBVIOUS
<1> USE DEF Inductive
<1> DEFINE Queue == Seq(Runs \union SetEnabled)
<1>0. ASSUME NEW r \in Runs, run[r].phase # "idle"
      PROVE  run[r].src \in Sources
  BY <1>0 DEF TypeOK, Run, RunsHaveSources
<1>t. ASSUME NEW r \in Runs, Holds(r)
      PROVE  Tail(writers) \in Queue
  BY <1>t DEF TypeOK, Holds
<1>1. CASE Tick
  <2>1. PICK spawn \in [Runs -> Due \union {NoSource}] :
           run' = [r \in Runs |-> IF spawn[r] = NoSource THEN run[r]
                                                         ELSE NewRun(spawn[r], FALSE)]
    BY <1>1 DEF Tick
  <2>2. Due \subseteq Sources
    BY DEF Due
  <2>3. ASSUME NEW r \in Runs, spawn[r] # NoSource
        PROVE  NewRun(spawn[r], FALSE) \in Run
    BY <2>2, <2>3, NewRunType
  <2>4. run' \in [Runs -> Run]
    BY <2>1, <2>3 DEF TypeOK
  <2>5. QED
    BY <1>1, <2>2, <2>4 DEF Tick, TypeOK
<1>2. ASSUME NEW r \in Runs, RunStep(r)
      PROVE  TypeOK'
  <2>1. CASE AcquireSem(r)
    <3>1. st[run[r].src].etag \in Tags
      BY <2>1, <1>0 DEF AcquireSem, TypeOK, SourceState
    <3>2. [run[r] EXCEPT !.phase = "fetching", !.sent = st[run[r].src].etag] \in Run
      BY <3>1 DEF TypeOK, Run, Phases, Collecting
    <3>3. run' \in [Runs -> Run]
      BY <2>1, <3>2 DEF AcquireSem, TypeOK
    <3>4. QED
      BY <2>1, <3>3 DEF AcquireSem, TypeOK
  <2>2. CASE FetchNotModified(r)
    <3>1. run[r].src \in Sources /\ st[run[r].src].etag \in Tags
      BY <2>2, <1>0 DEF FetchNotModified, TypeOK, SourceState
    <3>2. writers \in Queue
      BY DEF TypeOK
    <3>3. QED
      BY <2>2, <3>1, <3>2, FinishType DEF FetchNotModified, TypeOK
  <2>3. CASE FetchItems(r)
    <3>1. run[r].src \in Sources
      BY <2>3, <1>0 DEF FetchItems
    <3>2. remote[run[r].src] \in Tags
      BY <3>1 DEF TypeOK, Tags
    <3>3. [run[r] EXCEPT !.phase = "prepare", !.got = remote[run[r].src]] \in Run
      BY <3>2 DEF TypeOK, Run, Phases, Collecting
    <3>4. run' \in [Runs -> Run]
      BY <2>3, <3>3 DEF FetchItems, TypeOK
    <3>5. QED
      BY <2>3, <3>4 DEF FetchItems, TypeOK
  <2>4. CASE FetchFails(r)
    <3>1. run[r].src \in Sources /\ st[run[r].src].etag \in Tags
      BY <2>4, <1>0 DEF FetchFails, TypeOK, SourceState
    <3>2. writers \in Queue
      BY DEF TypeOK
    <3>3. QED
      BY <2>4, <3>1, <3>2, FinishType DEF FetchFails, TypeOK
  <2>5. CASE IngestNothing(r)
    <3>1. run[r].src \in Sources /\ TagOf(run[r].src, run[r].got) \in Tags
      BY <2>5, <1>0 DEF IngestNothing, TypeOK, Run, TagOf, Tags
    <3>2. writers \in Queue
      BY DEF TypeOK
    <3>3. QED
      BY <2>5, <3>1, <3>2, FinishType DEF IngestNothing, TypeOK
  <2>6. CASE QueueIngest(r)
    <3>0. [run[r] EXCEPT !.phase = "ingest"] \in Run
      BY DEF TypeOK, Run, Phases, Collecting
    <3>1. run' \in [Runs -> Run]
      BY <2>6, <3>0 DEF QueueIngest, TypeOK
    <3>2. writers' \in Queue
      BY <2>6 DEF QueueIngest, TypeOK
    <3>3. QED
      BY <2>6, <3>1, <3>2 DEF QueueIngest, TypeOK
  <2>7. CASE IngestCommit(r)
    <3>1. run[r].src \in Sources /\ TagOf(run[r].src, run[r].got) \in Tags
      BY <2>7, <1>0 DEF IngestCommit, TypeOK, Run, TagOf, Tags
    <3>2. Finish(r, TRUE, TagOf(run[r].src, run[r].got), Tail(writers))
      BY <2>7 DEF IngestCommit
    <3>3. /\ running' \in SUBSET Sources
          /\ run' \in [Runs -> Run]
          /\ st' \in [Sources -> SourceState]
          /\ writers' \in Queue
      BY <2>7, <1>t, <3>1, <3>2, FinishType DEF IngestCommit
    <3>4. stored' \in [Sources -> SUBSET Versions]
      BY <2>7 DEF IngestCommit, TypeOK, VersionsOrdered
    <3>5. QED
      BY <2>7, <3>3, <3>4 DEF IngestCommit, TypeOK
  <2>8. CASE IngestFails(r)
    <3>1. run[r].src \in Sources /\ st[run[r].src].etag \in Tags
      BY <2>8, <1>0 DEF IngestFails, TypeOK, SourceState
    <3>2. QED
      BY <2>8, <1>t, <3>1, FinishType DEF IngestFails, TypeOK
  <2>9. CASE SaveState(r)
    <3>1. st[run[r].src] \in SourceState
      BY <2>9, <1>0 DEF SaveState, TypeOK
    <3>0. [run[r] EXCEPT !.phase = "log"] \in Run
      BY DEF TypeOK, Run, Phases
    <3>2. run' \in [Runs -> Run]
      BY <2>9, <3>0 DEF SaveState, TypeOK
    <3>3. writers' \in Queue
      BY <2>9, <1>t DEF SaveState
    <3>4. QED
      BY <2>9, <3>1, <3>2, <3>3 DEF SaveState, TypeOK
  <2>10. CASE LogFetch(r)
    BY <2>10, <1>t, NoRunType DEF LogFetch, TypeOK
  <2>11. QED
    BY <1>2, <2>1, <2>2, <2>3, <2>4, <2>5, <2>6, <2>7, <2>8, <2>9, <2>10 DEF RunStep
<1>3. ASSUME NEW s \in Sources, run_source_now(s)
      PROVE  TypeOK'
  <2>1. NewRun(s, TRUE) \in Run
    BY NewRunType
  <2>2. QED
    BY <1>3, <2>1 DEF run_source_now, TypeOK
<1>4. ASSUME NEW s \in Sources, NEW o \in Overrides, set_enabled(s, o)
      PROVE  TypeOK'
  <2>1. [src |-> s, to |-> o] \in SetEnabled
    BY DEF SetEnabled
  <2>2. writers' \in Queue
    BY <1>4, <2>1 DEF set_enabled, TypeOK
  <2>3. QED
    BY <1>4, <2>2 DEF set_enabled, TypeOK
<1>5. ASSUME NEW s \in Sources, Publish(s)
      PROVE  TypeOK'
  BY <1>5, ConstantsAssumption DEF Publish, memory, TypeOK, Versions
<1>6. ASSUME NEW s \in Sources, ComesDue(s)
      PROVE  TypeOK'
  BY <1>6 DEF ComesDue, TypeOK, SourceState
<1>7. CASE CommitEnabled
  <2>1. Head(writers) \in SetEnabled /\ Tail(writers) \in Queue
    BY <1>7 DEF CommitEnabled, TypeOK
  <2>2. QED
    BY <1>7, <2>1 DEF CommitEnabled, TypeOK, SetEnabled
<1>8. CASE Crash
  <2>1. FreshState \in SourceState
    BY ConstantsAssumption DEF FreshState, SourceState, Tags, NoTag
  <2>2. crashes' \in 0 .. MaxCrashes
    BY <1>8, ConstantsAssumption DEF Crash, TypeOK
  <2>3. writers' \in Queue
    BY <1>8 DEF Crash
  <2>4. st' \in [Sources -> SourceState] /\ run' \in [Runs -> Run]
    BY <1>8, <2>1, NoRunType DEF Crash
  <2>5. override' \in [Sources -> Overrides]
    BY <1>8 DEF Crash, Overrides
  <2>6. up' \in BOOLEAN /\ running' \in SUBSET Sources
    BY <1>8 DEF Crash
  <2>7. UNCHANGED <<disk, diskOverride, stored, remote>>
    BY <1>8 DEF Crash
  <2>8. QED
    BY <2>2, <2>3, <2>4, <2>5, <2>6, <2>7 DEF TypeOK
<1>9. CASE init_state
  BY <1>9 DEF init_state, TypeOK
<1>10. CASE UNCHANGED vars
  BY <1>10 DEF vars, TypeOK
<1>11. QED
  BY <1>1, <1>2, <1>3, <1>4, <1>5, <1>6, <1>7, <1>8, <1>9, <1>10 DEF Next

----------------------------------------------------------------------------
(* The effect of Finish, value by value, which the proofs below use.       *)
LEMMA FinishEffect ==
    ASSUME TypeOK, NEW r \in Runs, run[r].src \in Sources, NEW ok, NEW tag, NEW queue,
           Finish(r, ok, tag, queue)
    PROVE  /\ running' = running \ {run[r].src}
           /\ \A q \in Runs \ {r} : run'[q] = run[q]
           /\ run'[r].phase = "save"
           /\ run'[r].src = run[r].src
           /\ \A x \in Sources \ {run[r].src} : st'[x] = st[x]
           /\ st'[run[r].src].etag = tag
BY DEF Finish, TypeOK, NoRun

(* A run that is not idle has a source, and the process is up.             *)
LEMMA BusyRun ==
    ASSUME Inductive, NEW r \in Runs, run[r].phase # "idle"
    PROVE  run[r].src \in Sources /\ up
BY DEF Inductive, TypeOK, Run, RunsHaveSources, DownIsEmpty

(* The end of a run keeps everything but EtagCovered, if the validator it  *)
(* leaves is not older than the one it finds and not newer than the feed.  *)
LEMMA FinishKeeps ==
    ASSUME Inductive, NEW r \in Runs, run[r].phase \in Collecting,
           NEW ok, NEW tag \in Tags, NEW queue, Finish(r, ok, tag, queue),
           st[run[r].src].etag <= tag, tag <= remote[run[r].src],
           run[r].src \notin Conditional => tag = NoTag,
           UNCHANGED <<up, disk, remote>>
    PROVE  /\ RunsHaveSources'
           /\ OneRunPerSource'
           /\ DownIsEmpty'
           /\ TagsOnlyIfSent'
           /\ VersionsOrdered'
<1> DEFINE s == run[r].src
<1>1. s \in Sources /\ up /\ run[r].phase # "idle"
  BY BusyRun DEF Collecting
<1>2. /\ running' = running \ {s}
      /\ \A q \in Runs \ {r} : run'[q] = run[q]
      /\ run'[r].phase = "save"
      /\ run'[r].src = s
      /\ \A x \in Sources \ {s} : st'[x] = st[x]
      /\ st'[s].etag = tag
  BY <1>1, FinishEffect DEF Inductive
<1>3. \A q \in Runs \ {r} : run[q].phase \in Collecting => run[q].src # s
  BY DEF Inductive, OneRunPerSource
<1>4. RunsHaveSources'
  BY <1>1, <1>2, ConstantsAssumption DEF Inductive, RunsHaveSources
<1>5. OneRunPerSource'
  BY <1>2, <1>3 DEF Inductive, OneRunPerSource, Collecting
<1>6. DownIsEmpty'
  BY <1>1 DEF DownIsEmpty
<1>7. TagsOnlyIfSent'
  BY <1>2 DEF Inductive, TagsOnlyIfSent
<1>8. VersionsOrdered'
  <2>1. ASSUME NEW x \in Sources
        PROVE  /\ st'[x].etag <= remote'[x]
               /\ disk'[x].etag <= remote'[x]
               /\ disk'[x].etag <= st'[x].etag
    <3>1. CASE x = s
      <4>1. disk[s].etag <= st[s].etag /\ disk[s].etag <= remote[s]
        BY <1>1 DEF Inductive, VersionsOrdered
      <4>2. disk[s].etag \in Nat /\ st[s].etag \in Nat /\ tag \in Nat
        BY <1>1, TagsAreNumbers DEF Inductive, TypeOK, SourceState
      <4>3. disk[s].etag <= tag
        BY <4>1, <4>2
      <4>4. QED
        BY <1>2, <3>1, <4>1, <4>3
    <3>2. CASE x # s
      BY <1>1, <1>2, <3>2 DEF Inductive, VersionsOrdered
    <3>3. QED
      BY <3>1, <3>2
  <2>2. ASSUME NEW q \in Runs, run'[q].phase \in {"prepare", "ingest"}
        PROVE  /\ st'[run'[q].src].etag <= run'[q].got
               /\ run'[q].got <= remote'[run'[q].src]
               /\ run'[q].got \in Versions
               /\ run'[q].phase = "ingest" => run'[q].got \notin Blank
    <3>1. q # r /\ run'[q] = run[q]
      BY <1>2, <2>2
    <3>2. run[q].src # s /\ run[q].src \in Sources
      BY <1>3, <2>2, <3>1, BusyRun DEF Collecting
    <3>3. st'[run[q].src] = st[run[q].src]
      BY <1>2, <3>2
    <3>4. QED
      BY <2>2, <3>1, <3>3 DEF Inductive, VersionsOrdered
  <2>3. QED
    BY <2>1, <2>2 DEF VersionsOrdered
<1>9. QED
  BY <1>4, <1>5, <1>6, <1>7, <1>8

(* Likewise for EtagCovered: what the run leaves must be committed.        *)
LEMMA FinishCovered ==
    ASSUME Inductive, NEW r \in Runs, run[r].src \in Sources,
           NEW ok, NEW tag, NEW queue, Finish(r, ok, tag, queue),
           UNCHANGED disk,
           \A x \in Sources : stored[x] \subseteq stored'[x],
           tag \in stored'[run[r].src] \union Blank \union {NoTag}
    PROVE  EtagCovered'
<1>1. /\ \A x \in Sources \ {run[r].src} : st'[x] = st[x]
      /\ st'[run[r].src].etag = tag
  BY FinishEffect DEF Inductive
<1>2. QED
  BY <1>1 DEF Inductive, EtagCovered, Covered

----------------------------------------------------------------------------
(* A step that moves runs inside or outside the collecting phases and      *)
(* leaves _running alone keeps OneRunPerSource.                            *)
LEMMA KeepsOneRun ==
    ASSUME OneRunPerSource, UNCHANGED running,
           \A q \in Runs : /\ run'[q].phase \in Collecting <=> run[q].phase \in Collecting
                           /\ run[q].phase \in Collecting => run'[q].src = run[q].src
    PROVE  OneRunPerSource'
BY DEF OneRunPerSource

(* The inductive invariant holds initially.                                *)
LEMMA InitInductive == Init => Inductive
<1> SUFFICES ASSUME Init PROVE Inductive
  OBVIOUS
<1>1. TypeOK
  BY InitTypeOK
<1>2. RunsHaveSources /\ OneRunPerSource /\ DownIsEmpty /\ TagsOnlyIfSent
  BY DEF Init, RunsHaveSources, OneRunPerSource, DownIsEmpty, TagsOnlyIfSent,
         NoRun, FreshState, Collecting
<1>3. EtagCovered
  BY DEF Init, EtagCovered, Covered, FreshState
<1>4. VersionsOrdered
  BY DEF Init, VersionsOrdered, NoRun, FreshState, NoTag
<1>5. QED
  BY <1>1, <1>2, <1>3, <1>4 DEF Inductive

(* The tick starts a run of every due source, none of which has one.       *)
LEMMA TickInductive == Inductive /\ Tick => Inductive'
<1> SUFFICES ASSUME Inductive, Tick PROVE Inductive'
  OBVIOUS
<1>1. TypeOK'
  BY NextTypeOK DEF Next
<1>2. PICK spawn \in [Runs -> Due \union {NoSource}] :
         /\ \A r \in Runs : spawn[r] \in Due => run[r].phase = "idle"
         /\ \A s \in Due : \E r \in Runs : spawn[r] = s
         /\ \A q, r \in Runs : spawn[q] = spawn[r] /\ spawn[r] \in Due => q = r
         /\ run' = [r \in Runs |-> IF spawn[r] = NoSource THEN run[r]
                                                         ELSE NewRun(spawn[r], FALSE)]
  BY DEF Tick
<1>3. Due \subseteq Sources \ running /\ NoSource \notin Due
  BY ConstantsAssumption DEF Due
<1>4. ASSUME NEW r \in Runs
      PROVE  \/ spawn[r] = NoSource /\ run'[r] = run[r]
             \/ /\ spawn[r] \in Due
                /\ run[r].phase = "idle"
                /\ run'[r].phase = "queued"
                /\ run'[r].src = spawn[r]
  BY <1>2, <1>3 DEF NewRun, NoRun
<1>5. UNCHANGED <<up, st, disk, stored, remote>> /\ running' = running \union Due /\ up
  BY DEF Tick
<1>6. RunsHaveSources'
  BY <1>3, <1>4 DEF Inductive, RunsHaveSources
<1>7. OneRunPerSource'
  <2>1. ASSUME NEW r \in Runs, run'[r].phase \in Collecting
        PROVE  run'[r].src \in running'
    BY <1>4, <1>5, <2>1 DEF Inductive, OneRunPerSource
  <2>2. ASSUME NEW s \in running'
        PROVE  \E r \in Runs : run'[r].phase \in Collecting /\ run'[r].src = s
    <3>1. CASE s \in running
      <4>1. PICK r \in Runs : run[r].phase \in Collecting /\ run[r].src = s
        BY <3>1 DEF Inductive, OneRunPerSource
      <4>2. run'[r] = run[r]
        BY <1>4, <4>1 DEF Collecting
      <4>3. QED
        BY <4>1, <4>2
    <3>2. CASE s \in Due
      <4>1. PICK r \in Runs : spawn[r] = s
        BY <1>2, <3>2
      <4>2. QED
        BY <1>3, <1>4, <3>2, <4>1 DEF Collecting
    <3>3. QED
      BY <1>5, <3>1, <3>2
  <2>3. ASSUME NEW q \in Runs, NEW r \in Runs,
               run'[q].phase \in Collecting, run'[r].phase \in Collecting,
               run'[q].src = run'[r].src
        PROVE  q = r
    <3>1. ASSUME NEW p \in Runs, run'[p].phase \in Collecting
          PROVE  \/ spawn[p] = NoSource /\ run[p] = run'[p] /\ run[p].src \in running
                 \/ spawn[p] \in Due /\ run'[p].src = spawn[p]
      BY <1>4, <3>1 DEF Inductive, OneRunPerSource
    <3>2. CASE spawn[q] \in Due /\ spawn[r] \in Due
      <4>1. spawn[q] = run'[q].src /\ spawn[r] = run'[r].src
        BY <1>3, <2>3, <3>1, <3>2
      <4>2. spawn[q] = spawn[r]
        BY <2>3, <4>1
      <4>3. spawn[q] = spawn[r] /\ spawn[r] \in Due => q = r
        BY <1>2
      <4>4. QED
        BY <3>2, <4>2, <4>3
    <3>3. CASE spawn[q] = NoSource /\ spawn[r] = NoSource
      <4>1. run[q] = run'[q] /\ run[r] = run'[r]
        BY <1>3, <2>3, <3>1, <3>3
      <4>2. QED
        BY <2>3, <4>1 DEF Inductive, OneRunPerSource
    <3>4. CASE (spawn[q] \in Due) # (spawn[r] \in Due)
      BY <1>3, <2>3, <3>1, <3>4
    <3>5. QED
      BY <1>3, <2>3, <3>1, <3>2, <3>3, <3>4
  <2>4. QED
    BY <2>1, <2>2, <2>3 DEF OneRunPerSource
<1>8. EtagCovered' /\ TagsOnlyIfSent' /\ DownIsEmpty'
  BY <1>5 DEF Inductive, EtagCovered, Covered, TagsOnlyIfSent, DownIsEmpty
<1>9. VersionsOrdered'
  BY <1>4, <1>5 DEF Inductive, VersionsOrdered
<1>10. QED
  BY <1>1, <1>6, <1>7, <1>8, <1>9 DEF Inductive

(* A manual refresh starts a run of a source that has none.                *)
LEMMA RefreshInductive ==
    ASSUME Inductive, NEW s \in Sources, run_source_now(s)
    PROVE  Inductive'
<1>1. TypeOK'
  BY NextTypeOK DEF Next
<1>2. PICK r \in Runs : run[r].phase = "idle" /\ run' = [run EXCEPT ![r] = NewRun(s, TRUE)]
  BY DEF run_source_now
<1>3. /\ run'[r].phase = "queued"
      /\ run'[r].src = s
      /\ \A q \in Runs \ {r} : run'[q] = run[q]
  BY <1>2 DEF Inductive, TypeOK, NewRun, NoRun
<1>4. /\ UNCHANGED <<up, st, disk, stored, remote>>
      /\ running' = running \union {s}
      /\ s \notin running
      /\ up
  BY DEF run_source_now
<1>5. RunsHaveSources'
  BY <1>3, ConstantsAssumption DEF Inductive, RunsHaveSources
<1>6. OneRunPerSource'
  <2>1. \A q \in Runs \ {r} : run[q].phase \in Collecting => run[q].src # s
    BY <1>4 DEF Inductive, OneRunPerSource
  <2>2. \A q \in Runs : run'[q].phase \in Collecting => run'[q].src \in running'
    BY <1>3, <1>4 DEF Inductive, OneRunPerSource
  <2>3. ASSUME NEW x \in running'
        PROVE  \E q \in Runs : run'[q].phase \in Collecting /\ run'[q].src = x
    <3>1. CASE x = s
      BY <1>3, <3>1 DEF Collecting
    <3>2. CASE x \in running
      <4>1. PICK q \in Runs : run[q].phase \in Collecting /\ run[q].src = x
        BY <3>2 DEF Inductive, OneRunPerSource
      <4>2. run'[q] = run[q]
        BY <1>2, <1>3, <4>1 DEF Collecting
      <4>3. QED
        BY <4>1, <4>2
    <3>3. QED
      BY <1>4, <3>1, <3>2
  <2>4. \A p, q \in Runs :
           run'[p].phase \in Collecting /\ run'[q].phase \in Collecting
               /\ run'[p].src = run'[q].src => p = q
    BY <1>3, <2>1 DEF Inductive, OneRunPerSource
  <2>5. QED
    BY <2>2, <2>3, <2>4 DEF OneRunPerSource
<1>7. EtagCovered' /\ TagsOnlyIfSent' /\ DownIsEmpty'
  BY <1>4 DEF Inductive, EtagCovered, Covered, TagsOnlyIfSent, DownIsEmpty
<1>8. VersionsOrdered'
  BY <1>3, <1>4 DEF Inductive, VersionsOrdered
<1>9. QED
  BY <1>1, <1>5, <1>6, <1>7, <1>8 DEF Inductive

----------------------------------------------------------------------------
(* Every step of a run keeps the invariant.                                *)
LEMMA RunStepInductive ==
    ASSUME Inductive, NEW r \in Runs, RunStep(r)
    PROVE  Inductive'
<1>0. TypeOK'
  BY NextTypeOK DEF Next
<1> DEFINE s == run[r].src
<1>b. ASSUME run[r].phase # "idle"
      PROVE  s \in Sources /\ up
  BY <1>b, BusyRun
<1>n. ASSUME s \in Sources
      PROVE  /\ st[s].etag \in Tags
             /\ st[s].etag <= st[s].etag
             /\ st[s].etag <= remote[s]
             /\ s \notin Conditional => st[s].etag = NoTag
             /\ st[s].etag \in Covered(s)
  <2>1. st[s].etag \in Tags
    BY <1>n DEF Inductive, TypeOK, SourceState
  <2>2. st[s].etag \in Nat
    BY <2>1, TagsAreNumbers
  <2>3. st[s].etag <= remote[s]
    BY <1>n DEF Inductive, VersionsOrdered
  <2>4. s \notin Conditional => st[s].etag = NoTag
    BY <1>n DEF Inductive, TagsOnlyIfSent
  <2>5. st[s].etag \in Covered(s)
    BY <1>n DEF Inductive, EtagCovered
  <2>6. QED
    BY <2>1, <2>2, <2>3, <2>4, <2>5
<1>g. ASSUME run[r].phase \in {"prepare", "ingest"}
      PROVE  /\ TagOf(s, run[r].got) \in Tags
             /\ st[s].etag <= TagOf(s, run[r].got)
             /\ TagOf(s, run[r].got) <= remote[s]
             /\ s \notin Conditional => TagOf(s, run[r].got) = NoTag
             /\ TagOf(s, run[r].got) \in {run[r].got, NoTag}
  <2>1. s \in Sources
    BY <1>b, <1>g
  <2>2. /\ st[s].etag <= run[r].got
        /\ run[r].got <= remote[s]
        /\ run[r].got \in Versions
        /\ st[s].etag <= remote[s]
    BY <1>g, <2>1 DEF Inductive, VersionsOrdered
  <2>3. remote[s] \in Versions
    BY <2>1 DEF Inductive, TypeOK
  <2>4. NoTag <= remote[s] /\ NoTag <= NoTag
    BY <2>3, ConstantsAssumption DEF Versions, NoTag
  <2>5. QED
    BY <1>n, <2>1, <2>2, <2>4 DEF TagOf, Tags
<1>1. CASE AcquireSem(r)
  <2>1. /\ run'[r].phase = "fetching" /\ run'[r].src = s
        /\ run[r].phase = "queued"
        /\ \A q \in Runs \ {r} : run'[q] = run[q]
        /\ UNCHANGED <<up, running, st, disk, stored, remote>>
    BY <1>1 DEF AcquireSem, Inductive, TypeOK
  <2>2. RunsHaveSources' /\ DownIsEmpty'
    BY <1>b, <2>1 DEF Inductive, RunsHaveSources, DownIsEmpty
  <2>3. OneRunPerSource'
    BY <2>1, KeepsOneRun DEF Inductive, Collecting
  <2>4. EtagCovered' /\ TagsOnlyIfSent'
    BY <2>1 DEF Inductive, EtagCovered, Covered, TagsOnlyIfSent
  <2>5. VersionsOrdered'
    BY <2>1 DEF Inductive, VersionsOrdered
  <2>6. QED
    BY <1>0, <2>2, <2>3, <2>4, <2>5 DEF Inductive
<1>2. CASE FetchNotModified(r)
  <2>1. run[r].phase \in Collecting /\ s \in Sources
    BY <1>2, <1>b DEF FetchNotModified, Collecting
  <2>2. /\ Finish(r, TRUE, st[s].etag, writers)
        /\ UNCHANGED <<up, disk, stored, remote>>
    BY <1>2 DEF FetchNotModified
  <2>3. EtagCovered'
    BY <1>n, <2>1, <2>2, FinishCovered DEF Covered
  <2>4. QED
    BY <1>0, <1>n, <2>1, <2>2, <2>3, FinishKeeps DEF Inductive
<1>3. CASE FetchItems(r)
  <2>1. /\ run'[r].phase = "prepare" /\ run'[r].src = s /\ run'[r].got = remote[s]
        /\ run[r].phase = "fetching"
        /\ \A q \in Runs \ {r} : run'[q] = run[q]
        /\ UNCHANGED <<up, running, st, disk, stored, remote>>
    BY <1>3 DEF FetchItems, Inductive, TypeOK
  <2>2. RunsHaveSources' /\ DownIsEmpty'
    BY <1>b, <2>1 DEF Inductive, RunsHaveSources, DownIsEmpty
  <2>3. OneRunPerSource'
    BY <2>1, KeepsOneRun DEF Inductive, Collecting
  <2>4. EtagCovered' /\ TagsOnlyIfSent'
    BY <2>1 DEF Inductive, EtagCovered, Covered, TagsOnlyIfSent
  <2>5. VersionsOrdered'
    <3>1. remote[s] \in Versions /\ remote[s] <= remote[s] /\ st[s].etag <= remote[s]
      BY <1>b, <1>n, <2>1, TagsAreNumbers DEF Inductive, TypeOK, Tags
    <3>2. QED
      BY <2>1, <3>1 DEF Inductive, VersionsOrdered
  <2>6. QED
    BY <1>0, <2>2, <2>3, <2>4, <2>5 DEF Inductive
<1>4. CASE FetchFails(r)
  <2>1. run[r].phase \in Collecting /\ s \in Sources
    BY <1>4, <1>b DEF FetchFails, Collecting
  <2>2. /\ Finish(r, FALSE, st[s].etag, writers)
        /\ UNCHANGED <<up, disk, stored, remote>>
    BY <1>4 DEF FetchFails
  <2>3. EtagCovered'
    BY <1>n, <2>1, <2>2, FinishCovered DEF Covered
  <2>4. QED
    BY <1>0, <1>n, <2>1, <2>2, <2>3, FinishKeeps DEF Inductive
<1>5. CASE IngestNothing(r)
  <2>1. run[r].phase \in Collecting /\ s \in Sources
    BY <1>5, <1>b DEF IngestNothing, Collecting
  <2>2. /\ Finish(r, TRUE, TagOf(s, run[r].got), writers)
        /\ UNCHANGED <<up, disk, stored, remote>>
        /\ run[r].phase \in {"prepare", "ingest"}
        /\ run[r].got \in Blank
    BY <1>5 DEF IngestNothing
  <2>3. EtagCovered'
    BY <1>g, <2>1, <2>2, FinishCovered
  <2>4. QED
    BY <1>0, <1>g, <2>1, <2>2, <2>3, FinishKeeps DEF Inductive
<1>6. CASE QueueIngest(r)
  <2>1. /\ run'[r].phase = "ingest" /\ run'[r].src = s /\ run'[r].got = run[r].got
        /\ run[r].phase = "prepare" /\ run[r].got \notin Blank
        /\ \A q \in Runs \ {r} : run'[q] = run[q]
        /\ UNCHANGED <<up, running, st, disk, stored, remote>>
    BY <1>6 DEF QueueIngest, Inductive, TypeOK
  <2>2. RunsHaveSources' /\ DownIsEmpty'
    BY <1>b, <2>1 DEF Inductive, RunsHaveSources, DownIsEmpty
  <2>3. OneRunPerSource'
    BY <2>1, KeepsOneRun DEF Inductive, Collecting
  <2>4. EtagCovered' /\ TagsOnlyIfSent'
    BY <2>1 DEF Inductive, EtagCovered, Covered, TagsOnlyIfSent
  <2>5. VersionsOrdered'
    BY <2>1 DEF Inductive, VersionsOrdered
  <2>6. QED
    BY <1>0, <2>2, <2>3, <2>4, <2>5 DEF Inductive
<1>7. CASE IngestCommit(r)
  <2>1. run[r].phase \in Collecting /\ s \in Sources /\ run[r].phase \in {"prepare", "ingest"}
    BY <1>7, <1>b DEF IngestCommit, Collecting
  <2>2. /\ Finish(r, TRUE, TagOf(s, run[r].got), Tail(writers))
        /\ UNCHANGED <<up, disk, remote>>
    BY <1>7 DEF IngestCommit
  <2>3. /\ \A x \in Sources : stored[x] \subseteq stored'[x]
        /\ run[r].got \in stored'[s]
    BY <1>7, <2>1 DEF IngestCommit, Inductive, TypeOK
  <2>4. EtagCovered'
    BY <1>g, <2>1, <2>2, <2>3, FinishCovered
  <2>5. QED
    BY <1>0, <1>g, <2>1, <2>2, <2>4, FinishKeeps DEF Inductive
<1>8. CASE IngestFails(r)
  <2>1. run[r].phase \in Collecting /\ s \in Sources
    BY <1>8, <1>b DEF IngestFails, Collecting
  <2>2. /\ Finish(r, FALSE, st[s].etag, Tail(writers))
        /\ UNCHANGED <<up, disk, stored, remote>>
    BY <1>8 DEF IngestFails
  <2>3. EtagCovered'
    BY <1>n, <2>1, <2>2, FinishCovered DEF Covered
  <2>4. QED
    BY <1>0, <1>n, <2>1, <2>2, <2>3, FinishKeeps DEF Inductive
<1>9. CASE SaveState(r)
  <2>1. /\ run'[r].phase = "log" /\ run'[r].src = s
        /\ run[r].phase = "save" /\ s \in Sources
        /\ \A q \in Runs \ {r} : run'[q] = run[q]
        /\ \A x \in Sources \ {s} : disk'[x] = disk[x]
        /\ disk'[s] = st[s]
        /\ UNCHANGED <<up, running, st, stored, remote>>
    BY <1>9, <1>b DEF SaveState, Inductive, TypeOK
  <2>2. RunsHaveSources' /\ DownIsEmpty'
    BY <1>b, <2>1 DEF Inductive, RunsHaveSources, DownIsEmpty
  <2>3. OneRunPerSource'
    BY <2>1, KeepsOneRun DEF Inductive, Collecting
  <2>4. EtagCovered' /\ TagsOnlyIfSent'
    BY <2>1 DEF Inductive, EtagCovered, Covered, TagsOnlyIfSent
  <2>5. VersionsOrdered'
    BY <1>n, <2>1 DEF Inductive, VersionsOrdered
  <2>6. QED
    BY <1>0, <2>2, <2>3, <2>4, <2>5 DEF Inductive
<1>10. CASE LogFetch(r)
  <2>1. /\ run'[r].phase = "idle" /\ run'[r].src = NoSource
        /\ run[r].phase = "log"
        /\ \A q \in Runs \ {r} : run'[q] = run[q]
        /\ UNCHANGED <<up, running, st, disk, stored, remote>>
    BY <1>10 DEF LogFetch, Inductive, TypeOK, NoRun
  <2>2. RunsHaveSources' /\ DownIsEmpty'
    BY <1>b, <2>1 DEF Inductive, RunsHaveSources, DownIsEmpty
  <2>3. OneRunPerSource'
    BY <2>1, KeepsOneRun DEF Inductive, Collecting
  <2>4. EtagCovered' /\ TagsOnlyIfSent'
    BY <2>1 DEF Inductive, EtagCovered, Covered, TagsOnlyIfSent
  <2>5. VersionsOrdered'
    BY <2>1 DEF Inductive, VersionsOrdered
  <2>6. QED
    BY <1>0, <2>2, <2>3, <2>4, <2>5 DEF Inductive
<1>11. QED
  BY <1>1, <1>2, <1>3, <1>4, <1>5, <1>6, <1>7, <1>8, <1>9, <1>10 DEF RunStep

----------------------------------------------------------------------------
(* Every step of the system keeps the invariant.                           *)
LEMMA NextInductive == Inductive /\ [Next]_vars => Inductive'
<1> SUFFICES ASSUME Inductive, [Next]_vars
             PROVE  Inductive'
  OBVIOUS
<1>0. TypeOK'
  BY NextTypeOK
<1>1. CASE Tick
  BY <1>1, TickInductive
<1>2. ASSUME NEW r \in Runs, RunStep(r)
      PROVE  Inductive'
  BY <1>2, RunStepInductive
<1>3. ASSUME NEW s \in Sources, run_source_now(s)
      PROVE  Inductive'
  BY <1>3, RefreshInductive
<1>4. CASE UNCHANGED <<up, running, run, st, disk, stored, remote>>
  BY <1>0, <1>4
     DEF Inductive, RunsHaveSources, OneRunPerSource, EtagCovered, Covered, DownIsEmpty,
         TagsOnlyIfSent, VersionsOrdered
<1>5. ASSUME NEW s \in Sources, NEW o \in Overrides, set_enabled(s, o)
      PROVE  Inductive'
  BY <1>4, <1>5 DEF set_enabled
<1>6. CASE CommitEnabled
  BY <1>4, <1>6 DEF CommitEnabled
<1>7. ASSUME NEW s \in Sources, Publish(s)
      PROVE  Inductive'
  <2>1. /\ UNCHANGED <<up, running, run, st, disk, stored>>
        /\ \A x \in Sources : remote[x] <= remote'[x]
    BY <1>7, TagsAreNumbers DEF Publish, memory, Inductive, TypeOK, Tags
  <2>2. RunsHaveSources' /\ OneRunPerSource' /\ EtagCovered' /\ DownIsEmpty' /\ TagsOnlyIfSent'
    BY <2>1 DEF Inductive, RunsHaveSources, OneRunPerSource, EtagCovered, Covered,
                DownIsEmpty, TagsOnlyIfSent
  <2>3. ASSUME NEW x \in Sources
        PROVE  /\ st'[x].etag <= remote'[x]
               /\ disk'[x].etag <= remote'[x]
               /\ up' => disk'[x].etag <= st'[x].etag
    <3>1. /\ st[x].etag \in Nat /\ disk[x].etag \in Nat
          /\ remote[x] \in Nat /\ remote'[x] \in Nat
      BY <1>0, TagsAreNumbers DEF Inductive, TypeOK, SourceState, Tags
    <3>2. /\ st[x].etag <= remote[x] /\ disk[x].etag <= remote[x]
          /\ up => disk[x].etag <= st[x].etag
      BY DEF Inductive, VersionsOrdered
    <3>3. QED
      BY <2>1, <3>1, <3>2
  <2>4. ASSUME NEW r \in Runs, run[r].phase \in {"prepare", "ingest"}
        PROVE  run[r].got <= remote'[run[r].src]
    <3>1. run[r].src \in Sources
      BY <2>4, BusyRun
    <3>2. /\ run[r].got \in Nat /\ remote[run[r].src] \in Nat
          /\ remote'[run[r].src] \in Nat
      BY <1>0, <3>1, TagsAreNumbers DEF Inductive, TypeOK, Run, Tags
    <3>3. run[r].got <= remote[run[r].src]
      BY <2>4 DEF Inductive, VersionsOrdered
    <3>4. QED
      BY <2>1, <3>1, <3>2, <3>3
  <2>5. VersionsOrdered'
    BY <2>1, <2>3, <2>4 DEF Inductive, VersionsOrdered
  <2>6. QED
    BY <1>0, <2>2, <2>5 DEF Inductive
<1>8. ASSUME NEW s \in Sources, ComesDue(s)
      PROVE  Inductive'
  <2>1. /\ UNCHANGED <<up, running, run, stored, remote>>
        /\ \A x \in Sources : st'[x].etag = st[x].etag /\ disk'[x].etag = disk[x].etag
    BY <1>8 DEF ComesDue, Inductive, TypeOK, SourceState
  <2>2. \A r \in Runs : run[r].phase # "idle" => run[r].src \in Sources
    BY BusyRun
  <2>3. RunsHaveSources' /\ OneRunPerSource' /\ EtagCovered' /\ DownIsEmpty' /\ TagsOnlyIfSent'
    BY <2>1 DEF Inductive, RunsHaveSources, OneRunPerSource, EtagCovered, Covered,
                DownIsEmpty, TagsOnlyIfSent
  <2>4. VersionsOrdered'
    BY <2>1, <2>2 DEF Inductive, VersionsOrdered
  <2>5. QED
    BY <1>0, <2>3, <2>4 DEF Inductive
<1>9. CASE Crash
  <2>1. /\ up' = FALSE /\ running' = {}
        /\ \A r \in Runs : run'[r].phase = "idle" /\ run'[r].src = NoSource
        /\ \A x \in Sources : st'[x].etag = NoTag
        /\ UNCHANGED <<disk, stored, remote>>
    BY <1>9 DEF Crash, NoRun, FreshState
  <2>2. RunsHaveSources' /\ OneRunPerSource' /\ EtagCovered' /\ DownIsEmpty' /\ TagsOnlyIfSent'
    BY <2>1 DEF Inductive, RunsHaveSources, OneRunPerSource, EtagCovered, Covered,
                DownIsEmpty, TagsOnlyIfSent, Collecting
  <2>3. \A x \in Sources : NoTag <= remote[x]
    BY TagsAreNumbers DEF Inductive, TypeOK, Tags, NoTag
  <2>4. VersionsOrdered'
    BY <2>1, <2>3 DEF Inductive, VersionsOrdered
  <2>5. QED
    BY <1>0, <2>2, <2>4 DEF Inductive
<1>10. CASE init_state
  <2>1. /\ up' = TRUE /\ ~up /\ st' = disk
        /\ UNCHANGED <<running, run, disk, stored, remote>>
    BY <1>10 DEF init_state
  <2>2. \A r \in Runs : run[r].phase = "idle"
    BY <2>1 DEF Inductive, DownIsEmpty
  <2>3. RunsHaveSources' /\ OneRunPerSource' /\ EtagCovered' /\ DownIsEmpty' /\ TagsOnlyIfSent'
    BY <2>1 DEF Inductive, RunsHaveSources, OneRunPerSource, EtagCovered, Covered,
                DownIsEmpty, TagsOnlyIfSent
  <2>4. \A x \in Sources : disk[x].etag \in Nat
    BY TagsAreNumbers DEF Inductive, TypeOK, SourceState
  <2>5. VersionsOrdered'
    BY <2>1, <2>2, <2>4 DEF Inductive, VersionsOrdered
  <2>6. QED
    BY <1>0, <2>3, <2>5 DEF Inductive
<1>11. CASE UNCHANGED vars
  BY <1>4, <1>11 DEF vars
<1>12. QED
  BY <1>1, <1>2, <1>3, <1>5, <1>6, <1>7, <1>8, <1>9, <1>10, <1>11 DEF Next

----------------------------------------------------------------------------
(* The invariant holds in every reachable state.                           *)
THEOREM SpecInductive == Spec => []Inductive
BY InitInductive, NextInductive, PTL DEF Spec

(* Type correctness of the scheduler's state, its write queue and its      *)
(* tables.                                                                 *)
THEOREM SpecTypeOK == Spec => []TypeOK
<1>1. Inductive => TypeOK
  BY DEF Inductive
<1>2. QED
  BY <1>1, SpecInductive, PTL

(* The loop and the manual refresh never collect one source twice at a     *)
(* time, and _running is exactly the set of sources being collected.       *)
THEOREM SpecOneRunPerSource == Spec => []OneRunPerSource
<1>1. Inductive => OneRunPerSource
  BY DEF Inductive
<1>2. QED
  BY <1>1, SpecInductive, PTL

(* No validator, in memory or in the database, stands for content whose    *)
(* items were not committed.                                               *)
THEOREM SpecEtagCovered == Spec => []EtagCovered
<1>1. Inductive => EtagCovered
  BY DEF Inductive
<1>2. QED
  BY <1>1, SpecInductive, PTL

----------------------------------------------------------------------------
(* Every step moves validators forward.  Only the end of a run and the     *)
(* save change one; a run carries a version at least as new as the memory, *)
(* because no other run of its source can have ended in between.           *)
LEMMA StepAdvances == Inductive /\ [Next]_vars => [Advance]_vars
<1> SUFFICES ASSUME Inductive, [Next]_vars
             PROVE  Advance
  OBVIOUS
<1>n. \A s \in Sources : /\ st[s].etag <= st[s].etag
                         /\ disk[s].etag <= disk[s].etag
  <2>1. \A s \in Sources : st[s].etag \in Nat /\ disk[s].etag \in Nat
    BY TagsAreNumbers DEF Inductive, TypeOK, SourceState
  <2>2. QED
    BY <2>1
<1>1. CASE /\ \A s \in Sources : disk'[s].etag = disk[s].etag
           /\ \A s \in Sources : st'[s].etag = st[s].etag
  BY <1>n, <1>1 DEF Advance
<1>2. ASSUME NEW r \in Runs, RunStep(r)
      PROVE  Advance
  <2> DEFINE s == run[r].src
  <2>1. ASSUME s \in Sources, UNCHANGED disk, NEW ok, NEW tag, NEW queue,
               Finish(r, ok, tag, queue), st[s].etag <= tag
        PROVE  Advance
    BY <1>n, <2>1, FinishEffect DEF Inductive, Advance
  <2>2. ASSUME run[r].phase # "idle"
        PROVE  s \in Sources /\ up /\ st[s].etag <= st[s].etag
    BY <1>n, <2>2, BusyRun
  <2>3. ASSUME run[r].phase \in {"prepare", "ingest"}
        PROVE  st[s].etag <= TagOf(s, run[r].got)
    <3>1. s \in Sources /\ st[s].etag <= st[s].etag
      BY <2>2, <2>3
    <3>2. QED
      BY <2>3, <3>1 DEF TagOf, Inductive, VersionsOrdered, TagsOnlyIfSent
  <2>4. CASE FetchNotModified(r)
    BY <2>1, <2>2, <2>4 DEF FetchNotModified
  <2>5. CASE FetchFails(r)
    BY <2>1, <2>2, <2>5 DEF FetchFails
  <2>6. CASE IngestNothing(r)
    BY <2>1, <2>2, <2>3, <2>6 DEF IngestNothing
  <2>7. CASE IngestCommit(r)
    BY <2>1, <2>2, <2>3, <2>7 DEF IngestCommit
  <2>8. CASE IngestFails(r)
    BY <2>1, <2>2, <2>8 DEF IngestFails
  <2>9. CASE SaveState(r)
    <3>1. disk' = [disk EXCEPT ![s] = st[s]] /\ st' = st /\ s \in Sources /\ up
      BY <2>2, <2>9 DEF SaveState
    <3>2. \A x \in Sources : disk[x].etag <= st[x].etag
      BY <3>1 DEF Inductive, VersionsOrdered
    <3>3. QED
      BY <1>n, <3>1, <3>2 DEF Advance, Inductive, TypeOK
  <2>10. CASE AcquireSem(r) \/ FetchItems(r) \/ QueueIngest(r) \/ LogFetch(r)
    BY <1>1, <2>10 DEF AcquireSem, FetchItems, QueueIngest, LogFetch
  <2>11. QED
    BY <1>2, <2>4, <2>5, <2>6, <2>7, <2>8, <2>9, <2>10 DEF RunStep
<1>3. CASE Tick
  BY <1>1, <1>3 DEF Tick
<1>4. ASSUME NEW s \in Sources, run_source_now(s)
      PROVE  Advance
  BY <1>1, <1>4 DEF run_source_now
<1>5. ASSUME NEW s \in Sources, NEW o \in Overrides, set_enabled(s, o)
      PROVE  Advance
  BY <1>1, <1>5 DEF set_enabled
<1>6. ASSUME NEW s \in Sources, Publish(s)
      PROVE  Advance
  BY <1>1, <1>6 DEF Publish, memory
<1>7. ASSUME NEW s \in Sources, ComesDue(s)
      PROVE  Advance
  <2>1. \A x \in Sources : st'[x].etag = st[x].etag /\ disk'[x].etag = disk[x].etag
    BY <1>7 DEF ComesDue, Inductive, TypeOK, SourceState
  <2>2. QED
    BY <1>1, <2>1
<1>8. CASE CommitEnabled
  BY <1>1, <1>8 DEF CommitEnabled
<1>9. CASE Crash
  BY <1>n, <1>9 DEF Crash, Advance
<1>10. CASE init_state
  BY <1>n, <1>10 DEF init_state, Advance
<1>11. CASE UNCHANGED vars
  BY <1>1, <1>11 DEF vars
<1>12. QED
  BY <1>2, <1>3, <1>4, <1>5, <1>6, <1>7, <1>8, <1>9, <1>10, <1>11 DEF Next

(* A feed's validator never goes back to an older version: not in memory   *)
(* while the process is up, and never in the database.                     *)
THEOREM SpecEtagsAdvance == Spec => EtagsAdvance
BY SpecInductive, StepAdvances, PTL DEF Spec, EtagsAdvance
----------------------------------------------------------------------------
(* The write queue.  Means: when the queue q has been served, the column   *)
(* of s, which is c now, will be v.                                        *)
PatchesOf(q, s) == {i \in DOMAIN q : q[i] \in SetEnabled /\ q[i].src = s}
Means(q, s, c, v) ==
    \/ PatchesOf(q, s) = {} /\ v = c
    \/ \E i \in PatchesOf(q, s) : /\ \A j \in PatchesOf(q, s) : j <= i
                                  /\ q[i].to = v

(* Joining the queue is told from the PATCH that joins, if it is one.      *)
LEMMA MeansAppend ==
    ASSUME NEW S, NEW q \in Seq(S), NEW w \in S, NEW s, NEW c, NEW v,
           \/ w \in SetEnabled /\ w.src = s /\ w.to = v
           \/ ~(w \in SetEnabled /\ w.src = s) /\ Means(q, s, c, v)
    PROVE  Means(Append(q, w), s, c, v)
<1> DEFINE p == Append(q, w)
           n == Len(q)
<1>1. /\ n \in Nat /\ DOMAIN q = 1 .. n /\ DOMAIN p = 1 .. n + 1
      /\ \A i \in 1 .. n : p[i] = q[i]
      /\ p[n + 1] = w
  OBVIOUS
<1> HIDE DEF p, n
<1>2. CASE w \in SetEnabled /\ w.src = s /\ w.to = v
  <2>1. n + 1 \in PatchesOf(p, s)
    BY <1>1, <1>2 DEF PatchesOf
  <2>2. \A j \in PatchesOf(p, s) : j <= n + 1
    BY <1>1 DEF PatchesOf
  <2>3. QED BY <1>1, <1>2, <2>1, <2>2 DEF Means, p
<1>3. CASE ~(w \in SetEnabled /\ w.src = s) /\ Means(q, s, c, v)
  <2>1. PatchesOf(p, s) = PatchesOf(q, s)
    BY <1>1, <1>3 DEF PatchesOf
  <2>2. \A i \in PatchesOf(q, s) : p[i] = q[i]
    BY <1>1 DEF PatchesOf
  <2>3. Means(p, s, c, v)
    BY <1>3, <2>1, <2>2 DEF Means
  <2>4. QED BY <2>3 DEF p
<1>4. QED BY <1>2, <1>3

(* Serving the head writes the column if the head is a PATCH of s.         *)
LEMMA MeansTail ==
    ASSUME NEW S, NEW q \in Seq(S), q # << >>, NEW s, NEW c, NEW v, Means(q, s, c, v)
    PROVE  Means(Tail(q), s, IF Head(q) \in SetEnabled /\ Head(q).src = s THEN Head(q).to ELSE c, v)
<1> DEFINE p == Tail(q)
           n == Len(q)
           d == IF Head(q) \in SetEnabled /\ Head(q).src = s THEN Head(q).to ELSE c
<1>1. /\ n \in Nat \ {0} /\ DOMAIN q = 1 .. n /\ DOMAIN p = 1 .. n - 1
      /\ \A i \in 1 .. n - 1 : p[i] = q[i + 1]
      /\ Head(q) = q[1]
  OBVIOUS
<1>2. d = IF 1 \in PatchesOf(q, s) THEN q[1].to ELSE c
  BY <1>1 DEF PatchesOf
<1> HIDE DEF p, n, d
<1>3. /\ \A i \in PatchesOf(p, s) : i + 1 \in PatchesOf(q, s)
      /\ \A i \in PatchesOf(q, s) : i # 1 => i - 1 \in PatchesOf(p, s)
      /\ PatchesOf(p, s) \subseteq 1 .. n - 1 /\ PatchesOf(q, s) \subseteq 1 .. n
  BY <1>1 DEF PatchesOf
<1>4. CASE PatchesOf(p, s) = {}
  <2>1. v = d
    BY <1>1, <1>2, <1>3, <1>4 DEF Means
  <2>2. QED BY <1>4, <2>1 DEF Means, p, d
<1>5. CASE PatchesOf(p, s) # {}
  <2>1. PICK k \in PatchesOf(p, s) : TRUE
    BY <1>5
  <2>2. PICK i \in PatchesOf(q, s) : (\A j \in PatchesOf(q, s) : j <= i) /\ q[i].to = v
    BY <1>3, <2>1 DEF Means
  <2>3. i - 1 \in PatchesOf(p, s)
    BY <1>1, <1>3, <2>1, <2>2
  <2>4. \A j \in PatchesOf(p, s) : j <= i - 1
    BY <1>1, <1>3, <2>2
  <2>5. p[i - 1] = q[i]
    BY <1>1, <1>3, <2>3
  <2>6. Means(p, s, d, v)
    BY <2>2, <2>3, <2>4, <2>5 DEF Means
  <2>7. QED BY <2>6 DEF p, d
<1>6. QED BY <1>4, <1>5

(* What the database still owes: the strengthening of DatabaseCatchesUp.   *)
SavesOwed    == up => \A s \in Sources : ~SavePending(s) => disk[s] = st[s]
PatchesOwed  == up => \A s \in Sources : Means(writers, s, diskOverride[s], override[s])
DownNotQueued == ~up => writers = << >>
Owed == SavesOwed /\ PatchesOwed /\ DownNotQueued

LEMMA OwedCatchesUp == TypeOK /\ Owed => DatabaseCatchesUp
<1> SUFFICES ASSUME TypeOK, Owed, up, NEW s \in Sources
             PROVE  FinalOverride(s) = override[s]
  BY DEF DatabaseCatchesUp, Owed, SavesOwed
<1>1. Means(writers, s, diskOverride[s], override[s]) /\ Patches(s) = PatchesOf(writers, s)
  BY DEF Owed, PatchesOwed, Patches, PatchesOf
<1>2. CASE Patches(s) = {}
  BY <1>1, <1>2 DEF Means, FinalOverride
<1>3. CASE Patches(s) # {}
  <2>1. PICK i \in Patches(s) : (\A j \in Patches(s) : j <= i) /\ writers[i].to = override[s]
    BY <1>1, <1>3 DEF Means
  <2>2. Patches(s) \subseteq Nat
    BY DEF TypeOK, Patches
  <2>3. i = CHOOSE k \in Patches(s) : \A j \in Patches(s) : j <= k
    <3>1. \A k \in Patches(s) : (\A j \in Patches(s) : j <= k) => k = i
      BY <2>1, <2>2
    <3>2. QED BY <2>1, <3>1
  <2>4. QED BY <1>3, <2>1, <2>3 DEF FinalOverride
<1>4. QED BY <1>2, <1>3

(* A queue that a run joins, or leaves as its holder, means the same.      *)
LEMMA RunJoins ==
    ASSUME NEW q \in Seq(Runs \union SetEnabled), NEW r \in Runs, NEW s, NEW c, NEW v,
           Means(q, s, c, v)
    PROVE  Means(Append(q, r), s, c, v)
BY MeansAppend, ConstantsAssumption

LEMMA RunLeaves ==
    ASSUME TypeOK, NEW r \in Runs, Holds(r), NEW s, NEW c, NEW v, Means(writers, s, c, v)
    PROVE  Means(Tail(writers), s, c, v)
<1>1. writers \in Seq(Runs \union SetEnabled) /\ writers # << >> /\ Head(writers) \notin SetEnabled
  BY ConstantsAssumption DEF TypeOK, Holds
<1>2. QED BY <1>1, MeansTail

(* A step that leaves the queue, the switches and what is saved alone owes *)
(* no more than before, whichever runs it starts or moves on.              *)
LEMMA OwedUntouched ==
    ASSUME Owed, UNCHANGED <<up, st, override, writers, disk, diskOverride>>,
           \A r \in Runs : run[r].phase = "save" => run'[r] = run[r]
    PROVE  Owed'
<1>1. \A s \in Sources : SavePending(s) => SavePending(s)'
  BY DEF SavePending
<1>2. SavesOwed' /\ PatchesOwed' /\ DownNotQueued'
  BY <1>1 DEF Owed, SavesOwed, PatchesOwed, DownNotQueued
<1>3. QED BY <1>2 DEF Owed

(* A run that ends owes the save of its source and joins the queue for it. *)
LEMMA OwedFinish ==
    ASSUME Inductive, Owed, NEW r \in Runs, run[r].phase \in Collecting,
           NEW ok, NEW tag, NEW queue \in Seq(Runs \union SetEnabled), Finish(r, ok, tag, queue),
           \A s, c, v : Means(writers, s, c, v) => Means(queue, s, c, v),
           UNCHANGED <<up, override, disk, diskOverride>>
    PROVE  Owed'
<1>1. run[r].src \in Sources /\ up
  BY BusyRun DEF Collecting
<1>2. /\ \A q \in Runs \ {r} : run'[q] = run[q]
      /\ run'[r].phase = "save" /\ run'[r].src = run[r].src
      /\ \A x \in Sources \ {run[r].src} : st'[x] = st[x]
  BY <1>1, FinishEffect DEF Inductive
<1>3. writers' = Append(queue, r)
  BY DEF Finish
<1>4. \A s \in Sources : SavePending(s) \/ s = run[r].src => SavePending(s)'
  BY <1>2 DEF SavePending, Collecting
<1>5. SavesOwed'
  BY <1>1, <1>2, <1>4 DEF Owed, SavesOwed
<1>6. PatchesOwed'
  BY <1>1, <1>3, RunJoins DEF Owed, PatchesOwed
<1>7. QED BY <1>1, <1>5, <1>6 DEF Owed, DownNotQueued

LEMMA RunStepOwed ==
    ASSUME Inductive, Owed, NEW r \in Runs, RunStep(r) PROVE Owed'
<1>q. writers \in Seq(Runs \union SetEnabled)
  BY DEF Inductive, TypeOK
<1>h. ASSUME Holds(r)
      PROVE  /\ Tail(writers) \in Seq(Runs \union SetEnabled)
             /\ \A s, c, v : Means(writers, s, c, v) => Means(Tail(writers), s, c, v)
  <2>1. Tail(writers) \in Seq(Runs \union SetEnabled)
    BY <1>h, <1>q DEF Holds
  <2>2. ASSUME NEW s, NEW c, NEW v, Means(writers, s, c, v) PROVE Means(Tail(writers), s, c, v)
    BY <1>h, <2>2, RunLeaves DEF Inductive
  <2>3. QED BY <2>1, <2>2
<1>1. CASE AcquireSem(r) \/ FetchItems(r)
  <2>1. \A q \in Runs : run[q].phase = "save" => run'[q] = run[q]
    BY <1>1 DEF AcquireSem, FetchItems, Inductive, TypeOK
  <2>2. QED BY <1>1, <2>1, OwedUntouched DEF AcquireSem, FetchItems
<1>2. CASE FetchNotModified(r) \/ FetchFails(r) \/ IngestNothing(r)
  BY <1>q, <1>2, OwedFinish DEF FetchNotModified, FetchFails, IngestNothing, Collecting
<1>3. CASE QueueIngest(r)
  <2>1. \A s : SavePending(s) => SavePending(s)'
    BY <1>3 DEF QueueIngest, SavePending, Inductive, TypeOK
  <2>2. SavesOwed'
    BY <1>3, <2>1 DEF QueueIngest, Owed, SavesOwed
  <2>3. PatchesOwed' /\ DownNotQueued'
    BY <1>q, <1>3, RunJoins, BusyRun DEF QueueIngest, Owed, PatchesOwed, DownNotQueued
  <2>4. QED BY <2>2, <2>3 DEF Owed
<1>4. CASE IngestCommit(r) \/ IngestFails(r)
  BY <1>h, <1>4, OwedFinish DEF IngestCommit, IngestFails, Collecting
<1>5. CASE SaveState(r) \/ LogFetch(r)
  <2> DEFINE s == run[r].src
  <2>1. up /\ s \in Sources /\ UNCHANGED <<up, st, override, diskOverride>>
    BY <1>5, BusyRun DEF SaveState, LogFetch
  <2>2. \A q \in Runs \ {r} : run'[q] = run[q]
    BY <1>5 DEF SaveState, LogFetch, Inductive, TypeOK
  <2>3. \A x \in Sources : SavePending(x) => SavePending(x)' \/ (x = s /\ SaveState(r))
    BY <1>5, <2>2 DEF SavePending, LogFetch
  <2>4. SavesOwed'
    <3>1. CASE SaveState(r)
      <4>1. disk' = [disk EXCEPT ![s] = st[s]]
        BY <3>1 DEF SaveState
      <4>2. QED BY <2>1, <2>3, <4>1 DEF Owed, SavesOwed, Inductive, TypeOK
    <3>2. CASE LogFetch(r) /\ ~SaveState(r)
      BY <2>1, <2>3, <3>2 DEF LogFetch, Owed, SavesOwed
    <3>3. QED BY <1>5, <3>1, <3>2
  <2>5. writers' \in {Tail(writers), Append(Tail(writers), r)} /\ Holds(r)
    BY <1>5 DEF SaveState, LogFetch
  <2>6. PatchesOwed'
    BY <1>h, <2>1, <2>5, RunJoins DEF Owed, PatchesOwed
  <2>7. QED BY <2>1, <2>4, <2>6 DEF Owed, DownNotQueued
<1>6. QED BY <1>1, <1>2, <1>3, <1>4, <1>5 DEF RunStep

LEMMA InitOwed == Init => Owed
BY DEF Init, Owed, SavesOwed, PatchesOwed, DownNotQueued, Means, PatchesOf

LEMMA NextOwed == Inductive /\ Owed /\ [Next]_vars => Owed'
<1> SUFFICES ASSUME Inductive, Owed, [Next]_vars PROVE Owed'
  OBVIOUS
<1>q. writers \in Seq(Runs \union SetEnabled)
  BY DEF Inductive, TypeOK
<1>1. CASE Tick
  <2>1. PICK spawn \in [Runs -> Due \union {NoSource}] :
           /\ \A r \in Runs : spawn[r] \in Due => run[r].phase = "idle"
           /\ run' = [r \in Runs |-> IF spawn[r] = NoSource THEN run[r]
                                                         ELSE NewRun(spawn[r], FALSE)]
    BY <1>1 DEF Tick
  <2>2. \A q \in Runs : run[q].phase = "save" => run'[q] = run[q]
    BY <2>1
  <2>3. QED BY <1>1, <2>2, OwedUntouched DEF Tick
<1>2. ASSUME NEW r \in Runs, RunStep(r) PROVE Owed'
  BY <1>2, RunStepOwed
<1>3. ASSUME NEW s \in Sources, run_source_now(s) PROVE Owed'
  <2>1. \A q \in Runs : run[q].phase = "save" => run'[q] = run[q]
    BY <1>3 DEF run_source_now, Inductive, TypeOK
  <2>2. QED BY <1>3, <2>1, OwedUntouched DEF run_source_now
<1>4. ASSUME NEW s \in Sources, NEW o \in Overrides, set_enabled(s, o) PROVE Owed'
  <2> DEFINE patch == [src |-> s, to |-> o]
  <2>1. /\ patch \in SetEnabled /\ patch.src = s /\ patch.to = o
        /\ writers' = Append(writers, patch)
        /\ override' = [override EXCEPT ![s] = o]
        /\ UNCHANGED <<up, run, st, disk, diskOverride>> /\ up
    BY <1>4 DEF set_enabled, SetEnabled
  <2> HIDE DEF patch
  <2>2. ASSUME NEW x \in Sources PROVE Means(writers', x, diskOverride'[x], override'[x])
    <3>1. CASE x = s
      <4>1. override'[x] = o
        BY <2>1, <3>1 DEF Inductive, TypeOK
      <4>2. QED BY <1>q, <2>1, <3>1, <4>1, MeansAppend
    <3>2. CASE x # s
      <4>1. override'[x] = override[x] /\ diskOverride'[x] = diskOverride[x]
        BY <2>1, <3>2 DEF Inductive, TypeOK
      <4>2. Means(writers, x, diskOverride[x], override[x])
        BY <2>1 DEF Owed, PatchesOwed
      <4>3. QED BY <1>q, <2>1, <3>2, <4>1, <4>2, MeansAppend
    <3>3. QED BY <3>1, <3>2
  <2>3. SavesOwed'
    BY <2>1 DEF Owed, SavesOwed, SavePending
  <2>4. QED BY <2>1, <2>2, <2>3 DEF Owed, PatchesOwed, DownNotQueued
<1>5. CASE CommitEnabled
  <2> DEFINE patch == Head(writers)
  <2>1. /\ writers # << >> /\ patch \in SetEnabled
        /\ writers' = Tail(writers)
        /\ diskOverride' = [diskOverride EXCEPT ![patch.src] = patch.to]
        /\ UNCHANGED <<up, run, st, override, disk>>
    BY <1>5 DEF CommitEnabled
  <2>2. up
    BY <2>1 DEF Owed, DownNotQueued
  <2>3. ASSUME NEW x \in Sources PROVE Means(writers', x, diskOverride'[x], override'[x])
    <3>1. Means(writers, x, diskOverride[x], override[x])
      BY <2>2 DEF Owed, PatchesOwed
    <3>2. diskOverride'[x] = IF patch \in SetEnabled /\ patch.src = x THEN patch.to ELSE diskOverride[x]
      BY <2>1 DEF Inductive, TypeOK
    <3>3. QED BY <1>q, <2>1, <3>1, <3>2, MeansTail
  <2>4. SavesOwed'
    BY <2>1 DEF Owed, SavesOwed, SavePending
  <2>5. QED BY <2>1, <2>2, <2>3, <2>4 DEF Owed, PatchesOwed, DownNotQueued
<1>6. ASSUME NEW s \in Sources, Publish(s) PROVE Owed'
  BY <1>6, OwedUntouched DEF Publish, memory
<1>7. ASSUME NEW s \in Sources, ComesDue(s) PROVE Owed'
  <2>1. /\ UNCHANGED <<up, run, override, writers, diskOverride>>
        /\ \A x \in Sources : disk[x] = st[x] => disk'[x] = st'[x]
    BY <1>7 DEF ComesDue, Inductive, TypeOK, SourceState
  <2>2. SavesOwed'
    BY <2>1 DEF Owed, SavesOwed, SavePending
  <2>3. QED BY <2>1, <2>2 DEF Owed, PatchesOwed, DownNotQueued
<1>8. CASE Crash
  BY <1>8 DEF Crash, Owed, SavesOwed, PatchesOwed, DownNotQueued
<1>9. CASE init_state
  BY <1>9 DEF init_state, Owed, SavesOwed, PatchesOwed, DownNotQueued, Means, PatchesOf
<1>10. CASE UNCHANGED vars
  BY <1>10, OwedUntouched DEF vars
<1>11. QED
  BY <1>1, <1>2, <1>3, <1>4, <1>5, <1>6, <1>7, <1>8, <1>9, <1>10 DEF Next

(* With no run of a source waiting to save, its columns equal the memory,  *)
(* and the override column becomes what the last waiting PATCH says.       *)
THEOREM SpecDatabaseCatchesUp == Spec => []DatabaseCatchesUp
<1>1. Inductive /\ Owed => DatabaseCatchesUp
  BY OwedCatchesUp DEF Inductive
<1>2. Spec => []Owed
  BY InitOwed, NextOwed, SpecInductive, PTL DEF Spec
<1>3. QED BY <1>1, <1>2, SpecInductive, PTL
=============================================================================
