-------------------------- MODULE SymbolFetchProofs --------------------------
(***************************************************************************)
(* Safety of the per-symbol fetches for every number of sources, symbols   *)
(* and tasks: types and queues, one job per key, one paced request per     *)
(* source, and the cooldown, from one inductive invariant.                 *)
(***************************************************************************)
EXTENDS SymbolFetch, TLAPS

(* The parts of TypeOK: plain types, the gates, the order of due keys.     *)
Typed ==
    /\ enabled \subseteq Sources
    /\ watch \subseteq Symbols
    /\ state \in [Keys -> Entry]
    /\ inflight \in [Keys -> Tasks \union {NoTask}]
    /\ task \in [Tasks -> Task]
    /\ gate \in [Sources -> Seq(Tasks)]
    /\ gapOver \subseteq Sources
    /\ elsewhere \in 0 .. OtherRuns
    /\ loop \in [Sources -> Tasks \union {NoTask}]
    /\ stale \subseteq Keys
    /\ prunes \in 0 .. MaxPrunes
    /\ stored \in [Keys -> Entry \ {"never"}]
    /\ restarts \in 0 .. MaxRestarts
    /\ lost \union lately \subseteq Keys

InGate(s) == {t \in Tasks : task[t].phase \in {"gate", "sem", "request"} /\ task[t].key[1] = s}

GatesKept == \A s \in Sources : IsInjective(gate[s]) /\ Range(gate[s]) = InGate(s)

DueOrdered == Ordered(dueOrder, Due)

(* A task that lives is registered under its key, which no other task can  *)
(* be as well.                                                             *)
Registered ==
    \A t \in Tasks :
        /\ ~At(t, "idle") => task[t].key \in Keys
        /\ task[t].phase \in Live => inflight[task[t].key] = t

(* Who is past the gate still holds it, and the gap before it is over.     *)
HoldersFirst ==
    \A t \in Tasks :
        task[t].phase \in {"sem", "request"} => Head(gate[Src(t)]) = t /\ Src(t) \in gapOver

Behind == {"gate", "sem", "request", "ingest"}

(* What the cooldown rests on: an entry without last_fetch_at belongs to a *)
(* task at work; an old one, in memory or as a row, of a key fetched       *)
(* lately is either lost or about to be overwritten; a task whose entry    *)
(* was pruned has no entry.                                                *)
Remembered ==
    /\ \A t \in Tasks : task[t].phase \in Behind /\ ~task[t].attached => state[task[t].key] = "none"
    /\ \A k \in Keys :
          /\ state[k] = "never" => \E t \in Tasks : task[t].phase \in Behind /\ task[t].key = k
          /\ k \in lately /\ state[k] = "old" => k \in lost
          /\ k \in lately /\ stored[k] = "old" =>
                k \in lost \/ \E t \in Tasks : At(t, "save") /\ task[t].key = k

IInv == Typed /\ GatesKept /\ DueOrdered /\ Registered /\ HoldersFirst /\ Remembered

LEMMA TypeParts == TypeOK <=> Typed /\ GatesKept /\ DueOrdered
BY DEF TypeOK, Typed, GatesKept, InGate, DueOrdered

----------------------------------------------------------------------------
(* Queues without repetition.                                              *)

(* A queue loses just its head when the head leaves.                       *)
LEMMA TailOfInjective ==
    ASSUME NEW S, NEW q \in Seq(S), q # << >>, IsInjective(q)
    PROVE  /\ Tail(q) \in Seq(S) /\ IsInjective(Tail(q))
           /\ Range(Tail(q)) = Range(q) \ {Head(q)}
<1>1. Len(q) \in Nat \ {0} /\ DOMAIN q = 1 .. Len(q) /\ Head(q) = q[1]
  OBVIOUS
<1>2. /\ Tail(q) \in Seq(S) /\ DOMAIN Tail(q) = 1 .. Len(q) - 1
      /\ \A i \in 1 .. Len(q) - 1 : Tail(q)[i] = q[i + 1]
  BY <1>1
<1>3. IsInjective(Tail(q))
  BY <1>1, <1>2 DEF IsInjective
<1>4. ASSUME NEW x \in Range(Tail(q)) PROVE x \in Range(q) \ {Head(q)}
  BY <1>1, <1>2, <1>4 DEF IsInjective, Range
<1>5. ASSUME NEW x \in Range(q), x # Head(q) PROVE x \in Range(Tail(q))
  <2>1. PICK i \in 1 .. Len(q) : q[i] = x
    BY <1>1 DEF Range
  <2>2. i - 1 \in 1 .. Len(q) - 1 /\ Tail(q)[i - 1] = x
    BY <1>1, <1>2, <1>5, <2>1
  <2>3. QED BY <1>2, <2>2 DEF Range
<1>6. QED BY <1>2, <1>3, <1>4, <1>5

(* A newcomer goes last, and a head there is stays the head.               *)
LEMMA AppendToInjective ==
    ASSUME NEW S, NEW q \in Seq(S), IsInjective(q), NEW x \in S \ Range(q)
    PROVE  /\ Append(q, x) \in Seq(S) /\ IsInjective(Append(q, x))
           /\ Range(Append(q, x)) = Range(q) \union {x}
           /\ q # << >> => Head(Append(q, x)) = Head(q)
<1>1. Len(q) \in Nat /\ DOMAIN q = 1 .. Len(q)
  OBVIOUS
<1>2. /\ Append(q, x) \in Seq(S) /\ DOMAIN Append(q, x) = 1 .. Len(q) + 1
      /\ \A i \in 1 .. Len(q) : Append(q, x)[i] = q[i]
      /\ Append(q, x)[Len(q) + 1] = x
  BY <1>1
<1>3. \A i \in 1 .. Len(q) : q[i] # x
  BY <1>1 DEF Range
<1>4. IsInjective(Append(q, x))
  BY <1>1, <1>2, <1>3 DEF IsInjective
<1>5. Range(Append(q, x)) = Range(q) \union {x}
  BY <1>1, <1>2 DEF Range
<1>6. q # << >> => Head(Append(q, x)) = Head(q)
  BY <1>1, <1>2
<1>7. QED BY <1>2, <1>4, <1>5, <1>6

----------------------------------------------------------------------------
(* What the creation of jobs does to tasks and registrations.              *)
LEMMA CreateJobsEffect ==
    ASSUME Typed, NEW wanted \in SUBSET Keys, NEW by \in {"loop", "refresh"},
           CreateJobs(wanted, by)
    PROVE  /\ \A t \in Tasks :
                 \/ task'[t] = task[t]
                 \/ /\ At(t, "idle")
                    /\ \E k \in wanted : /\ ~Joinable(k) /\ task'[t] = NewTask(k, by)
                                         /\ inflight'[k] = t
           /\ \A k \in Keys : inflight'[k] = inflight[k] \/ (~Joinable(k) /\ inflight'[k] \in Tasks)
           /\ \A k \in wanted : inflight'[k] \in Tasks
           /\ inflight' \in [Keys -> Tasks \union {NoTask}]
           /\ task' \in [Tasks -> Task]
<1> DEFINE new == {k \in wanted : ~Joinable(k)}
<1>1. PICK job \in [new -> {t \in Tasks : At(t, "idle")}] :
         /\ IsInjective(job)
         /\ task' = [t \in Tasks |-> IF t \in Range(job) THEN NewTask(AntiFunction(job)[t], by)
                                                         ELSE task[t]]
         /\ inflight' = [k \in Keys |-> IF k \in new THEN job[k] ELSE inflight[k]]
  BY DEF CreateJobs, At
<1>2. ASSUME NEW t \in Range(job) PROVE AntiFunction(job)[t] \in new /\ job[AntiFunction(job)[t]] = t
  BY DEF AntiFunction, Inverse, Range
<1>3. ASSUME NEW k \in new PROVE NewTask(k, by) \in Task
  BY DEF NewTask, Task, Live
<1>4. \A t \in Tasks :
         \/ task'[t] = task[t]
         \/ /\ At(t, "idle")
            /\ \E k \in wanted : ~Joinable(k) /\ task'[t] = NewTask(k, by) /\ inflight'[k] = t
  BY <1>1, <1>2 DEF Range
<1>5. task' \in [Tasks -> Task]
  BY <1>1, <1>2, <1>3 DEF Typed
<1>6. /\ \A k \in Keys : inflight'[k] = inflight[k] \/ (~Joinable(k) /\ inflight'[k] \in Tasks)
      /\ \A k \in wanted : inflight'[k] \in Tasks
      /\ inflight' \in [Keys -> Tasks \union {NoTask}]
  BY <1>1 DEF Typed, Joinable
<1>7. QED BY <1>4, <1>5, <1>6

----------------------------------------------------------------------------
(* The order needs no step when it does not change.                         *)
LEMMA OrderStays == ASSUME DueOrdered, dueOrder' = dueOrder PROVE DueOrdered'
BY DEF DueOrdered, Due

LEMMA InitIInv == Init => IInv
<1> SUFFICES ASSUME Init PROVE IInv
  OBVIOUS
<1> USE ConstantsAssumption DEF Init, NoWork
<1>1. Typed
  BY DEF Typed, Entry, Task, Live
<1>2. GatesKept
  BY DEF GatesKept, InGate, IsInjective, Range
<1>3. DueOrdered
  BY DEF DueOrdered, Ordered, Due
<1>4. Registered /\ HoldersFirst /\ Remembered
  BY DEF Registered, HoldersFirst, Remembered, Behind, At, Live
<1>5. QED BY <1>1, <1>2, <1>3, <1>4 DEF IInv

(* Jobs are created for keys of the source or of the symbol.               *)
LEMMA SelectedKeys == \A s : Selected(s) \subseteq Keys
BY DEF Selected, Unpolled, Waiting, KeysOf

(* A new job changes neither the queues nor what they hold, and it is the  *)
(* only one of its key: whoever lives is registered and joined.            *)
LEMMA NewJobs ==
    ASSUME IInv, NEW wanted \in SUBSET Keys, NEW by \in {"loop", "refresh"},
           CreateJobs(wanted, by),
           UNCHANGED <<rows, enabled, watch, state, dueOrder, gate, gapOver, elsewhere, pruning, lately>>,
           loop' \in [Sources -> Tasks \union {NoTask}]
    PROVE  IInv'
<1>1. /\ \A t \in Tasks :
            \/ task'[t] = task[t]
            \/ /\ At(t, "idle")
               /\ \E k \in wanted : /\ ~Joinable(k) /\ task'[t] = NewTask(k, by)
                                    /\ inflight'[k] = t
      /\ \A k \in Keys : inflight'[k] = inflight[k] \/ (~Joinable(k) /\ inflight'[k] \in Tasks)
      /\ inflight' \in [Keys -> Tasks \union {NoTask}]
      /\ task' \in [Tasks -> Task]
  BY CreateJobsEffect DEF IInv
<1>2. Typed'
  BY <1>1 DEF IInv, Typed, rows, pruning
<1>3. \A t \in Tasks : \/ task'[t] = task[t]
                       \/ At(t, "idle") /\ task'[t].phase = "start" /\ task'[t].key \in Keys
  BY <1>1 DEF NewTask
<1>4. GatesKept'
  <2>1. \A s : InGate(s)' = InGate(s)
    BY <1>3 DEF InGate, At
  <2>2. QED BY <2>1 DEF IInv, GatesKept
<1>5. DueOrdered'
  BY OrderStays DEF IInv
<1>6. ASSUME NEW t \in Tasks, task[t].phase \in Live PROVE Joinable(task[t].key)
  BY <1>6, ConstantsAssumption DEF IInv, Registered, Joinable, Live, At
<1>7. Registered'
  <2> SUFFICES ASSUME NEW t \in Tasks
               PROVE  /\ ~At(t, "idle")' => task'[t].key \in Keys
                      /\ task'[t].phase \in Live => inflight'[task'[t].key] = t
    BY DEF Registered, At
  <2>1. CASE task'[t] = task[t]
    BY <1>1, <1>6, <2>1 DEF IInv, Registered, At, Live
  <2>2. CASE task'[t] # task[t]
    BY <1>1, <2>2 DEF NewTask
  <2>3. QED BY <2>1, <2>2
<1>8. HoldersFirst'
  BY <1>3 DEF IInv, HoldersFirst, Src
<1>9. Remembered'
  BY <1>3 DEF IInv, Remembered, Behind, At, rows
<1>10. QED BY <1>2, <1>4, <1>5, <1>7, <1>8, <1>9 DEF IInv

----------------------------------------------------------------------------
(* The steps of a task.                                                    *)

(* An order stays one when keys leave it.                                  *)
LEMMA WithoutOrdered ==
    ASSUME DueOrdered, NEW keys, dueOrder' = Without(keys) PROVE DueOrdered'
<1>1. Due' = Due \ keys
  BY DEF Due, Without
<1>2. \A j, k : <<j, k>> \in dueOrder' <=> <<j, k>> \in dueOrder /\ j \notin keys /\ k \notin keys
  BY DEF Without
<1>3. dueOrder' \subseteq Due' \X Due'
  BY <1>1 DEF DueOrdered, Ordered, Without
<1>4. Ordered(dueOrder', Due')
  BY <1>1, <1>2, <1>3 DEF DueOrdered, Ordered
<1>5. QED BY <1>4 DEF DueOrdered

(* It stays one too when a key that comes due goes last in its source.     *)
LEMMA LastOrdered ==
    ASSUME NEW R, NEW K, Ordered(R, K), NEW k, k \notin K,
           NEW S, S = R \union (({j \in K : j[1] = k[1]} \union {k}) \X {k})
    PROVE  Ordered(S, K \union {k})
<1> DEFINE L == K \union {k}
<1>1. \A i, j : <<i, j>> \in S <=> <<i, j>> \in R \/ (j = k /\ (i = k \/ (i \in K /\ i[1] = k[1])))
  OBVIOUS
<1>2. ASSUME NEW i, NEW j, <<i, j>> \in R PROVE i \in K /\ j \in K /\ i[1] = j[1]
  <2>1. <<i, j>> \in K \X K
    BY <1>2 DEF Ordered
  <2>2. i \in K /\ j \in K
    BY <2>1
  <2>3. QED BY <2>2, <1>2 DEF Ordered
<1>3. S \subseteq L \X L
  BY DEF Ordered
<1>4. ASSUME NEW i \in L, NEW j \in L
      PROVE  /\ i[1] = j[1] => <<i, j>> \in S \/ <<j, i>> \in S
             /\ <<i, j>> \in S => i[1] = j[1]
             /\ <<i, j>> \in S /\ <<j, i>> \in S => i = j
  <2>1. CASE i = k \/ j = k
    BY <2>1, <1>1, <1>2
  <2>2. CASE i # k /\ j # k
    BY <2>2, <1>1 DEF Ordered
  <2>3. QED BY <2>1, <2>2
<1>5. ASSUME NEW i \in L, NEW j \in L, NEW l \in L, <<i, j>> \in S, <<j, l>> \in S
      PROVE  <<i, l>> \in S
  BY <1>1, <1>2, <1>5 DEF Ordered
<1>6. QED BY <1>3, <1>4, <1>5 DEF Ordered

(* A task knows its place: types a step of a task relies on.               *)
LEMMA TaskFacts ==
    ASSUME IInv, NEW t \in Tasks, ~At(t, "idle")
    PROVE  /\ task[t] \in Task /\ task[t].key \in Keys /\ Src(t) \in Sources
           /\ task[t].key = <<Src(t), task[t].key[2]>>
           /\ gate[Src(t)] \in Seq(Tasks) /\ IsInjective(gate[Src(t)])
           /\ Range(gate[Src(t)]) = InGate(Src(t))
           /\ task[t].phase \in Live => inflight[task[t].key] = t
           /\ \A u \in Tasks : task[t].phase \in Live /\ task[u].phase \in Live
                               /\ task[u].key = task[t].key => u = t
BY ConstantsAssumption DEF IInv, Registered, GatesKept, Typed, Src

LEMMA BeginStep == ASSUME IInv, NEW t \in Tasks, Begin(t) PROVE IInv'
<1> DEFINE k == task[t].key
           s == Src(t)
<1>1. /\ At(t, "start") /\ task[t] \in Task /\ k \in Keys /\ s \in Sources
      /\ gate[s] \in Seq(Tasks) /\ IsInjective(gate[s]) /\ Range(gate[s]) = InGate(s)
      /\ \A u \in Tasks : task[u].phase \in Live /\ task[u].key = k => u = t
  BY TaskFacts DEF Begin, At, Live
<1>2. /\ task' = [task EXCEPT ![t] = [task[t] EXCEPT !.phase = "gate", !.attached = TRUE]]
      /\ gate' = [gate EXCEPT ![s] = Append(@, t)]
      /\ state' = [state EXCEPT ![k] = IF @ = "none" THEN "never" ELSE @]
  BY DEF Begin, Src, Typed, IInv, Task
<1>3. /\ task'[t].phase = "gate" /\ task'[t].key = k /\ task'[t].attached
      /\ task'[t] \in Task /\ \A u \in Tasks \ {t} : task'[u] = task[u]
  BY <1>1, <1>2 DEF IInv, Typed, Task, Live
<1>4. t \in Tasks \ Range(gate[s])
  BY <1>1 DEF InGate, At
<1>5. /\ gate'[s] \in Seq(Tasks) /\ IsInjective(gate'[s])
      /\ Range(gate'[s]) = Range(gate[s]) \union {t}
      /\ gate[s] # << >> => Head(gate'[s]) = Head(gate[s])
      /\ \A r \in Sources \ {s} : gate'[r] = gate[r]
  BY <1>1, <1>2, <1>4, AppendToInjective DEF IInv, Typed
<1>6. Typed'
  BY <1>1, <1>2, <1>3, <1>5 DEF IInv, Typed, Begin, Entry, rows, pruning
<1>7. GatesKept'
  <2>1. \A r \in Sources : InGate(r)' = InGate(r) \union (IF r = s THEN {t} ELSE {})
    BY <1>3, <1>1 DEF InGate, Src, At
  <2>2. ASSUME NEW r \in Sources PROVE IsInjective(gate'[r]) /\ Range(gate'[r]) = InGate(r)'
    <3>1. CASE r = s
      BY <3>1, <2>1, <1>1, <1>5
    <3>2. CASE r # s
      BY <3>2, <2>1, <1>5 DEF GatesKept, IInv
    <3>3. QED BY <3>1, <3>2
  <2>3. QED BY <2>2 DEF GatesKept
<1>8. DueOrdered'
  BY OrderStays DEF Begin, IInv
<1>9. Registered'
  BY <1>1, <1>3 DEF Begin, IInv, Registered, At, Live
<1>10. HoldersFirst'
  <2> SUFFICES ASSUME NEW u \in Tasks, task'[u].phase \in {"sem", "request"}
               PROVE  Head(gate'[Src(u)']) = u /\ Src(u)' \in gapOver'
    BY DEF HoldersFirst, Src
  <2>1. u # t /\ task'[u] = task[u] /\ Src(u)' = Src(u) /\ Src(u) \in Sources
    BY <1>3, TaskFacts DEF Src, At
  <2>2. gate[Src(u)] # << >>
    BY <2>1 DEF IInv, GatesKept, InGate, Src, Range
  <2>3. QED BY <2>1, <2>2, <1>5 DEF IInv, HoldersFirst, Begin
<1>11. Remembered'
  <2>1. \A u \in Tasks : task'[u].phase \in Behind /\ ~task'[u].attached =>
                          u # t /\ task[u] = task'[u] /\ task[u].key # k
    BY <1>1, <1>3 DEF Behind, Live
  <2>2. \A j \in Keys : state'[j] = state[j] \/ (j = k /\ state'[j] = "never")
    BY <1>1, <1>2 DEF IInv, Typed
  <2>3. ASSUME NEW u \in Tasks, task'[u].phase \in Behind, ~task'[u].attached
        PROVE  state'[task'[u].key] = "none"
    <3>1. u # t /\ task[u] = task'[u] /\ task[u].key # k /\ task[u].key \in Keys
      BY <2>1, <2>3, TaskFacts DEF Behind, At
    <3>2. QED BY <3>1, <2>2, <2>3 DEF IInv, Remembered
  <2>4. ASSUME NEW j \in Keys, state'[j] = "never"
        PROVE  \E u \in Tasks : task'[u].phase \in Behind /\ task'[u].key = j
    <3>1. CASE j = k
      BY <3>1, <1>3 DEF Behind
    <3>2. CASE j # k
      <4>1. PICK u \in Tasks : task[u].phase \in Behind /\ task[u].key = j
        BY <3>2, <2>2, <2>4 DEF IInv, Remembered
      <4>2. u # t
        BY <4>1, <3>2
      <4>3. QED BY <4>1, <4>2, <1>3
    <3>3. QED BY <3>1, <3>2
  <2>5. ASSUME NEW j \in Keys, j \in lately'
        PROVE  /\ state'[j] = "old" => j \in lost'
               /\ stored'[j] = "old" =>
                     j \in lost' \/ \E u \in Tasks : task'[u].phase = "save" /\ task'[u].key = j
    <3>1. state'[j] = "old" => j \in lost'
      BY <2>2, <2>5 DEF IInv, Remembered, Begin, rows
    <3>2. stored'[j] = "old" =>
             j \in lost \/ \E u \in Tasks : At(u, "save") /\ task[u].key = j
      BY <2>5 DEF IInv, Remembered, Begin, rows
    <3>3. QED BY <3>1, <3>2, <1>1, <1>3 DEF At, Begin, rows
  <2>6. QED BY <2>3, <2>4, <2>5 DEF Remembered, At
<1>12. QED BY <1>6, <1>7, <1>8, <1>9, <1>10, <1>11 DEF IInv

(* Past the gate and at the remote the queues do not move.                 *)
LEMMA PaceStep == ASSUME IInv, NEW t \in Tasks, Pace(t) \/ AcquireSem(t) PROVE IInv'
<1>1. PICK from \in {"gate", "sem"}, to \in {"sem", "request"} :
         At(t, from) /\ task' = [task EXCEPT ![t].phase = to]
  BY DEF Pace, AcquireSem
<1>2. UNCHANGED <<rows, enabled, watch, state, dueOrder, inflight, gate, gapOver, elsewhere, loop,
                  pruning, lately>>
  BY DEF Pace, AcquireSem
<1>3. task[t] \in Task /\ task[t].phase = from
  BY <1>1, TaskFacts DEF At
<1>4. /\ task'[t].phase = to /\ task'[t].key = task[t].key /\ task'[t].attached = task[t].attached
      /\ task'[t] \in Task /\ \A u \in Tasks \ {t} : task'[u] = task[u]
  BY <1>1, <1>3 DEF IInv, Typed, Task, Live
<1>5. Typed'
  BY <1>1, <1>2, <1>4 DEF IInv, Typed, rows, pruning
<1>6. GatesKept'
  <2>1. \A s : InGate(s)' = InGate(s)
    BY <1>1, <1>3, <1>4 DEF InGate
  <2>2. QED BY <2>1, <1>2 DEF GatesKept, IInv
<1>7. DueOrdered'
  BY <1>2, OrderStays DEF IInv
<1>8. Registered'
  BY <1>1, <1>2, <1>3, <1>4 DEF IInv, Registered, At, Live
<1>9. HoldersFirst'
  BY <1>1, <1>2, <1>3, <1>4 DEF IInv, HoldersFirst, Src, At, Pace, AcquireSem
<1>10. Remembered'
  BY <1>1, <1>2, <1>3, <1>4 DEF IInv, Remembered, Behind, At, rows
<1>11. QED BY <1>5, <1>6, <1>7, <1>8, <1>9, <1>10 DEF IInv

(* The end of the try statement: a key just fetched has a recent entry, or *)
(* none if it was pruned, and its row is about to be written.              *)
LEMMA FinishEffect ==
    ASSUME IInv, NEW t \in Tasks, task[t].phase \in {"request", "ingest"}, NEW ok, Finish(t, ok),
           stored' = stored
    PROVE  /\ task' \in [Tasks -> Task] /\ state' \in [Keys -> Entry]
           /\ lost' \union lately' \subseteq Keys
           /\ task'[t].phase = "save" /\ task'[t].key = task[t].key
           /\ \A u \in Tasks \ {t} : task'[u] = task[u]
           /\ DueOrdered' /\ Remembered'
<1> DEFINE k == task[t].key
<1>1. /\ task[t] \in Task /\ k \in Keys /\ task[t].phase \in Behind
      /\ \A u \in Tasks : task[u].phase \in Live /\ task[u].key = k => u = t
  BY TaskFacts DEF At, Behind, Live
<1>2. /\ task'[t].phase = "save" /\ task'[t].key = k
      /\ task' \in [Tasks -> Task] /\ \A u \in Tasks \ {t} : task'[u] = task[u]
  BY <1>1 DEF Finish, IInv, Typed, Task, Live
<1>3. /\ \A j \in Keys \ {k} : state'[j] = state[j]
      /\ state'[k] \in {"recent", "none"}
      /\ state' \in [Keys -> Entry]
  BY <1>1 DEF Finish, IInv, Typed, Entry, Remembered
<1>4. lost' = lost \ {k} /\ lately' = lately \union {k} /\ lost' \union lately' \subseteq Keys
  BY <1>1 DEF Finish, IInv, Typed
<1>5. DueOrdered'
  <2>1. CASE task[t].attached
    BY <2>1, WithoutOrdered DEF Finish, IInv
  <2>2. CASE ~task[t].attached
    BY <2>2, OrderStays DEF Finish, IInv
  <2>3. QED BY <2>1, <2>2
<1>6. Remembered'
  <2>1. ASSUME NEW u \in Tasks, task'[u].phase \in Behind, ~task'[u].attached
        PROVE  state'[task'[u].key] = "none"
    <3>1. u # t /\ task'[u] = task[u]
      BY <1>2, <2>1 DEF Behind
    <3>2. task[u].key \in Keys \ {k}
      BY <3>1, <1>1, <2>1, TaskFacts DEF Behind, Live, At
    <3>3. QED BY <3>1, <3>2, <1>3, <2>1 DEF IInv, Remembered
  <2>2. ASSUME NEW j \in Keys, state'[j] = "never"
        PROVE  \E u \in Tasks : task'[u].phase \in Behind /\ task'[u].key = j
    <3>1. PICK u \in Tasks : task[u].phase \in Behind /\ task[u].key = j
      BY <1>3, <2>2 DEF IInv, Remembered
    <3>2. u # t
      BY <3>1, <1>3, <2>2
    <3>3. QED BY <3>1, <3>2, <1>2
  <2>3. ASSUME NEW j \in Keys, j \in lately', state'[j] = "old"
        PROVE  j \in lost'
    BY <1>3, <1>4, <2>3 DEF IInv, Remembered
  <2>4. ASSUME NEW j \in Keys, j \in lately', stored'[j] = "old"
        PROVE  j \in lost' \/ \E u \in Tasks : task'[u].phase = "save" /\ task'[u].key = j
    <3>1. CASE j = k
      BY <3>1, <1>2
    <3>2. CASE j # k
      <4>1. j \in lost \/ \E u \in Tasks : task[u].phase = "save" /\ task[u].key = j
        BY <3>2, <2>4, <1>4 DEF IInv, Remembered, At
      <4>2. QED BY <4>1, <3>2, <1>2, <1>4
    <3>3. QED BY <3>1, <3>2
  <2>5. QED BY <2>1, <2>2, <2>3, <2>4 DEF Remembered, At
<1>7. QED BY <1>2, <1>3, <1>4, <1>5, <1>6

(* The answer: the holder, who is the head of its gate, leaves it.         *)
LEMMA RespondStep == ASSUME IInv, NEW t \in Tasks, NEW ok \in BOOLEAN, Respond(t, ok) PROVE IInv'
<1> DEFINE s == Src(t)
<1>1. /\ At(t, "request") /\ task[t] \in Task /\ task[t].key \in Keys /\ s \in Sources
      /\ gate[s] \in Seq(Tasks) /\ IsInjective(gate[s]) /\ Range(gate[s]) = InGate(s)
  BY TaskFacts DEF Respond, At
<1>2. Head(gate[s]) = t /\ gate[s] # << >>
  BY <1>1 DEF IInv, HoldersFirst, At, InGate, Src, Range
<1>3. /\ UNCHANGED <<stored, restarts, enabled, watch, inflight, elsewhere, loop, pruning>>
      /\ gapOver' = gapOver \ {s} /\ gate' = [gate EXCEPT ![s] = Tail(@)]
  BY DEF Respond
<1>4. /\ task' \in [Tasks -> Task] /\ state' \in [Keys -> Entry]
      /\ lost' \union lately' \subseteq Keys
      /\ task'[t].phase \in {"ingest", "save"} /\ task'[t].key = task[t].key
      /\ \A u \in Tasks \ {t} : task'[u] = task[u]
      /\ DueOrdered' /\ Remembered'
  <2>1. CASE ok
    <3>1. /\ task' = [task EXCEPT ![t].phase = "ingest"]
          /\ UNCHANGED <<lost, state, dueOrder, lately>>
      BY <2>1 DEF Respond
    <3>2. /\ task'[t].phase = "ingest" /\ task'[t].key = task[t].key
          /\ task'[t].attached = task[t].attached
          /\ task' \in [Tasks -> Task] /\ \A u \in Tasks \ {t} : task'[u] = task[u]
      BY <3>1, <1>1 DEF IInv, Typed, Task, Live
    <3>3. DueOrdered'
      BY <3>1, OrderStays DEF IInv
    <3>4. Remembered'
      BY <3>1, <3>2, <1>1, <1>3 DEF IInv, Remembered, Behind, At
    <3>5. QED BY <3>1, <3>2, <3>3, <3>4 DEF IInv, Typed
  <2>2. CASE ~ok
    BY <2>2, <1>1, <1>3, FinishEffect DEF Respond, At
  <2>3. QED BY <2>1, <2>2
<1>5. /\ gate'[s] \in Seq(Tasks) /\ IsInjective(gate'[s]) /\ Range(gate'[s]) = Range(gate[s]) \ {t}
      /\ \A r \in Sources \ {s} : gate'[r] = gate[r]
  BY <1>1, <1>2, <1>3, TailOfInjective DEF IInv, Typed
<1>6. Typed'
  BY <1>3, <1>4, <1>5 DEF IInv, Typed, pruning
<1>7. GatesKept'
  <2>1. \A r \in Sources : InGate(r)' = InGate(r) \ (IF r = s THEN {t} ELSE {})
    BY <1>4, <1>1 DEF InGate, Src, At
  <2>2. ASSUME NEW r \in Sources PROVE IsInjective(gate'[r]) /\ Range(gate'[r]) = InGate(r)'
    <3>1. CASE r = s
      BY <3>1, <2>1, <1>1, <1>5
    <3>2. CASE r # s
      BY <3>2, <2>1, <1>5 DEF GatesKept, IInv
    <3>3. QED BY <3>1, <3>2
  <2>3. QED BY <2>2 DEF GatesKept
<1>8. Registered'
  BY <1>1, <1>3, <1>4 DEF IInv, Registered, At, Live
<1>9. HoldersFirst'
  <2> SUFFICES ASSUME NEW u \in Tasks, task'[u].phase \in {"sem", "request"}
               PROVE  Head(gate'[Src(u)']) = u /\ Src(u)' \in gapOver'
    BY DEF HoldersFirst, Src
  <2>1. u # t /\ task'[u] = task[u] /\ Src(u)' = Src(u) /\ Src(u) \in Sources
    BY <1>4, TaskFacts DEF Src, At
  <2>2. Head(gate[Src(u)]) = u /\ Src(u) \in gapOver
    BY <2>1 DEF IInv, HoldersFirst
  <2>3. Src(u) # s
    BY <2>1, <2>2, <1>2
  <2>4. QED BY <2>1, <2>2, <2>3, <1>3, <1>5
<1>10. QED BY <1>4, <1>6, <1>7, <1>8, <1>9 DEF IInv

(* A task that is off the gate moves on, or leaves: the gates stay.        *)
LEMMA OffGate ==
    ASSUME IInv, NEW t \in Tasks, ~At(t, "idle"),
           task[t].phase \notin {"gate", "sem", "request"},
           task'[t].phase \notin {"gate", "sem", "request"},
           \A u \in Tasks \ {t} : task'[u] = task[u],
           gate' = gate, gapOver' = gapOver
    PROVE  GatesKept' /\ HoldersFirst'
<1>1. GatesKept'
  <2>1. \A s \in Sources : InGate(s)' = InGate(s)
    BY DEF InGate
  <2>2. QED BY <2>1 DEF GatesKept, IInv
<1>2. HoldersFirst'
  BY DEF HoldersFirst, IInv, Src
<1>3. QED BY <1>1, <1>2

LEMMA IngestEndsStep ==
    ASSUME IInv, NEW t \in Tasks, NEW ok \in BOOLEAN, IngestEnds(t, ok) PROVE IInv'
<1>1. At(t, "ingest") /\ task[t].key \in Keys
  BY TaskFacts DEF IngestEnds, At
<1>2. /\ task' \in [Tasks -> Task] /\ state' \in [Keys -> Entry]
      /\ lost' \union lately' \subseteq Keys
      /\ task'[t].phase = "save" /\ task'[t].key = task[t].key
      /\ \A u \in Tasks \ {t} : task'[u] = task[u]
      /\ DueOrdered' /\ Remembered'
  BY <1>1, FinishEffect DEF IngestEnds, At
<1>3. Typed'
  BY <1>2 DEF IngestEnds, IInv, Typed, pruning
<1>4. GatesKept' /\ HoldersFirst'
  BY <1>1, <1>2, OffGate DEF IngestEnds, At
<1>5. Registered'
  BY <1>1, <1>2 DEF IngestEnds, IInv, Registered, At, Live
<1>6. QED BY <1>2, <1>3, <1>4, <1>5 DEF IInv

(* The row that is written is a recent one as long as the cooldown lasts.  *)
LEMMA SaveStep == ASSUME IInv, NEW t \in Tasks, SaveAndLog(t) PROVE IInv'
<1> DEFINE k == task[t].key
<1>1. /\ At(t, "save") /\ task[t] \in Task /\ k \in Keys
      /\ stored' = [stored EXCEPT ![k] = Row(k)] /\ task' = [task EXCEPT ![t].phase = "done"]
      /\ UNCHANGED <<restarts, lost, enabled, watch, state, dueOrder, inflight, gate, gapOver,
                      elsewhere, loop, pruning, lately>>
  BY TaskFacts DEF SaveAndLog, At
<1>2. /\ task'[t].phase = "done" /\ task'[t].key = k
      /\ task' \in [Tasks -> Task] /\ \A u \in Tasks \ {t} : task'[u] = task[u]
  BY <1>1 DEF IInv, Typed, Task, Live
<1>3. /\ stored' \in [Keys -> Entry \ {"never"}] /\ \A j \in Keys \ {k} : stored'[j] = stored[j]
      /\ k \in lately => stored'[k] # "old"
  BY <1>1 DEF IInv, Typed, Row, Entry
<1>4. Typed'
  BY <1>1, <1>2, <1>3 DEF IInv, Typed, pruning
<1>5. GatesKept' /\ HoldersFirst'
  BY <1>1, <1>2, OffGate DEF At
<1>6. DueOrdered' /\ Registered'
  BY <1>1, <1>2, OrderStays DEF IInv, Registered, At, Live
<1>7. Remembered'
  <2>1. \A u \in Tasks : task[u].phase \in Behind => u # t
    BY <1>1 DEF At, Behind
  <2>2. \A u \in Tasks : task'[u].phase \in Behind <=> task[u].phase \in Behind
    BY <1>1, <1>2 DEF At, Behind
  <2>3. ASSUME NEW j \in Keys, j \in lately, stored'[j] = "old"
        PROVE  j \in lost \/ \E u \in Tasks : task'[u].phase = "save" /\ task'[u].key = j
    <3>1. j # k
      BY <2>3, <1>3
    <3>2. j \in lost \/ \E u \in Tasks : task[u].phase = "save" /\ task[u].key = j
      BY <3>1, <2>3, <1>3 DEF IInv, Remembered, At
    <3>3. QED BY <3>1, <3>2, <1>2
  <2>4. \A j \in Keys : state[j] = "never" =>
           \E u \in Tasks : task'[u].phase \in Behind /\ task'[u].key = j
    BY <2>1, <2>2, <1>2 DEF IInv, Remembered
  <2>5. QED BY <2>1, <2>2, <2>3, <2>4, <1>1, <1>2 DEF IInv, Remembered, At
<1>8. QED BY <1>4, <1>5, <1>6, <1>7 DEF IInv

(* The callbacks of a task that is done touch nobody else's registration.  *)
LEMMA ReapStep == ASSUME IInv, NEW t \in Tasks, Reap(t) PROVE IInv'
<1> DEFINE k == task[t].key
<1>1. /\ At(t, "done") /\ k \in Keys /\ k[1] \in Sources
      /\ task' = [task EXCEPT ![t] = NoWork]
      /\ inflight' = [inflight EXCEPT ![k] = IF @ = t THEN NoTask ELSE @]
      /\ loop' = [loop EXCEPT ![k[1]] = IF @ = t THEN NoTask ELSE @]
      /\ UNCHANGED <<rows, enabled, watch, state, dueOrder, gate, gapOver, elsewhere, pruning, lately>>
  BY TaskFacts DEF Reap, At, Src
<1>2. /\ task'[t] = NoWork /\ task' \in [Tasks -> Task]
      /\ \A u \in Tasks \ {t} : task'[u] = task[u]
  BY <1>1 DEF IInv, Typed, Task, NoWork
<1>3. Typed'
  BY <1>1, <1>2 DEF IInv, Typed, pruning, rows
<1>4. GatesKept' /\ HoldersFirst'
  BY <1>1, <1>2, OffGate DEF At, NoWork
<1>5. DueOrdered'
  BY <1>1, OrderStays DEF IInv
<1>6. Registered'
  <2> SUFFICES ASSUME NEW u \in Tasks
               PROVE  /\ task'[u].phase # "idle" => task'[u].key \in Keys
                      /\ task'[u].phase \in Live => inflight'[task'[u].key] = u
    BY DEF Registered, At
  <2>1. CASE u = t
    BY <2>1, <1>2 DEF NoWork, Live
  <2>2. CASE u # t
    BY <2>2, <1>1, <1>2 DEF IInv, Registered, At, Live, Typed
  <2>3. QED BY <2>1, <2>2
<1>7. Remembered'
  <2>1. \A u \in Tasks : task'[u].phase \in Behind \union {"save"} => u # t /\ task'[u] = task[u]
    BY <1>2 DEF NoWork, Behind
  <2>2. \A u \in Tasks : task[u].phase \in Behind \union {"save"} => u # t /\ task'[u] = task[u]
    BY <1>1, <1>2 DEF At, Behind
  <2>3. QED BY <2>1, <2>2, <1>1 DEF IInv, Remembered, At, rows
<1>8. QED BY <1>3, <1>4, <1>5, <1>6, <1>7 DEF IInv

----------------------------------------------------------------------------
(* Maintenance, restarts and the environment.                              *)

(* Tasks, registrations and gates that stay keep what holds of them.       *)
LEMMA TasksStay ==
    ASSUME IInv, UNCHANGED <<task, inflight, gate>>, gapOver \subseteq gapOver'
    PROVE  GatesKept' /\ Registered' /\ HoldersFirst'
<1>1. \A s \in Sources : InGate(s)' = InGate(s)
  BY DEF InGate
<1>2. QED BY <1>1 DEF IInv, GatesKept, Registered, HoldersFirst, At, Src

(* What is forgotten about pruned keys is forgotten by their tasks too.    *)
LEMMA PruneRemoveStep == ASSUME IInv, PruneRemove PROVE IInv'
<1>1. /\ state' = [k \in Keys |-> IF k \in stale THEN "none" ELSE state[k]]
      /\ stored' = [k \in Keys |-> IF k \in stale THEN "none" ELSE stored[k]]
      /\ dueOrder' = Without(stale) /\ stale' = {}
      /\ UNCHANGED <<restarts, lost, prunes, enabled, watch, inflight, gate, gapOver, elsewhere, loop,
                      lately>>
  BY DEF PruneRemove
<1>2. /\ task' \in [Tasks -> Task]
      /\ \A t \in Tasks : /\ task'[t].phase = task[t].phase /\ task'[t].key = task[t].key
                          /\ task'[t].attached = task[t].attached \/ task[t].key \in stale
  <2>1. ASSUME NEW t \in Tasks
        PROVE  /\ task'[t] \in Task
               /\ task'[t].phase = task[t].phase /\ task'[t].key = task[t].key
               /\ task'[t].attached = task[t].attached \/ task[t].key \in stale
    <3>1. task[t] \in Task
      BY DEF IInv, Typed
    <3>2. task'[t] = IF task[t].key \in stale THEN [task[t] EXCEPT !.attached = FALSE] ELSE task[t]
      BY DEF PruneRemove
    <3>3. QED BY <3>1, <3>2 DEF Task
  <2>2. QED BY <2>1 DEF PruneRemove
<1>3. Typed'
  BY <1>1, <1>2 DEF IInv, Typed, Entry
<1>4. GatesKept' /\ Registered' /\ HoldersFirst'
  <2>1. \A s \in Sources : InGate(s)' = InGate(s)
    BY <1>2 DEF InGate
  <2>2. QED BY <2>1, <1>1, <1>2 DEF IInv, GatesKept, Registered, HoldersFirst, At, Src
<1>5. DueOrdered'
  BY <1>1, WithoutOrdered DEF IInv
<1>6. Remembered'
  <2>1. ASSUME NEW t \in Tasks, task'[t].phase \in Behind, ~task'[t].attached
        PROVE  state'[task'[t].key] = "none"
    <3>1. task[t].key \in Keys
      BY <2>1, <1>2, TaskFacts DEF Behind, At
    <3>2. QED BY <3>1, <2>1, <1>1, <1>2 DEF IInv, Remembered
  <2>2. ASSUME NEW k \in Keys
        PROVE  /\ state'[k] = "never" => \E t \in Tasks : task'[t].phase \in Behind /\ task'[t].key = k
               /\ k \in lately /\ state'[k] = "old" => k \in lost
               /\ k \in lately /\ stored'[k] = "old" =>
                     k \in lost \/ \E t \in Tasks : task'[t].phase = "save" /\ task'[t].key = k
    BY <1>1, <1>2 DEF IInv, Remembered, At
  <2>3. QED BY <2>1, <2>2, <1>1 DEF Remembered, At
<1>7. QED BY <1>3, <1>4, <1>5, <1>6 DEF IInv

(* A restart keeps the rows alone, and remembers whose row came too late.  *)
LEMMA RestartStep == ASSUME IInv, Restart PROVE IInv'
<1> USE DEF Restart, NoWork
<1>1. Typed'
  <2>1. lost' \subseteq Keys
    BY TaskFacts DEF IInv, Typed, At
  <2>2. QED BY <2>1, ConstantsAssumption DEF IInv, Typed, Entry, Task
<1>2. GatesKept'
  BY DEF GatesKept, InGate, IsInjective, Range
<1>3. DueOrdered'
  BY DEF DueOrdered, Ordered, Due
<1>4. Registered' /\ HoldersFirst'
  BY DEF Registered, HoldersFirst, At, Live
<1>5. Remembered'
  <2>1. \A k \in Keys : k \in lately /\ stored[k] = "old" => k \in lost'
    BY DEF IInv, Remembered
  <2>2. \A k \in Keys : stored[k] # "never" /\ stored'[k] \in {stored[k], "none"}
    BY DEF IInv, Typed
  <2>3. QED BY <2>1, <2>2 DEF Remembered, Behind, At
<1>6. QED BY <1>1, <1>2, <1>3, <1>4, <1>5 DEF IInv

(* Time passes over a key that was fetched.                                *)
LEMMA TimeStep ==
    ASSUME IInv, NEW k \in Keys, CooldownElapses(k) \/ ComesDue(k) PROVE IInv'
<1>1. GatesKept' /\ Registered' /\ HoldersFirst'
  BY TasksStay DEF CooldownElapses, ComesDue, rows
<1>2. CASE CooldownElapses(k)
  <2>1. Typed'
    BY <1>2 DEF IInv, Typed, CooldownElapses, Entry, pruning
  <2>2. DueOrdered'
    BY <1>2, OrderStays DEF IInv, CooldownElapses
  <2>3. Remembered'
    BY <1>2 DEF IInv, Remembered, CooldownElapses, Typed, At
  <2>4. QED BY <1>1, <2>1, <2>2, <2>3 DEF IInv
<1>3. CASE ComesDue(k)
  <2>1. Typed' /\ Remembered'
    BY <1>3 DEF IInv, Typed, Remembered, ComesDue, At, rows, pruning
  <2>2. Due' = Due \union {k} /\ k \notin Due
    BY <1>3 DEF ComesDue, Due
  <2>3. dueOrder' = dueOrder \union (({j \in Due : j[1] = k[1]} \union {k}) \X {k})
    BY <1>3 DEF ComesDue
  <2>4. Ordered(dueOrder', Due')
    BY <2>2, <2>3, LastOrdered DEF IInv, DueOrdered
  <2>5. QED BY <1>1, <2>1, <2>4 DEF IInv, DueOrdered
<1>4. QED BY <1>2, <1>3

(* Switches, watchlists, global sources, gaps and the selection to prune.  *)
LEMMA OutsideStep ==
    ASSUME IInv,
           \/ \E s \in Sources : set_enabled(s) \/ GapElapses(s)
           \/ \E y \in Symbols : Watch(y)
           \/ PruneSelect \/ GlobalAcquire \/ GlobalRelease \/ UNCHANGED vars
    PROVE  IInv'
<1>1. UNCHANGED <<state, stored, restarts, lost, lately, dueOrder, task, inflight, gate, loop>>
  BY DEF set_enabled, GapElapses, Watch, PruneSelect, GlobalAcquire, GlobalRelease, vars, rows, pruning
<1>2. gapOver \subseteq gapOver'
  BY DEF set_enabled, GapElapses, Watch, PruneSelect, GlobalAcquire, GlobalRelease, vars
<1>3. GatesKept' /\ Registered' /\ HoldersFirst'
  BY <1>1, <1>2, TasksStay
<1>4. DueOrdered' /\ Remembered'
  BY <1>1, OrderStays DEF IInv, Remembered, At
<1>5. /\ enabled' \subseteq Sources /\ watch' \subseteq Symbols /\ gapOver' \subseteq Sources
      /\ elsewhere' \in 0 .. OtherRuns /\ stale' \subseteq Keys /\ prunes' \in 0 .. MaxPrunes
  BY ConstantsAssumption DEF IInv, Typed, set_enabled, GapElapses, Watch, PruneSelect, GlobalAcquire,
                             GlobalRelease, vars, pruning
<1>6. Typed'
  BY <1>1, <1>5 DEF IInv, Typed
<1>7. QED BY <1>3, <1>4, <1>6 DEF IInv

----------------------------------------------------------------------------
LEMMA LoopStep == ASSUME IInv, NEW s \in Sources, _symbol_loop(s) PROVE IInv'
<1>1. PICK k \in Selected(s) : CreateJobs({k}, "loop") /\ loop' = [loop EXCEPT ![s] = inflight'[k]]
  BY DEF _symbol_loop
<1>2. {k} \in SUBSET Keys
  BY <1>1, SelectedKeys
<1>3. inflight'[k] \in Tasks
  BY <1>1, <1>2, CreateJobsEffect DEF IInv
<1>4. loop' \in [Sources -> Tasks \union {NoTask}]
  BY <1>1, <1>3 DEF IInv, Typed
<1>5. QED BY <1>1, <1>2, <1>4, NewJobs DEF _symbol_loop

LEMMA RefreshStep == ASSUME IInv, NEW y \in Symbols, refresh_symbol(y) PROVE IInv'
BY NewJobs DEF refresh_symbol, IInv, Typed

LEMMA StepIInv == IInv /\ [Next]_vars => IInv'
<1> SUFFICES ASSUME IInv, [Next]_vars PROVE IInv'
  OBVIOUS
<1>1. ASSUME NEW s \in Sources, _symbol_loop(s) PROVE IInv'
  BY <1>1, LoopStep
<1>2. ASSUME NEW y \in Symbols, refresh_symbol(y) PROVE IInv'
  BY <1>2, RefreshStep
<1>3. ASSUME NEW t \in Tasks, TaskStep(t) PROVE IInv'
  BY <1>3, BeginStep, PaceStep, RespondStep, IngestEndsStep, SaveStep, ReapStep DEF TaskStep
<1>4. CASE PruneRemove \/ Restart
  BY <1>4, PruneRemoveStep, RestartStep
<1>5. ASSUME NEW k \in Keys, CooldownElapses(k) \/ ComesDue(k) PROVE IInv'
  BY <1>5, TimeStep
<1>6. CASE \/ \E s \in Sources : set_enabled(s) \/ GapElapses(s)
           \/ \E y \in Symbols : Watch(y)
           \/ PruneSelect \/ GlobalAcquire \/ GlobalRelease \/ UNCHANGED vars
  BY <1>6, OutsideStep
<1>7. QED BY <1>1, <1>2, <1>3, <1>4, <1>5, <1>6 DEF Next

THEOREM SpecIInv == Spec => []IInv
BY InitIInv, StepIInv, PTL DEF Spec

(* Every reachable state is well typed, the gates hold just the tasks that *)
(* wait or work behind them, and the due keys of a source are ordered.     *)
THEOREM SpecTypeOK == Spec => []TypeOK
<1>1. IInv => TypeOK
  BY TypeParts DEF IInv
<1>2. QED BY <1>1, SpecIInv, PTL

(* _symbol_job: two tasks never fetch one symbol of one source.            *)
THEOREM SpecOneJobPerKey == Spec => []OneJobPerKey
<1>1. IInv => OneJobPerKey
  BY DEF IInv, Registered, OneJobPerKey
<1>2. QED BY <1>1, SpecIInv, PTL

(* _paced: one request of a source at a time, after its gap.               *)
THEOREM SpecPacedRequests == Spec => []PacedRequests
<1>1. IInv => PacedRequests
  BY DEF IInv, HoldersFirst, PacedRequests, At
<1>2. QED BY <1>1, SpecIInv, PTL

(* refresh_symbol creates a job for keys it does not know as recent.       *)
LEMMA StartsOnlyNew ==
    ASSUME IInv, [Next]_vars, NEW t \in Tasks, Starts(t)
    PROVE  task'[t].key \in Keys /\ ~Joinable(task'[t].key) /\ state[task'[t].key] # "recent"
<1> USE DEF Starts
<1>1. ASSUME NEW s \in Sources, _symbol_loop(s) PROVE FALSE
  <2>1. PICK k \in Selected(s) : CreateJobs({k}, "loop")
    BY <1>1 DEF _symbol_loop
  <2>2. {k} \in SUBSET Keys
    BY <2>1, SelectedKeys
  <2>3. \A u \in Tasks : \/ task'[u] = task[u]
                       \/ \E j \in {k} : task'[u] = NewTask(j, "loop")
    BY <2>1, <2>2, CreateJobsEffect DEF IInv
  <2>4. QED BY <2>3 DEF NewTask
<1>2. ASSUME NEW y \in Symbols, refresh_symbol(y)
      PROVE  task'[t].key \in Keys /\ ~Joinable(task'[t].key) /\ state[task'[t].key] # "recent"
  <2> DEFINE wanted == {k \in Keys : k[2] = y /\ k[1] \in enabled /\ state[k] # "recent"}
  <2>1. CreateJobs(wanted, "refresh") /\ wanted \in SUBSET Keys
    BY <1>2 DEF refresh_symbol
  <2>2. \E k \in wanted : ~Joinable(k) /\ task'[t] = NewTask(k, "refresh")
    BY <2>1, CreateJobsEffect DEF IInv
  <2>3. QED BY <2>2 DEF NewTask
<1>3. ASSUME NEW u \in Tasks, TaskStep(u) PROVE FALSE
  <2>1. task \in [Tasks -> Task]
    BY DEF IInv, Typed
  <2>2. QED BY <1>3, <2>1 DEF TaskStep, Begin, Pace, AcquireSem, Respond, IngestEnds, Finish, SaveAndLog,
                              Reap, NoWork, At, Task
<1>4. CASE PruneRemove
  <2>1. task[t] \in Task
    BY DEF IInv, Typed
  <2>2. task'[t].phase = task[t].phase
    BY <1>4, <2>1 DEF PruneRemove, Task
  <2>3. QED BY <2>2
<1>5. CASE \/ \E k \in Keys : CooldownElapses(k) \/ ComesDue(k)
           \/ \E s \in Sources : set_enabled(s) \/ GapElapses(s)
           \/ \E y \in Symbols : Watch(y)
           \/ PruneSelect \/ GlobalAcquire \/ GlobalRelease \/ UNCHANGED vars
  <2>1. task' = task
    BY <1>5 DEF CooldownElapses, ComesDue, set_enabled, GapElapses, Watch, PruneSelect, GlobalAcquire,
                GlobalRelease, vars
  <2>2. QED BY <2>1
<1>6. CASE Restart
  BY <1>6 DEF Restart, NoWork
<1>7. QED BY <1>1, <1>2, <1>3, <1>4, <1>5, <1>6 DEF Next

(* refresh_symbol: no second fetch inside a cooldown that was not          *)
(* forgotten.                                                              *)
THEOREM SpecCooldownUnlessForgotten == Spec => CooldownUnlessForgotten
<1>1. ASSUME IInv, [Next]_vars, NEW t \in Tasks, Starts(t)
      PROVE  LET k == task'[t].key IN k \notin lately \/ state[k] = "none" \/ k \in lost
  <2> DEFINE k == task'[t].key
  <2>1. k \in Keys /\ ~Joinable(k) /\ state[k] # "recent"
    BY <1>1, StartsOnlyNew
  <2>2. state[k] # "never"
    <3> SUFFICES ASSUME state[k] = "never" PROVE FALSE
      OBVIOUS
    <3>1. PICK u \in Tasks : task[u].phase \in Behind /\ task[u].key = k
      BY <1>1, <2>1 DEF IInv, Remembered
    <3>2. inflight[k] = u
      BY <1>1, <3>1 DEF IInv, Registered, Behind, Live
    <3>3. QED BY <2>1, <3>1, <3>2, ConstantsAssumption DEF Joinable, Behind
  <2>3. state[k] \in {"none", "old"}
    BY <1>1, <2>1, <2>2 DEF IInv, Typed, Entry
  <2>4. QED BY <1>1, <2>1, <2>3 DEF IInv, Remembered
<1>2. IInv /\ [Next]_vars =>
         [\A t \in Tasks : Starts(t) => LET k == task'[t].key IN
              k \notin lately \/ state[k] = "none" \/ k \in lost]_vars
  BY <1>1
<1>3. QED BY <1>2, SpecIInv, PTL DEF Spec, CooldownUnlessForgotten
=============================================================================
