-------------------------- MODULE MaintenanceProofs --------------------------
(***************************************************************************)
(* Safety of the backups for every number of days, of backups kept and of  *)
(* failures: the newest backups survive every rotation, copies are left    *)
(* only by jobs that broke, and a day that was looked at has its backup or *)
(* broke.                                                                  *)
(***************************************************************************)
EXTENDS Maintenance, FiniteSetTheorems, TLAPS

Typed ==
    /\ day \in Days /\ today \in Days
    /\ date \in 0 .. LastDay
    /\ pc \in Jobs \union {"startup", "sleep", "health", "send", "daily"}
    /\ raw \union tmp \union gz \union done \union broken \union checked \subseteq Days

(* The files in the course of a backup.                                    *)
CopiesInWork ==
    /\ raw \subseteq broken \union (IF pc \in {"compress", "replace", "unlink"} THEN {today} ELSE {})
    /\ tmp \subseteq broken \union (IF pc = "replace" THEN {today} ELSE {})

(* Nothing but completed backups is kept, the newest ones among them.      *)
NewestKept == gz \subseteq done /\ Newest(done) \subseteq gz

Settled(d) == d \in done \union broken \/ (pc \in Jobs /\ today = d)

(* A day that was looked at, or whose jobs have been started, is settled;  *)
(* once the backup has replaced its temporary file the day is done.        *)
DaysSettled ==
    Keep # 0 =>
        /\ \A d \in checked \union ({date} \ {0}) : Settled(d)
        /\ pc \in {"unlink", "rotate", "refresh"} => today \in done

IInv == Typed /\ CopiesInWork /\ NewestKept /\ DaysSettled

----------------------------------------------------------------------------
(* Newest.                                                                 *)

(* Fewer days, fewer newer ones.                                           *)
LEMMA FewerNewer ==
    ASSUME NEW B \in SUBSET Days, NEW A \in SUBSET B, NEW d
    PROVE  /\ Cardinality({e \in A : e > d}) \in Nat
           /\ Cardinality({e \in B : e > d}) \in Nat
           /\ Cardinality({e \in A : e > d}) <= Cardinality({e \in B : e > d})
<1>1. IsFiniteSet(Days)
  BY FS_Interval, ConstantsAssumption DEF Days
<1>2. IsFiniteSet({e \in B : e > d}) /\ {e \in A : e > d} \subseteq {e \in B : e > d}
  BY <1>1, FS_Subset
<1>3. QED BY <1>2, FS_Subset, FS_CardinalityType

(* What is among the newest of a set is so in every part that has it.      *)
LEMMA NewestOfPart ==
    ASSUME NEW B \in SUBSET Days, NEW A \in SUBSET B
    PROVE  Newest(B) \intersect A \subseteq Newest(A)
<1> SUFFICES ASSUME NEW d \in A, d \in Newest(B) PROVE d \in Newest(A)
  OBVIOUS
<1> DEFINE newer(C) == Cardinality({e \in C : e > d})
<1>1. newer(B) < Keep
  BY DEF Newest
<1>2. newer(A) \in Nat /\ newer(B) \in Nat /\ newer(A) <= newer(B)
  BY FewerNewer
<1>3. newer(A) < Keep
  <2> HIDE DEF newer
  <2> QED BY <1>1, <1>2, ConstantsAssumption
<1>4. QED BY <1>3 DEF Newest

----------------------------------------------------------------------------
LEMMA InitIInv == Init => IInv
<1> SUFFICES ASSUME Init PROVE IInv
  OBVIOUS
<1> USE ConstantsAssumption DEF Init
<1>1. Typed /\ CopiesInWork /\ DaysSettled
  BY DEF Typed, Days, CopiesInWork, DaysSettled, Jobs
<1>2. NewestKept
  BY DEF NewestKept, Newest
<1>3. QED BY <1>1, <1>2 DEF IInv

(* The clock, the health and their messages do not touch the backups.      *)
LEMMA OtherStep ==
    ASSUME IInv,
           Tick \/ Flip \/ Turn \/ CheckHealth \/ (\E delivered \in BOOLEAN : Send(delivered))
           \/ SendRaises \/ UNCHANGED vars
    PROVE  IInv'
<1> USE DEF Tick, Flip, Turn, CheckHealth, Send, SendRaises, vars, clock, files, alert, history
<1>1. /\ UNCHANGED <<today, date, raw, tmp, gz, done, broken, checked>>
      /\ pc' = pc \/ (pc \notin Jobs /\ pc' \in {"sleep", "health", "send", "daily"})
  BY DEF Jobs
<1>2. day' \in Days
  BY ConstantsAssumption DEF IInv, Typed, Days
<1>3. Typed'
  BY ONLY <1>1, <1>2, IInv DEF IInv, Typed, Jobs
<1>4. CopiesInWork'
  BY ONLY <1>1, IInv DEF IInv, CopiesInWork, Jobs
<1>5. NewestKept'
  BY ONLY <1>1, IInv DEF IInv, NewestKept, Newest
<1>6. DaysSettled'
  BY ONLY <1>1, IInv DEF IInv, DaysSettled, Settled, Jobs
<1>7. QED BY <1>3, <1>4, <1>5, <1>6 DEF IInv

(* A day whose date is written already has been settled.                   *)
LEMMA CheckDailyStep == ASSUME IInv, CheckDaily PROVE IInv'
<1>1. /\ pc = "daily" /\ UNCHANGED <<day, raw, tmp, gz, done, broken>>
      /\ \/ Due /\ pc' = "purge" /\ today' = day /\ date' = day
         \/ ~Due /\ pc' = "sleep" /\ today' = today /\ date' = date
      /\ checked' = IF hour = 1 THEN checked \union {day} ELSE checked
  BY DEF CheckDaily, clock, files
<1>2. Typed'
  BY <1>1 DEF IInv, Typed, Days, Jobs
<1>3. CopiesInWork' /\ NewestKept'
  BY <1>1 DEF IInv, CopiesInWork, NewestKept, Newest, Jobs
<1>4. DaysSettled'
  <2> SUFFICES ASSUME Keep # 0
               PROVE  /\ \A d \in checked' \union ({date'} \ {0}) : Settled(d)'
                      /\ pc' \notin {"unlink", "rotate", "refresh"}
    BY DEF DaysSettled
  <2>1. \A d \in checked \union ({date} \ {0}) : d \in done \union broken
    BY <1>1 DEF IInv, DaysSettled, Settled, Jobs
  <2>2. CASE Due
    BY <2>1, <2>2, <1>1 DEF Settled, Jobs, Due
  <2>3. CASE ~Due
    <3>1. hour = 1 => date = day /\ day # 0
      BY <2>3 DEF Due, IInv, Typed, Days
    <3>2. QED BY <2>1, <2>3, <3>1, <1>1 DEF Settled
  <2>4. QED BY <2>2, <2>3
<1>5. QED BY <1>2, <1>3, <1>4 DEF IInv

(* A completed backup enters, and pushes out only older ones.              *)
LEMMA ReplaceStep == ASSUME IInv, Replace PROVE IInv'
<1>1. /\ pc = "replace" /\ pc' = "unlink" /\ UNCHANGED <<day, today, date, raw, broken, checked>>
      /\ tmp' = tmp \ {today} /\ gz' = gz \union {today} /\ done' = done \union {today}
  BY DEF Replace, Step, clock
<1>2. Typed'
  BY <1>1 DEF IInv, Typed, Jobs
<1>3. CopiesInWork'
  BY <1>1 DEF IInv, CopiesInWork
<1>4. NewestKept'
  <2>1. Newest(done') \subseteq Newest(done) \union {today}
    <3>1. done' \in SUBSET Days /\ done \in SUBSET done'
      BY <1>1, <1>2 DEF Typed
    <3>2. Newest(done') \intersect done \subseteq Newest(done)
      BY <3>1, NewestOfPart
    <3>3. Newest(done') \subseteq done'
      BY DEF Newest
    <3>4. QED BY <3>2, <3>3, <1>1
  <2>2. Newest(done)' = Newest(done')
    BY DEF Newest
  <2>3. QED BY <2>1, <2>2, <1>1 DEF IInv, NewestKept
<1>5. DaysSettled'
  BY <1>1 DEF IInv, DaysSettled, Settled, Jobs
<1>6. QED BY <1>2, <1>3, <1>4, <1>5 DEF IInv

(* The rotation counts the backups there are, which are no more than those *)
(* ever completed.                                                         *)
LEMMA RotateStep == ASSUME IInv, Rotate PROVE IInv'
<1>1. /\ pc = "rotate" /\ pc' = "refresh" /\ gz' = Newest(gz)
      /\ UNCHANGED <<day, today, date, raw, tmp, done, broken, checked>>
  BY DEF Rotate, Step, clock
<1>2. gz' \subseteq gz
  BY <1>1 DEF Newest
<1>3. Typed'
  BY <1>1, <1>2 DEF IInv, Typed, Jobs
<1>4. CopiesInWork' /\ DaysSettled'
  BY <1>1 DEF IInv, CopiesInWork, DaysSettled, Settled, Jobs
<1>5. NewestKept'
  <2>1. done \in SUBSET Days /\ gz \in SUBSET done
    BY DEF IInv, Typed, NewestKept
  <2>2. Newest(done) \subseteq Newest(gz)
    BY <2>1, NewestOfPart DEF IInv, NewestKept
  <2>3. Newest(done)' = Newest(done)
    BY <1>1 DEF Newest
  <2>4. QED BY <2>1, <2>2, <2>3, <1>1, <1>2 DEF NewestKept
<1>6. QED BY <1>3, <1>4, <1>5 DEF IInv

(* The other jobs.                                                         *)
LEMMA WorkStep ==
    ASSUME IInv, Purge \/ Prune \/ Copy \/ Compress \/ Unlink \/ Refresh PROVE IInv'
<1> USE DEF Purge, Prune, Copy, Compress, Unlink, Refresh, Step, clock, files
<1>1. UNCHANGED <<day, today, date, gz, done, broken, checked>> /\ pc \in Jobs
  BY DEF Jobs
<1>2. CopiesInWork'
  BY DEF IInv, CopiesInWork
<1>3. Typed'
  BY DEF IInv, Typed, Jobs
<1>4. NewestKept'
  BY ONLY <1>1, IInv DEF IInv, NewestKept, Newest
<1>5. DaysSettled'
  BY DEF IInv, DaysSettled, Settled, Jobs
<1>6. QED BY <1>2, <1>3, <1>4, <1>5 DEF IInv

(* A job that fails or is cut off breaks its day, unless the backup of the *)
(* day is complete.                                                        *)
LEMMA BreakStep == ASSUME IInv, JobFails \/ Restart PROVE IInv'
<1>1. /\ UNCHANGED <<day, today, date, gz, done, checked>> /\ broken' = Breaks /\ Leavings
      /\ pc' \in {"sleep", "startup"}
  BY DEF JobFails, Restart, clock
<1>2. Typed'
  BY <1>1 DEF IInv, Typed, Breaks, Leavings
<1>3. CopiesInWork'
  BY <1>1 DEF IInv, CopiesInWork, Breaks, Leavings, Jobs
<1>4. NewestKept'
  BY <1>1 DEF IInv, NewestKept, Newest
<1>5. DaysSettled'
  BY <1>1 DEF IInv, DaysSettled, Settled, Breaks, Jobs
<1>6. QED BY <1>2, <1>3, <1>4, <1>5 DEF IInv

LEMMA StepIInv == IInv /\ [Next]_vars => IInv'
BY OtherStep, CheckDailyStep, ReplaceStep, RotateStep, WorkStep, BreakStep DEF Next, Work

THEOREM SpecIInv == Spec => []IInv
BY InitIInv, StepIInv, PTL DEF Spec

(* backup and its rotation: the newest Keep backups ever completed are     *)
(* there, and raw or temporary copies are left only by days that broke.    *)
THEOREM SpecFilesAccountedFor == Spec => []FilesAccountedFor
<1>1. IInv => FilesAccountedFor
  BY DEF IInv, NewestKept, CopiesInWork, FilesAccountedFor, Jobs
<1>2. QED BY <1>1, SpecIInv, PTL

(* _daily_jobs: no day is passed over silently.                            *)
THEOREM SpecBackupOrCause == Spec => []BackupOrCause
<1>1. IInv => BackupOrCause
  BY DEF IInv, DaysSettled, Settled, BackupOrCause
<1>2. QED BY <1>1, SpecIInv, PTL
=============================================================================
