----------------------------- MODULE Maintenance -----------------------------
(***************************************************************************)
(* The maintenance loop of newsserver/scheduler.py: the startup jobs, then *)
(* once a minute the health alert and the daily jobs, with the backups and *)
(* their rotation.  What the purge, the pruning and the refresh of the     *)
(* directory do is in ArticleStore, SymbolFetch and TagIndex.              *)
(*                                                                         *)
(* Abstractions: a day has hours before, at and after MAINTENANCE_HOUR     *)
(* (0, 1, 2); the health of the sources changes at any time; the weekly    *)
(* vacuum is part of the pruning step; a file is named by its day.         *)
(***************************************************************************)
EXTENDS Naturals, FiniteSets

CONSTANTS
    Keep,           \* BACKUP_KEEP
    LastDay,        \* bound: days
    MaxFailures,    \* bound: failed steps and restarts
    MaxFlips        \* bound: changes of health

ASSUME ConstantsAssumption ==
    /\ Keep \in Nat /\ LastDay \in Nat \ {0}
    /\ MaxFailures \in Nat /\ MaxFlips \in Nat

VARIABLES
    day, hour,      \* local_now
    sick,           \* health() finds problems
    pc,             \* where the loop is
    today,          \* the day whose jobs run
    date,           \* meta maintenance_date, 0 at first
    raw, tmp, gz,   \* files news-<day>.db, .db.gz.tmp and .db.gz
    status,         \* _health_status
    news,           \* the status about to be sent
    told,           \* the last message that has been delivered
    failures, flips,\* for the bounds
    done,           \* history: days whose backup was completed
    broken,         \* history: days whose jobs failed or were cut off
    checked,        \* history: days on which the loop looked at the clock in the hour
    silenced        \* history: a message was lost, or a restart forgot an alert

clock   == <<day, hour>>
files   == <<raw, tmp, gz>>
alert   == <<status, news, told, silenced>>
history == <<done, broken, checked>>
vars    == <<clock, sick, pc, today, date, files, alert, failures, flips, history>>

Days == 1 .. LastDay
Jobs == {"purge", "prune", "copy", "compress", "replace", "unlink", "rotate", "refresh"}

Init ==
    /\ day = 1 /\ hour = 0
    /\ sick = FALSE
    /\ pc = "startup"
    /\ today = 1 /\ date = 0
    /\ raw = {} /\ tmp = {} /\ gz = {}
    /\ status = FALSE /\ news = FALSE /\ told = FALSE
    /\ failures = 0 /\ flips = 0
    /\ done = {} /\ broken = {} /\ checked = {}
    /\ silenced = FALSE

Tick ==
    /\ IF hour < 2 THEN hour' = hour + 1 /\ day' = day
                   ELSE hour' = 0 /\ day < LastDay /\ day' = day + 1
    /\ UNCHANGED <<sick, pc, today, date, files, alert, failures, flips, history>>

Flip ==
    /\ flips < MaxFlips /\ flips' = flips + 1
    /\ sick' = ~sick
    /\ UNCHANGED <<clock, pc, today, date, files, alert, failures, history>>

Failure == failures < MaxFailures /\ failures' = failures + 1

----------------------------------------------------------------------------
(* _maintenance_loop.                                                      *)

(* The startup jobs are over, the last one failed or not; a minute is over.*)
Turn ==
    /\ pc \in {"startup", "sleep"}
    /\ pc' = "health"
    /\ UNCHANGED <<clock, sick, today, date, files, alert, failures, flips, history>>

(* _check_health_transition.                                               *)
CheckHealth ==
    /\ pc = "health"
    /\ pc' = IF sick = status THEN "daily" ELSE "send"
    /\ news' = sick
    /\ UNCHANGED <<clock, sick, today, date, files, status, told, silenced, failures, flips, history>>

(* Mutant: the status is read again after the message.                     *)
StatusAfterSend_Now == sick

StatusAfterSend == news

(* Notifier.send: the message is delivered or, when Telegram does not      *)
(* answer, lost; either way the status counts as reported.                 *)
Send(delivered) ==
    /\ pc = "send"
    /\ ~delivered => Failure
    /\ delivered => UNCHANGED failures
    /\ told' = IF delivered THEN news ELSE told
    /\ silenced' = ~delivered
    /\ status' = StatusAfterSend
    /\ pc' = "daily"
    /\ UNCHANGED <<clock, sick, today, date, files, news, flips, history>>

(* Any other error of send ends this turn of the loop, daily jobs included.*)
SendRaises ==
    /\ pc = "send" /\ Failure
    /\ pc' = "sleep"
    /\ UNCHANGED <<clock, sick, today, date, files, alert, flips, history>>

(* Mutant: a day after a maintenance day is no maintenance day.            *)
Due_SkipsDay == hour = 1 /\ day > date + (IF date = 0 THEN 0 ELSE 1)

Due == hour = 1 /\ date # day

(* _daily_jobs: the date is written before the jobs.                       *)
CheckDaily ==
    /\ pc = "daily"
    /\ pc' = IF Due THEN "purge" ELSE "sleep"
    /\ today' = IF Due THEN day ELSE today
    /\ date' = IF Due THEN day ELSE date
    /\ checked' = IF hour = 1 THEN checked \union {day} ELSE checked
    /\ UNCHANGED <<clock, sick, files, alert, failures, flips, done, broken>>

----------------------------------------------------------------------------
(* The jobs of a day and the steps of backup, in order.                    *)

Step(from, to) ==
    /\ pc = from /\ pc' = to
    /\ UNCHANGED <<clock, sick, today, date, alert, failures, flips, broken, checked>>

Purge == Step("purge", "prune") /\ UNCHANGED <<files, done>>

Prune == Step("prune", IF Keep = 0 THEN "refresh" ELSE "copy") /\ UNCHANGED <<files, done>>

(* Database.backup writes the raw copy.                                    *)
Copy == Step("copy", "compress") /\ raw' = raw \union {today} /\ UNCHANGED <<tmp, gz, done>>

(* _gzip_file: a temporary file, renamed when it is complete.              *)
Compress == Step("compress", "replace") /\ tmp' = tmp \union {today} /\ UNCHANGED <<raw, gz, done>>

Replace ==
    /\ Step("replace", "unlink")
    /\ tmp' = tmp \ {today} /\ gz' = gz \union {today}
    /\ done' = done \union {today}
    /\ UNCHANGED raw

(* Mutant: the raw copy is left.                                           *)
Unlink_Forgotten == Step("unlink", "rotate") /\ UNCHANGED <<files, done>>

Unlink == Step("unlink", "rotate") /\ raw' = raw \ {today} /\ UNCHANGED <<tmp, gz, done>>

Newest(days) == {d \in days : Cardinality({e \in days : e > d}) < Keep}

(* Mutant: files are counted with the one of a day that has no backup.     *)
Rotate_KeepsDates == Step("rotate", "refresh") /\ gz' = {d \in gz : d > today - Keep + 1} /\ UNCHANGED <<raw, tmp, done>>

Rotate == Step("rotate", "refresh") /\ gz' = Newest(gz) /\ UNCHANGED <<raw, tmp, done>>

Refresh == Step("refresh", "sleep") /\ UNCHANGED <<files, done>>

(* Before the rotation an end of the jobs breaks the day.                  *)
Breaks == IF pc \in Jobs \ {"rotate", "refresh"} THEN broken \union {today} ELSE broken

(* What a copy or a compression that fails has written so far stays.       *)
Leavings ==
    /\ raw' = IF pc = "copy" THEN raw \union {today} ELSE raw
    /\ tmp' = IF pc = "compress" THEN tmp \union {today} ELSE tmp

(* A job fails: the rest of the jobs is left for the next day.             *)
JobFails ==
    /\ pc \in Jobs /\ Failure
    /\ broken' = Breaks /\ Leavings
    /\ pc' = "sleep"
    /\ UNCHANGED <<clock, sick, today, date, gz, alert, flips, done, checked>>

(* A crash anywhere and the start after it, which knows of no alert.       *)
Restart ==
    /\ Failure
    /\ broken' = Breaks /\ Leavings
    /\ pc' = "startup"
    /\ status' = FALSE /\ news' = FALSE
    /\ silenced' = (silenced \/ told)
    /\ UNCHANGED <<clock, sick, today, date, gz, told, flips, done, checked>>

Work == Purge \/ Prune \/ Copy \/ Compress \/ Replace \/ Unlink \/ Rotate \/ Refresh

Next ==
    \/ Tick \/ Flip
    \/ Turn \/ CheckHealth \/ (\E delivered \in BOOLEAN : Send(delivered)) \/ SendRaises \/ CheckDaily
    \/ Work \/ JobFails \/ Restart

(* The loop goes on: its sleeps, requests and jobs end.                    *)
Fairness == WF_vars(Turn \/ CheckHealth \/ Send(TRUE) \/ CheckDaily \/ Work)

Spec == Init /\ [][Next]_vars /\ Fairness

----------------------------------------------------------------------------
(* Properties.                                                             *)

(* The newest Keep of all backups ever completed are there, whatever days  *)
(* failed, were cut off or missed; raw and temporary copies, each as large *)
(* as the database, are left only by jobs that failed or were cut off.     *)
FilesAccountedFor ==
    /\ Newest(done) \subseteq gz
    /\ raw \union tmp \subseteq broken \union (IF pc \in Jobs THEN {today} ELSE {})

(* A past day has its backup, or its jobs broke or are still running, or   *)
(* the loop did not come round in the hour.                                *)
BackupOrCause ==
    Keep = 0 \/ \A d \in 1 .. day - 1 :
        d \in done \union broken \/ d \notin checked \/ (pc \in Jobs /\ today = d)

(* A state of health that lasts is the one last told, unless its message   *)
(* was lost or an alert from before a restart was never taken back.        *)
LastingChangeTold ==
    /\ <>[]sick => []<>(told \/ silenced)
    /\ <>[]~sick => []<>(~told \/ silenced)
=============================================================================
