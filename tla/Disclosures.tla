----------------------------- MODULE Disclosures ----------------------------
(***************************************************************************)
(* DartCollector of newsserver/collectors/dart.py with the run that stores *)
(* what it returns (Scheduler._run_source, see SourcePolling): the list of *)
(* today's disclosures is read newest first, page by page, while it grows, *)
(* and receipt numbers seen today are skipped.                             *)
(*                                                                         *)
(* Abstractions: a receipt number is the day and 1, 2, 3, ... in order of  *)
(* filing, and seen holds the second part, its numbers being of seenDay    *)
(* only; one run at a time (SourcePolling.OneRunPerSource); articles are   *)
(* not purged, so what is stored twice is stored once.                     *)
(***************************************************************************)
EXTENDS Naturals, FiniteSets

CONSTANTS
    PageCount,      \* option page_count
    MaxPages,       \* option max_pages
    MaxFiled,       \* bound: disclosures of a day
    LastDay,        \* bound: days
    MaxFailures     \* bound: failed requests, failed ingests and restarts

ASSUME ConstantsAssumption ==
    /\ PageCount \in Nat \ {0} /\ MaxPages \in Nat \ {0}
    /\ MaxFiled \in Nat /\ LastDay \in Nat \ {0} /\ MaxFailures \in Nat

VARIABLES
    day,        \* the date in Seoul
    filed,      \* how many disclosures DART lists for every day
    seenDay,    \* _seen_day, 0 at first
    seen,       \* _seen
    run,        \* the fetch: its phase, today, the next page, its items
    stored,     \* committed articles: day and number
    failures,   \* for the bound
    lost,       \* history: disclosures of a failed ingest
    beyond      \* history: disclosures left out at the page limit

vars == <<day, filed, seenDay, seen, run, stored, failures, lost, beyond>>

NoRun == [phase |-> "idle", today |-> 0, page |-> 0, items |-> {}, listed |-> 0]

Init ==
    /\ day = 1 /\ filed = [d \in 1 .. LastDay |-> 0]
    /\ seenDay = 0 /\ seen = {}
    /\ run = NoRun
    /\ stored = {}
    /\ failures = 0
    /\ lost = {} /\ beyond = {}

Numbered(d, numbers) == {d} \X numbers

----------------------------------------------------------------------------
(* DART.                                                                   *)

File ==
    /\ filed[day] < MaxFiled
    /\ filed' = [filed EXCEPT ![day] = @ + 1]
    /\ UNCHANGED <<day, seenDay, seen, run, stored, failures, lost, beyond>>

Midnight ==
    /\ day < LastDay
    /\ day' = day + 1
    /\ UNCHANGED <<filed, seenDay, seen, run, stored, failures, lost, beyond>>

(* Page p of the list of the day, newest first, and the number of pages.   *)
Page(d, p) == {n \in 1 .. filed[d] : (filed[d] - n) \div PageCount = p - 1}
TotalPage(d) == (filed[d] + PageCount - 1) \div PageCount

----------------------------------------------------------------------------
(* fetch.                                                                  *)

(* Mutant: the day of the first fetch is kept.                             *)
StartFetch_DayKept ==
    LET today == IF seenDay = 0 THEN day ELSE seenDay IN
    /\ run.phase = "idle"
    /\ seenDay' = today
    /\ seen' = IF seenDay = today THEN seen ELSE {}
    /\ run' = [NoRun EXCEPT !.phase = "page", !.today = today, !.page = 1, !.listed = filed[today]]
    /\ UNCHANGED <<day, filed, stored, failures, lost, beyond>>

(* The day is read once; on a new day nothing has been seen.               *)
StartFetch ==
    /\ run.phase = "idle"
    /\ seenDay' = day
    /\ seen' = IF seenDay = day THEN seen ELSE {}
    /\ run' = [NoRun EXCEPT !.phase = "page", !.today = day, !.page = 1, !.listed = filed[day]]
    /\ UNCHANGED <<day, filed, stored, failures, lost, beyond>>

(* Mutant: a page that repeats what this fetch has read is all seen.       *)
New_ThisFetch(page) == page \ (seen \union run.items)

New(page) == page \ seen

(* Mutant: the last page is not read.                                      *)
Ends_PageEarly(page) == New(page) = {} \/ run.page + 1 >= TotalPage(run.today)

(* No rows, nothing new on the page, or the last page.                     *)
Ends(page) == New(page) = {} \/ run.page >= TotalPage(run.today)

(* Mutant: every page counts as seen when it has been read.                *)
SeenAfter_EachPage(last, items) == seen \union items

(* _seen is updated when the whole list has been read.                     *)
SeenAfter(last, items) == IF last THEN seen \union items ELSE seen

(* One request.  At the end of the list or at the limit everything found   *)
(* counts as seen.                                                         *)
RequestPage ==
    LET page  == Page(run.today, run.page)
        items == run.items \union New(page)
        ends  == Ends(page)
        last  == ends \/ run.page = MaxPages IN
    /\ run.phase = "page"
    /\ run' = [run EXCEPT !.items = items, !.page = @ + 1, !.phase = IF last THEN "ingest" ELSE "page"]
    /\ seen' = SeenAfter(last, items)
    /\ beyond' = IF last /\ ~ends
                 THEN beyond \union Numbered(run.today, 1 .. filed[run.today] \ (seen \union items))
                 ELSE beyond
    /\ UNCHANGED <<day, filed, seenDay, stored, failures, lost>>

Failure == failures < MaxFailures /\ failures' = failures + 1

(* A request fails or answers with an error: the items are dropped.        *)
RequestFails ==
    /\ run.phase = "page" /\ Failure
    /\ run' = NoRun
    /\ UNCHANGED <<day, filed, seenDay, seen, stored, lost, beyond>>

----------------------------------------------------------------------------
(* The rest of the run, and the process.                                   *)

IngestItems ==
    /\ run.phase = "ingest"
    /\ stored' = stored \union Numbered(run.today, run.items)
    /\ run' = NoRun
    /\ UNCHANGED <<day, filed, seenDay, seen, failures, lost, beyond>>

(* The ingest fails; its disclosures stay seen.                            *)
IngestFails ==
    /\ run.phase = "ingest" /\ Failure
    /\ lost' = lost \union Numbered(run.today, run.items)
    /\ run' = NoRun
    /\ UNCHANGED <<day, filed, seenDay, seen, stored, beyond>>

Restart ==
    /\ Failure
    /\ seenDay' = 0 /\ seen' = {} /\ run' = NoRun
    /\ UNCHANGED <<day, filed, stored, lost, beyond>>

Next ==
    \/ File \/ Midnight
    \/ StartFetch \/ RequestPage \/ RequestFails
    \/ IngestItems \/ IngestFails \/ Restart

(* The source is polled again and again (SourcePolling.PolledForever),     *)
(* requests are answered and ingests end.                                  *)
Fairness == WF_vars(StartFetch) /\ WF_vars(RequestPage) /\ WF_vars(IngestItems)

Spec == Init /\ [][Next]_vars /\ Fairness

----------------------------------------------------------------------------
(* Properties.                                                             *)

(* What the collector skips as seen is stored, on its way to the store, or *)
(* was in an ingest that failed: failed requests, restarts and midnights   *)
(* lose nothing of it.  And, the comment in fetch, the list is newest      *)
(* first, so below a page that has been seen everything has been seen;     *)
(* this is so except for what an earlier fetch left out at the page limit. *)
SeenIsStored ==
    /\ Numbered(seenDay, seen) \subseteq
          stored \union lost
          \union (IF run.phase = "ingest" THEN Numbered(run.today, run.items) ELSE {})
    /\ \A n \in seen : \A m \in 1 .. n : m \in seen \/ <<seenDay, m>> \in beyond

(* When filings pause, the disclosures of the day get stored, after failed *)
(* requests and restarts too, but for those left out at the page limit and *)
(* those of a failed ingest for as long as they count as seen: a restart   *)
(* has them read again.                                                    *)
TodayGetsStored ==
    []<>(Numbered(day, 1 .. filed[day]) \subseteq
            stored \union (lost \intersect Numbered(seenDay, seen)) \union beyond)
=============================================================================
