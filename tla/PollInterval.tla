---------------------------- MODULE PollInterval ----------------------------
(***************************************************************************)
(* How long a source waits for its next poll: markets.py and the back-off  *)
(* and interval functions of newsserver/scheduler.py, in minutes.  A       *)
(* moment is a minute of the week in UTC, from Monday 0:00; summer is      *)
(* daylight saving time in New York, which changes when it is closed.      *)
(* Sources are market_aware; those with a fixed schedule wait a constant.  *)
(***************************************************************************)
EXTENDS Integers, FiniteSetsExt

Hour == 60
Day  == 24 * Hour
Week == 7 * Day

(* _HOURS: the regular and the extended session in local minutes.          *)
Regular(market)  == IF market = "KR" THEN <<9 * Hour, 15 * Hour + 30>> ELSE <<9 * Hour + 30, 16 * Hour>>
Extended(market) == IF market = "KR" THEN <<8 * Hour, 20 * Hour>> ELSE <<4 * Hour, 20 * Hour>>
UtcOffset(market, summer) == IF market = "KR" THEN 9 * Hour ELSE IF summer THEN -4 * Hour ELSE -5 * Hour

(* market_session of one market.                                           *)
LocalSession(market, now, summer) ==
    LET local   == (now + UtcOffset(market, summer)) % Week
        t       == local % Day
        Is(hours) == hours[1] <= t /\ t < hours[2] IN
    IF local \div Day >= 5 THEN "closed"
    ELSE IF Is(Regular(market)) THEN "open"
    ELSE IF Is(Extended(market)) THEN "extended" ELSE "closed"

(* market_session; GLOBAL takes the livelier of the two.                   *)
Session(market, now, summer) ==
    LET states == {LocalSession(m, now, summer) : m \in IF market = "GLOBAL" THEN {"KR", "US"} ELSE {market}} IN
    IF "open" \in states THEN "open" ELSE IF "extended" \in states THEN "extended" ELSE "closed"

----------------------------------------------------------------------------
MaxFailBackoff == 30
ScanStep       == 5

idle_backoff(streak) ==
    IF streak >= 20 THEN 30 ELSE IF streak >= 10 THEN 15 ELSE IF streak >= 5 THEN 10 ELSE 0

(* Doubled with every failure; the sixth passes the most there is.         *)
fail_backoff(streak) ==
    IF streak = 0 THEN 0 ELSE IF streak > 5 THEN MaxFailBackoff ELSE 2 ^ (streak - 1)

base_interval(intervals, market, now, summer) == intervals[Session(market, now, summer)]

(* Mutant: only the regular session ends a wait.                           *)
Reopens_Regular(market, now, summer, offset) == Session(market, now + offset, summer) = "open"

(* A moment of the scan at which the session is another.                   *)
Reopens(market, now, summer, offset) == Session(market, now + offset, summer) # "closed"

(* Outside the sessions a symbol waits for the first of these moments.     *)
symbol_interval(intervals, market, now, summer) ==
    LET session == Session(market, now, summer)
        wait    == intervals[session]
        scan    == {ScanStep * k : k \in 1 .. (wait - 1) \div ScanStep}
        reopens == {offset \in scan : Reopens(market, now, summer, offset)} IN
    IF session = "closed" /\ reopens # {} THEN Min(reopens) ELSE wait

(* The waits of _run_source and _run_symbol.                               *)
SourceWait(intervals, market, now, summer, idle, fails) ==
    Max({base_interval(intervals, market, now, summer), idle_backoff(idle), fail_backoff(fails)})
SymbolWait(intervals, market, now, summer, fails) ==
    Max({symbol_interval(intervals, market, now, summer), fail_backoff(fails)})

----------------------------------------------------------------------------
(* A symbol polled while its market is closed is polled again within a     *)
(* step of the scan after the next session begins, within the back-off if  *)
(* it fails, and a wait that the scan cuts short ends in a session.        *)
OpeningPolled(intervals, market, now, summer, fails) ==
    LET wait  == SymbolWait(intervals, market, now, summer, fails)
        grace == Max({ScanStep - 1, fail_backoff(fails)}) IN
    Session(market, now, summer) = "closed" =>
        /\ \A m \in 1 .. wait - 1 - grace : Session(market, now + m, summer) = "closed"
        /\ wait < intervals["closed"] => Session(market, now + wait, summer) # "closed"
=============================================================================
