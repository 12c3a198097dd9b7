--------------------------- MODULE DartStatements ---------------------------
(***************************************************************************)
(* The values of a period in newsserver/financials/dart.py: which reports  *)
(* are asked for, and quarters as they are written or as differences of    *)
(* cumulative amounts.                                                     *)
(*                                                                         *)
(* One item of one company.  What may be missing is a set with at most one *)
(* element.  A report is [basis, amount, add], the columns thstrm_amount   *)
(* and thstrm_add_amount of the item's row; kind is that of the item:      *)
(* stock, income, cash, or outflow, a cash item shown as positive.  The    *)
(* reports of a year are functions on 1 .. 4, the fourth being annual.     *)
(***************************************************************************)
EXTENDS Integers, FiniteSetsExt

(* report_with_fallback, from the reports published for a quarter.         *)
Report(published, basis) ==
    LET of(b) == {r \in published : r.basis = b} IN
    IF basis = "consolidated" /\ of("CFS") # {} THEN of("CFS") ELSE of("OFS")

(* Mutant: the column asked for does not count.                            *)
Amount_OneColumn(report, cumulative) ==
    UNION {IF r.amount # {} THEN r.amount ELSE r.add : r \in report}

(* Report.value.                                                           *)
Amount(report, cumulative) ==
    LET either(a, b) == IF a # {} THEN a ELSE b IN
    UNION {IF cumulative THEN either(r.add, r.amount) ELSE either(r.amount, r.add) : r \in report}

Less(a, b) == {x - y : x \in a, y \in b}

(* _sign.                                                                  *)
Sign(kind, value) == IF kind = "outflow" THEN {IF v < 0 THEN -v ELSE v : v \in value} ELSE value

(* Mutant: a report on another basis is subtracted.                        *)
Previous_AnyBasis(reports, q) == IF q = 1 THEN {} ELSE reports[q - 1]

(* The report before, if it is on the same basis.                          *)
Previous(reports, q) ==
    IF q = 1 THEN {} ELSE {p \in reports[q - 1] : \A r \in reports[q] : p.basis = r.basis}

(* _quarter.                                                               *)
Quarter(reports, kind, q) ==
    LET before == Amount(Previous(reports, q), TRUE) IN
    Sign(kind, IF kind \in {"cash", "outflow"}
               THEN IF q = 1 THEN Amount(reports[q], TRUE) ELSE Less(Amount(reports[q], TRUE), before)
               ELSE IF kind = "income" /\ q = 4 THEN Less(Amount(reports[q], FALSE), before)
               ELSE Amount(reports[q], FALSE))

(* _annual.                                                                *)
Annual(reports, kind) == Sign(kind, Amount(reports[4], FALSE))

(* Mutant: one year fewer is asked for.                                    *)
QuarterKeys_YearLess(limit, ended) ==
    {k \in (0 - limit \div 4 .. 0) \X (1 .. 4) : k[1] < 0 \/ k[2] <= ended}

(* periods: the reports asked for when ended quarters of this year, year   *)
(* 0, are over, and of them, newest first, those that are there.           *)
QuarterKeys(limit, ended) ==
    {k \in (0 - limit \div 4 - 1 .. 0) \X (1 .. 4) : k[1] < 0 \/ k[2] <= ended}
AnnualKeys(limit, ended) == {y \in -limit .. 0 : y < 0 \/ ended = 4}

(* The last month of a quarter when fiscal years are calendar years.       *)
DefaultEnd(year, q) == [year |-> year, month |-> 3 * q]

(* _period_start: months, 1 .. 12 of a year, of three or twelve.           *)
PeriodStart(end, months) ==
    LET idx == 12 * end.year + end.month - months
    IN [year |-> idx \div 12, month |-> (idx % 12) + 1]

(* Mutant: only the end is set.                                            *)
Dated_EndOnly(stated, year, q, months) ==
    [start |-> PeriodStart(DefaultEnd(year, q), months),
     end   |-> IF stated # {} THEN CHOOSE e \in stated : TRUE ELSE DefaultEnd(year, q)]

(* _base and _apply_shares: the end that the row of ordinary shares states *)
(* if there is one.                                                        *)
Dated(stated, year, q, months) ==
    LET end == IF stated # {} THEN CHOOSE e \in stated : TRUE ELSE DefaultEnd(year, q)
    IN [start |-> PeriodStart(end, months), end |-> end]

Built(limit, keys, filed) == Min({limit, Cardinality(keys \cap filed)})

----------------------------------------------------------------------------
(* DART, by what docs and comments of the module say of it: amounts of     *)
(* three months for income with the cumulative amount beside them, twelve  *)
(* in the annual report; cumulative amounts for cash flows.                *)
Total(truth, q) ==
    LET upTo(k) == IF k <= q THEN truth[k] ELSE 0 IN upTo(1) + upTo(2) + upTo(3) + upTo(4)

Written(kind, basis, truth, q) ==
    LET row == IF kind = "stock" THEN <<{truth[q]}, {}>>
               ELSE IF kind = "income" /\ q < 4 THEN <<{truth[q]}, {Total(truth, q)}>>
               ELSE <<{Total(truth, q)}, {}>>
    IN [basis |-> basis, amount |-> row[1], add |-> row[2]]

(* A fiscal year that ends shift months after the calendar year: the end   *)
(* of a quarter, and the rows of ordinary shares, in the reports of some   *)
(* quarters only.                                                          *)
FiscalEnd(shift, year, q) ==
    LET idx == 12 * year + 3 * q + shift - 1 IN [year |-> idx \div 12, month |-> (idx % 12) + 1]
Stated(shift, listed, year, q) == IF q \in listed THEN {FiscalEnd(shift, year, q)} ELSE {}

(* A report is filed at most late months after its period, when now months *)
(* of year 0 are over.                                                     *)
IsFiled(shift, late, now, year, q) == 12 * year + 3 * q + shift + late <= now

(* A quarter is what the company earned, paid or had in it, on the basis   *)
(* the period is labelled with, whichever reports are consolidated or      *)
(* missing; it is missing only if a report it needs is, or is on another   *)
(* basis.                                                                  *)
QuarterIsTrue(truths, reports, kind, q) ==
    LET value   == Quarter(reports, kind, q)
        derived == q > 1 /\ (kind \in {"cash", "outflow"} \/ (kind = "income" /\ q = 4)) IN
    /\ \A r \in reports[q] : value \subseteq Sign(kind, {truths[r.basis][q]})
    /\ value = {} => reports[q] = {} \/ (derived /\ Previous(reports, q) = {})

(* Four quarters on one basis make the year, but for an outflow that was   *)
(* negative in one of them.                                                *)
QuartersMakeYear(truths, reports, kind) ==
    LET value(q) == CHOOSE v \in Quarter(reports, kind, q) : TRUE
        sum   == value(1) + value(2) + value(3) + value(4)
        bases == {r.basis : r \in UNION {reports[q] : q \in 1 .. 4}} IN
    \/ kind = "stock" \/ Cardinality(bases) # 1 \/ \E q \in 1 .. 4 : Quarter(reports, kind, q) = {}
    \/ kind = "outflow" /\ \E b \in bases, q \in 1 .. 4 : truths[b][q] < 0
    \/ Annual(reports, kind) = {sum}

(* The months from one month to another.                                  *)
MonthsTo(from, to) == 12 * (to.year - from.year) + to.month - from.month

(* Quarters follow one another without gap or overlap, and four of them    *)
(* make the year, where both reports say when they end or both are dated   *)
(* as if it were the calendar year.  A company with another fiscal year    *)
(* has reports of both sorts: its quarters without rows of shares are      *)
(* dated shift months too early, which leaves a gap of as many months      *)
(* behind them, or makes them overlap the quarter before.                  *)
QuartersFollow(shift, listed, year) ==
    LET quarter(y, q) == Dated(Stated(shift, listed, y, q), y, q, 3)
        whole    == Dated(Stated(shift, listed, year, 4), year, 4, 12)
        early(q) == IF q \in listed THEN 0 ELSE shift
        next(q)  == IF q = 4 THEN 1 ELSE q + 1 IN
    /\ \A q \in 1 .. 4 : MonthsTo(quarter(year, q).end, FiscalEnd(shift, year, q)) = early(q)
    /\ \A q \in 1 .. 4 :
          MonthsTo(quarter(year, q).end, quarter(IF q = 4 THEN year + 1 ELSE year, next(q)).start)
              = 1 + early(q) - early(next(q))
    /\ whole.end = quarter(year, 4).end
    /\ MonthsTo(whole.start, quarter(year, 1).start) = early(4) - early(1)

(* As many quarters as are asked for are built when a report comes up to   *)
(* three months after the calendar quarter it is named for; every three    *)
(* months more, late or because of the fiscal year, cost one quarter.  A   *)
(* year before this one is missing while its report is not filed.          *)
EnoughPeriods(limit, now, shift, late) ==
    LET ended == now \div 3
        wait  == shift + late
        filedQuarters == {k \in QuarterKeys(limit, ended) : IsFiled(shift, late, now, k[1], k[2])}
        filedYears    == {y \in AnnualKeys(limit, ended) : IsFiled(shift, late, now, y, 4)} IN
    /\ Built(limit, QuarterKeys(limit, ended), filedQuarters)
          >= limit - (IF wait = 0 THEN 0 ELSE (wait - 1) \div 3)
    /\ Built(limit, AnnualKeys(limit, ended), filedYears)
          >= limit - (IF wait <= now THEN 0 ELSE (wait - now + 11) \div 12)
=============================================================================
