---------------------------- MODULE SecStatements ----------------------------
(***************************************************************************)
(* The periods of newsserver/financials/sec.py: which fiscal years and     *)
(* quarters the facts of a company show, by which report, quarters as they *)
(* are reported or as differences of cumulative amounts, and balances.     *)
(*                                                                         *)
(* Dates are counted in quarters from the start of fiscal year 0, so that  *)
(* 80 to 100 days are 1 and 340 to 390 days are 4; dates that are some     *)
(* days off are not told apart.  A fact is [item, tag, start, end, val,    *)
(* form, filed, fy].  A company has two fiscal years of reports, 1 .. 8    *)
(* in the order they are filed, each with the same period of the year      *)
(* before beside it: [tags, quarters, fourth, restates, liable, minority]  *)
(* gives the tag each report uses, whether quarterly reports have three-   *)
(* month amounts, whether annual ones have the fourth quarter, whether the *)
(* second year restates the first, in which years reports have a total of  *)
(* liabilities, and whether there are minority interests.  A balance is a  *)
(* fact that starts where it ends.                                         *)
(***************************************************************************)
EXTENDS Integers, FiniteSetsExt

CONSTANTS
    TagOrder(_),        \* the place of a tag in TAGS
    Truth(_, _, _)      \* the amount of a quarter: its tag, whether restated, its end

----------------------------------------------------------------------------
(* EDGAR: what the reports filed so far say.                               *)

YearOf(report)    == (report - 1) \div 4
QuarterOf(report) == ((report - 1) % 4) + 1

Interval(start, end) == [start |-> start, end |-> end]

Spans(company, item, year, quarter) ==
    LET alone == IF quarter = 4 THEN company.fourth ELSE company.quarters IN
    {Interval(4 * year, 4 * year + quarter)} \union
    IF item = "income" /\ alone THEN {Interval(4 * year + quarter - 1, 4 * year + quarter)} ELSE {}

(* What a period of up to four quarters adds up to.                        *)
Earned(tag, restated, s) ==
    LET upTo(k) == IF s.start + k <= s.end THEN Truth(tag, restated, s.start + k) ELSE 0
    IN upTo(1) + upTo(2) + upTo(3) + upTo(4)

FactsOf(company, report) ==
    LET fact(item, year, s) ==
            LET restated == company.restates /\ YearOf(report) = 1 /\ year = 0
                tag      == company.tags[report] IN
            [item |-> item, tag |-> tag, start |-> s.start, end |-> s.end,
             val |-> Earned(tag, restated, s),
             form |-> IF QuarterOf(report) = 4 THEN "10-K" ELSE "10-Q",
             filed |-> report, fy |-> YearOf(report)]
    IN UNION {{fact(item, year, s) : s \in Spans(company, item, year, QuarterOf(report))} :
                 item \in {"income", "cash"}, year \in {YearOf(report) - 1, YearOf(report)}}

(* Balances at the end of the period and at the end of the year before;    *)
(* equity has the tag b without and the tag a with minority interests.     *)
BalancesOf(company, report) ==
    LET of(item, tag, end, val) ==
            [item |-> item, tag |-> tag, start |-> end, end |-> end, val |-> val, form |-> "10-Q",
             filed |-> report, fy |-> YearOf(report)]
        at(end) ==
            LET restated == company.restates /\ YearOf(report) = 1 /\ end <= 4
                owed == Truth("a", restated, end)
                own  == Truth("b", restated, end)
                minority == IF company.minority THEN 1 ELSE 0 IN
            {of("total", "a", end, owed + own + minority), of("equity", "b", end, own)}
            \union {of("equity", "a", end, own + m) : m \in {minority} \ {0}}
            \union {of("liabilities", "a", end, owed) : y \in company.liable \cap {YearOf(report)}}
    IN at(report) \union at(4 * YearOf(report))

Facts(company, filed) ==
    UNION {FactsOf(company, report) \union BalancesOf(company, report) : report \in 1 .. filed}

----------------------------------------------------------------------------
(* CompanyFacts.latest: of the facts about one period that filed last.     *)
Latest(facts, start, end) ==
    LET about == {f \in facts : f.start = start /\ f.end = end}
    IN {f \in about : \A g \in about : g.filed <= f.filed}

FirstTagged(facts) == {f \in facts : \A g \in facts : TagOrder(f.tag) <= TagOrder(g.tag)}

(* _pick: by the first tag that has the period.                            *)
Pick(facts, item, start, end) ==
    {f.val : f \in FirstTagged({g \in facts : g.item = item /\ g.start = start /\ g.end = end
                                              /\ g \in Latest({h \in facts : h.item = item /\ h.tag = g.tag}, start, end)})}

(* Mutant: the two amounts may have different tags.                        *)
Diff_AnyTag(facts, item, start, end, before) ==
    {a - b : a \in Pick(facts, item, start, end), b \in Pick(facts, item, start, before)}

(* _diff: by the first tag that has both periods.                          *)
Diff(facts, item, start, end, before) ==
    LET tagged(tag) == {f \in facts : f.item = item /\ f.tag = tag}
        both == {tag \in {f.tag : f \in facts} : /\ Latest(tagged(tag), start, end) # {}
                                                 /\ Latest(tagged(tag), start, before) # {}}
        first == {tag \in both : \A t \in both : TagOrder(tag) <= TagOrder(t)} IN
    {a.val - b.val : a \in UNION {Latest(tagged(tag), start, end) : tag \in first},
                     b \in UNION {Latest(tagged(tag), start, before) : tag \in first}}

----------------------------------------------------------------------------
(* The facts that identify periods: PERIOD_TAGS are tags of income.        *)
PeriodFacts(facts) == {f \in facts : f.item = "income"}

AnnualFacts(facts) == {f \in PeriodFacts(facts) : f.form = "10-K" /\ f.end - f.start = 4}

(* Mutant: labelled by the report that mentions it last.                   *)
Label_Last(facts, start) == Max({f.fy : f \in {g \in AnnualFacts(facts) : g.start = start}})

First(facts) == {f \in facts : \A g \in facts : f.filed <= g.filed}

(* A fiscal year is labelled by the report that mentions it first.         *)
Label(facts, start) == (CHOOSE f \in First({g \in AnnualFacts(facts) : g.start = start}) : TRUE).fy

(* fiscal_years: those of annual reports, and the one in progress.         *)
fiscal_years(facts) ==
    LET ended == {[label |-> Label(facts, start), start |-> start, over |-> TRUE] :
                     start \in {f.start : f \in AnnualFacts(facts)}}
        last  == {y \in ended : \A x \in ended : x.start <= y.start}
        now   == {f.end : f \in {g \in PeriodFacts(facts) : g.form = "10-Q"}}
    IN ended \union {[label |-> y.label + 1, start |-> y.start + 4, over |-> FALSE] :
                        y \in {x \in last : \E end \in now : end > x.start + 4}}

(* The quarters of a year that facts of three months or from its start on  *)
(* end, and the fourth when the year is over.                              *)
EndedQuarters(facts, year) ==
    LET ends == {f \in PeriodFacts(facts) :
                    /\ f.end > year.start /\ (year.over => f.end <= year.start + 4)
                    /\ \/ f.end - f.start = 1 /\ f.start >= year.start
                       \/ f.start = year.start /\ f.end - f.start < 4}
    IN {Min({4, f.end - year.start}) : f \in ends} \union {q \in {4} : year.over}

(* The quarters that are shown: the first, and those after a known one.    *)
ShownQuarters(facts, year) ==
    LET ended == EndedQuarters(facts, year) IN {q \in ended : q = 1 \/ q - 1 \in ended}

(* The value of an item in quarter_periods.                                *)
QuarterValue(facts, year, item, q) ==
    LET end == year.start + q
        own == Pick(facts, item, end - 1, end) IN
    IF item = "income" /\ own # {} THEN own
    ELSE IF q = 1 THEN Pick(facts, item, year.start, end)
    ELSE Diff(facts, item, year.start, end, end - 1)

(* Mutant: the equity of the shareholders is subtracted.                   *)
Liabilities_Attributable(facts, end) ==
    LET own == Pick(facts, "liabilities", end, end) IN
    IF own # {} THEN own
    ELSE {t - e.val : t \in Pick(facts, "total", end, end),
                      e \in Latest({f \in facts : f.item = "equity" /\ f.tag = "b"}, end, end)}

(* _stocks: the total of liabilities is derived when it is not reported.   *)
Liabilities(facts, end) ==
    LET own == Pick(facts, "liabilities", end, end) IN
    IF own # {} THEN own ELSE {t - e : t \in Pick(facts, "total", end, end), e \in Pick(facts, "equity", end, end)}

(* _first_report, and the annual report of the fourth quarter.             *)
FirstReport(facts, start, end) ==
    {f.filed : f \in First({g \in PeriodFacts(facts) : g.start = start /\ g.end = end})}

Filing(facts, year, q) ==
    LET end == year.start + q
        whole == FirstReport(facts, year.start, end) IN
    IF q = 4 THEN {f.filed : f \in First({g \in AnnualFacts(facts) : g.end = end})}
    ELSE IF whole # {} THEN whole ELSE FirstReport(facts, end - 1, end)

(* _finish: an outflow is shown as positive.                               *)
Outflow(value) == {IF v < 0 THEN -v ELSE v : v \in value}

(* Cash flows are shown as they are or, for some items, as outflows.       *)
quarter_periods(facts) ==
    UNION {{[label |-> year.label, quarter |-> q, end |-> year.start + q, filing |-> Filing(facts, year, q),
             income |-> QuarterValue(facts, year, "income", q), cash |-> QuarterValue(facts, year, "cash", q),
             outflow |-> Outflow(QuarterValue(facts, year, "cash", q))] :
               q \in ShownQuarters(facts, year)} : year \in fiscal_years(facts)}

annual_periods(facts) ==
    {[label |-> year.label, end |-> year.start + 4, filing |-> Filing(facts, year, 4),
      income |-> Pick(facts, "income", year.start, year.start + 4)] :
        year \in {y \in fiscal_years(facts) : y.over}}

----------------------------------------------------------------------------
(* Whether an amount of the first year that is restated would be taken     *)
(* with one that is not: with some tag the second year's reports have only *)
(* one of the amounts up to the end of a quarter and of the one before.    *)
Mixed(company, filed, end) ==
    LET uses(report, tag) == report \in 1 .. filed /\ company.tags[report] = tag IN
    /\ company.restates /\ end \in 2 .. 4
    /\ \E tag \in {company.tags[r] : r \in 1 .. 8} :
          \/ uses(end + 4, tag) /\ ~uses(end + 3, tag) /\ uses(end - 1, tag)
          \/ uses(end + 3, tag) /\ ~uses(end + 4, tag) /\ uses(end, tag)

(* Fourth quarters and cash flows are differences of what two reports say: *)
(* whatever tags a company goes through and whenever, a quarter is the     *)
(* amount one tag has for it, before or after the restatement, and an      *)
(* outflow the size of it; but a difference may be false where one of the  *)
(* amounts is restated and the other is not.  It is missing only when the  *)
(* tag has changed.                                                        *)
ValueIsTrue(company, filed) ==
    LET true(end) == {Truth(company.tags[r], restated, end) : r \in 1 .. filed, restated \in BOOLEAN}
        alone(p)  == IF p.quarter = 4 THEN company.fourth ELSE company.quarters
    IN \A p \in quarter_periods(Facts(company, filed)) :
          /\ p.income \subseteq true(p.end) \/ (~alone(p) /\ Mixed(company, filed, p.end))
          /\ p.cash \subseteq true(p.end) \/ Mixed(company, filed, p.end)
          /\ p.outflow \subseteq Outflow(true(p.end)) \/ Mixed(company, filed, p.end)
          /\ p.income = {} \/ p.cash = {} => p.quarter > 1 /\ Cardinality({company.tags[r] : r \in 1 .. filed}) > 1

(* Once an annual report is in, every report has its period, labelled with *)
(* its own year and shown as its filing, whatever later reports say of it; *)
(* only years before the first report have a later label and filing.       *)
EveryReportShown(company, filed) ==
    LET facts    == Facts(company, filed)
        quarters == quarter_periods(facts)
        years    == annual_periods(facts) IN
    filed >= 4 =>
        /\ \A report \in 1 .. filed : \E p \in quarters :
              p.label = YearOf(report) /\ p.quarter = QuarterOf(report) /\ p.end = report
        /\ \A p \in quarters \union years : p.filing = {IF p.end > 0 THEN p.end ELSE p.end + 4}
        /\ \A p \in quarters : p.end > 0 => p.label = YearOf(p.end) /\ p.quarter = QuarterOf(p.end)
        /\ {p.end : p \in years} = {end \in {0, 4, 8} : end <= filed}
        /\ \A p \in years : p.end > 0 => p.label = YearOf(p.end)

(* Balances shown for one date add up, restated or not and with or without *)
(* minority interests, but when a restatement no longer has the total of   *)
(* liabilities: the old total then stands beside the new equity.           *)
BalancesAddUp(company, filed) ==
    LET facts == Facts(company, filed) IN
    \A p \in quarter_periods(facts) :
        \A total \in Pick(facts, "total", p.end, p.end), equity \in Pick(facts, "equity", p.end, p.end) :
            Liabilities(facts, p.end) = {total - equity} \/ (company.restates /\ company.liable = {0} /\ p.end = 4)
=============================================================================
