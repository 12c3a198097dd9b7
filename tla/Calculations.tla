----------------------------- MODULE Calculations -----------------------------
(***************************************************************************)
(* The pure parts of the server and what they promise: how texts are       *)
(* tagged and searched, how long a source waits, which headlines a page    *)
(* has, and what a period of DART or EDGAR shows.  They keep no state; an  *)
(* input of any of them is chosen once.                                    *)
(***************************************************************************)
EXTENDS TextSearch, PollInterval, CursorQuery, DartStatements, SecStatements

CONSTANTS
    Changes,        \* pairs of directories, for each script of names
    Texts,          \* the texts for each script
    Listed,         \* companies that are searched for
    Openings,       \* the beginnings of titles,
    Lines,          \*   what follows them,
    Summaries,      \*   and summaries
    Fronts, Backs,  \* what may stand around a name
    Intervals,      \* minutes between polls for each session
    Moments,        \* minutes of the week
    Failures,       \* failures in a row
    Tables,         \* tables of headlines
    Queries,        \*   and queries for them
    Truths,         \* what a company earned, on each basis, in four quarters
    Limits,         \* numbers of periods asked for
    Delays,         \* months until a report is filed
    Years,          \* fiscal years
    Companies       \* companies with reports on EDGAR

Bases == {"CFS", "OFS"}

(* A hangul name is spelled with letters, which are no words.              *)
IsName(n) ==
    /\ n.hangul \in BOOLEAN
    /\ n.words \in Seq(ToSet(n.words))
    /\ \A i \in DOMAIN n.words : n.words[i] \in DOMAIN Length <=> ~n.hangul

IsText(text) ==
    /\ text.title \in Seq(ToSet(text.title)) /\ text.summary \in Seq(ToSet(text.summary))
    /\ \A token \in text.tokens : token \in Seq(ToSet(token))

(* Line breaks stand in no term, and commas in no symbol.                  *)
IsListed(company) ==
    /\ company.symbol \in Seq(DOMAIN Lower) /\ "," \notin ToSet(company.symbol)
    /\ company.names \in Seq(ToSet(company.names))
    /\ \A term \in build_search_terms(company) : term \in Seq(DOMAIN Lower \ {"\n"})

IsTable(table) ==
    /\ IsFiniteSet(DOMAIN table) /\ DOMAIN table \subseteq Nat
    /\ \A i \in DOMAIN table : table[i].ts \in Int

IsQuery(q) ==
    /\ q.match \in {"tag", "text", "any"} /\ q.symbol \in BOOLEAN /\ q.dedup \in BOOLEAN
    /\ q.since \in Nat \union {-1} /\ q.limit \in Nat \ {0}

(* Any report may have another tag than the one before.                    *)
IsReporting(company) ==
    /\ company.restates \in BOOLEAN /\ company.minority \in BOOLEAN
    /\ company.quarters \in BOOLEAN /\ company.fourth \in BOOLEAN
    /\ company.liable \subseteq {0, 1}
    /\ \A r \in 1 .. 8 : TagOrder(company.tags[r]) \in Nat
    /\ \A r, s \in 1 .. 8 : TagOrder(company.tags[r]) = TagOrder(company.tags[s]) => company.tags[r] = company.tags[s]
    /\ \A r \in 1 .. 8, restated \in BOOLEAN, end \in -3 .. 8 : Truth(company.tags[r], restated, end) \in Int

ASSUME CalculationsAssumption ==
    /\ \A w \in DOMAIN Length : Length[w] \in Nat
    /\ \A script \in DOMAIN Changes : \A change \in Changes[script] :
          \A n \in change[1] \union change[2] : IsName(n)
    /\ \A script \in DOMAIN Changes : \A text \in Texts[script] : IsText(text)
    /\ Intervals \in [{"open", "extended", "closed"} -> Nat \ {0}]
    /\ Moments \subseteq Nat /\ Failures \subseteq Nat
    /\ \A table \in Tables : IsTable(table)
    /\ \A q \in Queries : IsQuery(q)
    /\ Truths \subseteq [Bases -> [1 .. 4 -> Int]]
    /\ Limits \subseteq Nat \ {0} /\ Delays \subseteq Nat /\ Years \subseteq Nat
    /\ TagOrder("a") \in Nat /\ TagOrder("b") \in Nat /\ TagOrder("a") < TagOrder("b")
    /\ \A tag \in {"a", "b"}, restated \in BOOLEAN, end \in 0 .. 8 : Truth(tag, restated, end) \in Int
    /\ \A company \in Companies : IsReporting(company)
    /\ \A company \in Listed : IsListed(company)
    /\ \A text \in Openings \union Lines \union Summaries : text \in Seq(DOMAIN Lower)

----------------------------------------------------------------------------
VARIABLE input

NoInput == input = [of |-> "none"]

PickNames ==
    \E script \in DOMAIN Changes : \E change \in Changes[script] :
        input' = [of |-> "names", script |-> script, old |-> change[1], new |-> change[2]]
PickSearch ==
    \E company \in Listed, summary \in Summaries, opening \in Openings :
        input' = [of |-> "search", company |-> company, summary |-> summary, opening |-> opening]
PickMoment ==
    \E market \in {"KR", "US", "GLOBAL"}, summer \in BOOLEAN, now \in Moments :
        input' = [of |-> "moment", market |-> market, summer |-> summer, now |-> now]
PickTable   == \E table \in Tables : input' = [of |-> "table", table |-> table]
PickReports ==
    \E truths \in Truths, published \in [1 .. 4 -> SUBSET Bases] :
        input' = [of |-> "reports", truths |-> truths, published |-> published]

(* A day when now months of the year are over, and a company whose fiscal  *)
(* year ends shift months after the calendar year.                         *)
PickWindow ==
    \E limit \in Limits, now \in 0 .. 12, shift \in 0 .. 11, late \in Delays :
        input' = [of |-> "window", limit |-> limit, now |-> now, shift |-> shift, late |-> late]

(* Shares are listed in half-year and annual reports only.                 *)
PickDates ==
    \E shift \in 0 .. 11, listed \in SUBSET {2, 4} :
        input' = [of |-> "dates", shift |-> shift, listed |-> listed]
PickCompany ==
    \E company \in Companies, filed \in 0 .. 8 :
        input' = [of |-> "company", company |-> company, filed |-> filed]

PickInput ==
    /\ input.of = "none"
    /\ PickSearch \/ PickNames \/ PickMoment \/ PickTable \/ PickReports \/ PickWindow \/ PickDates \/ PickCompany

CalculationsSpec == NoInput /\ [][PickInput]_input

----------------------------------------------------------------------------
Headline(line) == [title |-> input.opening \o line, summary |-> input.summary]

(* What narrows loses nothing: retagging the candidates of a change is as  *)
(* good as retagging everything, and the full text search of a company has *)
(* every article that the rules accept (SymbolDirectory.changes_since,     *)
(* Ingestor.retag_changed; _text_clause, text_matches_symbol).             *)
CandidatesSuffice ==
    /\ input.of = "names" => \A text \in Texts[input.script] : SelectsAll(input.old, input.new, text)
    /\ input.of = "search" =>
          LET terms == build_search_terms(input.company) IN
          \A line \in Lines, include \in BOOLEAN : SearchLosesNothing(input.company, terms, Headline(line), include)

(* A word that is a ticker is not the company, unless the company writes   *)
(* its name so (ticker_needs_exact_case, text_matches_symbol).             *)
WordsAreNoTickers ==
    input.of = "search" =>
        LET terms == build_search_terms(input.company) IN
        \A line \in Lines : WordIsNoTicker(input.company, terms, Headline(line))

(* A company is found by its name without the legal form, and not by a     *)
(* word that is its ticker (build_search_terms, strip_corp_suffixes,       *)
(* is_text_symbol_match).                                                  *)
NamesDecide ==
    /\ WordsAreNoTickers
    /\ input.of = "search" =>
          LET terms == build_search_terms(input.company) IN
          \A before \in Fronts, after \in Backs : FoundByName(input.company, terms, before, after)

(* No symbol sleeps through the start of a session (symbol_interval_sec).  *)
NoOpeningSlept ==
    input.of = "moment" =>
        \A fails \in Failures : OpeningPolled(Intervals, input.market, input.now, input.summer, fails)

(* A page of headlines leaves out only what it may (headlines).            *)
PagesComplete == input.of = "table" => \A q \in Queries : PageIsComplete(input.table, q)

(* What there is in the reports of a year on each basis.                   *)
Reports(truths, published, kind, basis) ==
    [q \in 1 .. 4 |-> Report({Written(kind, b, truths[b], q) : b \in published[q]}, basis)]

(* A quarter from DART is what was earned in it, and four of them add up   *)
(* to the annual report (_quarter, _annual).                               *)
DartQuartersTrue ==
    input.of = "reports" => \A kind \in {"stock", "income", "cash", "outflow"}, basis \in {"consolidated", "separate"} :
        LET reports == Reports(input.truths, input.published, kind, basis) IN
        /\ \A q \in 1 .. 4 : QuarterIsTrue(input.truths, reports, kind, q)
        /\ QuartersMakeYear(input.truths, reports, kind)

(* Periods from DART follow one another, as many as are asked for, but     *)
(* for what a fiscal year other than the calendar year costs (periods,     *)
(* _period_start, _apply_shares).                                          *)
DartPeriodsFollow ==
    /\ input.of = "dates" => \A year \in Years : QuartersFollow(input.shift, input.listed, year)
    /\ input.of = "window" => EnoughPeriods(input.limit, input.now, input.shift, input.late)

(* A quarter from EDGAR is the amount of one tag for it, unless a restated *)
(* amount meets one that is not; no report is left out or mislabelled, and *)
(* the balance sheet shown for a date balances (_diff, _finish,            *)
(* fiscal_years, _stocks).                                                 *)
SecStatementsTrue ==
    input.of = "company" =>
        /\ ValueIsTrue(input.company, input.filed)
        /\ EveryReportShown(input.company, input.filed)
        /\ BalancesAddUp(input.company, input.filed)
=============================================================================
