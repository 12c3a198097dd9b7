----------------------------- MODULE TextSearch -----------------------------
(***************************************************************************)
(* How a query for a symbol finds it in texts: the terms made of its code  *)
(* and names (newsserver/matching.py), the search of the database for      *)
(* them, and the rules that decide about what it found (query.py).         *)
(*                                                                         *)
(* Texts, names and terms are sequences of letters, punctuation included.  *)
(* A company is [market, symbol, names, stems]: its symbol is normalized,  *)
(* and stems are its names as an article writes them, without legal forms  *)
(* and remarks.                                                            *)
(***************************************************************************)
EXTENDS TextTags

CONSTANTS
    Lower,          \* the small letter of every letter, itself for hangul
    Alnum,          \* letters of the English alphabet and digits
    Legal,          \* texts that are legal forms, in small letters
    KrLegal,        \* letters that stand for a Korean legal form
    Remarks,        \* letters that stand for words in parentheses and the spaces around them
    MaxAsciiTerm,   \* the length up to which an ASCII term has to stand apart
    MinBaseName     \* MIN_BASE_NAME_LEN

ASSUME TextSearchAssumption ==
    /\ Alnum \subseteq DOMAIN Lower /\ "\n" \in DOMAIN Lower
    /\ \A c \in DOMAIN Lower : Lower[Lower[c]] = Lower[c] /\ (Lower[c] = "\n" <=> c = "\n")
    /\ "," \in DOMAIN Lower /\ Lower[","] = ","
    /\ MaxAsciiTerm \in Nat /\ MinBaseName \in Nat

Small(text) == [i \in DOMAIN text |-> Lower[text[i]]]

(* str.isalpha and str.isupper.                                            *)
IsUpper(word) == \A i \in DOMAIN word : Lower[word[i]] # word[i]

Places(text, term) ==
    {i \in 1 .. Len(text) - Len(term) + 1 : SubSeq(text, i, i + Len(term) - 1) = term}

----------------------------------------------------------------------------
(* The terms of a company.                                                 *)

Without(text, left_out) == SelectSeq(text, LAMBDA c : c \notin left_out)

(* str.strip, and str.rstrip of commas and periods.                        *)
Strip(text) ==
    LET ink == {i \in DOMAIN text : text[i] # " "}
    IN IF ink = {} THEN << >> ELSE SubSeq(text, Min(ink), Max(ink))
Trimmed(text) ==
    LET strip == Strip(text)
    IN SubSeq(strip, 1, Max({0} \union {i \in DOMAIN strip : strip[i] \notin {",", "."}}))

(* Mutant: only spaces stand before a legal form.                          *)
WithoutForm_SpacesOnly(text) ==
    LET starts == {n \in DOMAIN text : \E m \in n + 1 .. Len(text) :
                      (\A i \in n .. m - 1 : text[i] = " ") /\ Small(SubSeq(text, m, Len(text))) \in Legal}
    IN IF starts = {} THEN text ELSE SubSeq(text, 1, Min(starts) - 1)

(* _CORP_SUFFIX_RE: a legal form at the end goes with all that separates   *)
(* it; its own period has been trimmed.                                    *)
WithoutForm(text) ==
    LET starts == {n \in DOMAIN text : \E m \in n + 1 .. Len(text) :
                      (\A i \in n .. m - 1 : text[i] \in {" ", ",", "."}) /\ Small(SubSeq(text, m, Len(text))) \in Legal}
    IN IF starts = {} THEN text ELSE SubSeq(text, 1, Min(starts) - 1)

(* At most four of them.                                                   *)
strip_corp_suffixes(name) ==
    LET round(text) == Trimmed(WithoutForm(text)) IN round(round(round(round(Trimmed(name)))))

(* The forms of a name: as it is, without remarks, without Korean legal    *)
(* forms, and without legal forms unless that is too short.                *)
Forms(name) ==
    LET cleaned == Strip([i \in DOMAIN name |-> IF name[i] \in Remarks THEN " " ELSE name[i]])
        korean  == Strip(Without(cleaned, KrLegal))
        base    == strip_corp_suffixes(IF korean = << >> THEN cleaned ELSE korean) IN
    <<Strip(name), cleaned, korean, IF Len(base) >= MinBaseName THEN base ELSE << >> >>

(* build_search_terms: the symbol and the forms of every name in order,    *)
(* each with and without its spaces; one letter is no term, nor is what    *)
(* has a comma, and of terms that differ in capitals the first stays.      *)
build_search_terms(company) ==
    LET forms      == [i \in DOMAIN company.names |-> Forms(company.names[i])]
        candidates == {<<0, company.symbol>>}
                      \union UNION {{<<4 * i + j, forms[i][j]>> : j \in 1 .. 4} : i \in DOMAIN company.names}
        variants   == {<<2 * c[1], c[2]>> : c \in candidates}
                      \union {<<2 * c[1] + 1, Without(c[2], {" "})>> : c \in candidates}
        usable     == {v \in variants : "," \notin ToSet(v[2]) /\ Len(v[2]) > 1} IN
    {v[2] : v \in {u \in usable : \A w \in usable : w[1] < u[1] => Small(w[2]) # Small(u[2])}}

(* Mutant: the names are not asked.                                        *)
ticker_needs_exact_case_Always(company) ==
    company.market = "US" /\ company.symbol # << >> /\ IsUpper(company.symbol)

FirstWord(name) ==
    LET ends == {i \in DOMAIN name : name[i] \in {" ", ",", ".", "'", "-"} \union Remarks}
    IN SubSeq(name, 1, Min({Len(name) + 1} \union ends) - 1)

(* ticker_needs_exact_case: unless a name begins with the ticker and does  *)
(* not write it in capitals.                                               *)
ticker_needs_exact_case(company) ==
    /\ company.market = "US" /\ company.symbol # << >> /\ IsUpper(company.symbol)
    /\ \A i \in DOMAIN company.names :
          LET word == FirstWord(Strip(company.names[i])) IN Small(word) = Small(company.symbol) => IsUpper(word)

----------------------------------------------------------------------------
(* The rules.                                                              *)

Apart(text, i, n) ==
    /\ i = 1 \/ text[i - 1] \notin Alnum
    /\ i + n > Len(text) \/ text[i + n] \notin Alnum

IsAsciiTerm(term) == ToSet(term) \subseteq Alnum \union {".", "-"} /\ Len(term) <= MaxAsciiTerm
HasHangul(term)   == ToSet(term) \ Latin # {}

(* re.finditer: from left to right, never two that overlap.                *)
Found(text, term) ==
    LET places == Places(text, term)
        from[i \in 1 .. Len(text) + Len(term)] ==
            IF i > Len(text) THEN {} ELSE IF i \in places THEN {i} \union from[i + Len(term)] ELSE from[i + 1]
    IN from[1]

(* is_text_symbol_match: a ticker as it is written or a short ASCII term   *)
(* set apart, a hangul name with a particle at most, any other term        *)
(* anywhere.                                                               *)
is_text_symbol_match(text, term, case_sensitive) ==
    LET low == Small(text) t == Small(term) n == Len(term) IN
    \/ /\ case_sensitive
       /\ \E i \in Places(text, term) : Apart(text, i, n)
    \/ /\ ~case_sensitive /\ IsAsciiTerm(t)
       /\ \E i \in Places(low, t) : Apart(low, i, n)
    \/ /\ ~case_sensitive /\ ~IsAsciiTerm(t) /\ HasHangul(t)
       /\ \E i \in Found(low, t) : SuffixOk(SubSeq(low, i + n, Len(low)), n <= 2)
    \/ /\ ~case_sensitive /\ ~IsAsciiTerm(t) /\ ~HasHangul(t)
       /\ Places(low, t) # {}

text_matches_symbol(text, company, terms) ==
    \E term \in terms :
        is_text_symbol_match(text, term,
            ticker_needs_exact_case(company) /\ Small(term) = Small(company.symbol))

----------------------------------------------------------------------------
(* The search.                                                             *)

(* _text_clause: a term anywhere in one column; the trigrams of FTS5 and   *)
(* LIKE both ignore capitals.                                              *)
TextClause(terms, row, include_summary) ==
    \E term \in terms :
        \/ Places(Small(row.title), Small(term)) # {}
        \/ include_summary /\ Places(Small(row.summary), Small(term)) # {}

(* Mutant: title and summary become one line.                              *)
Haystack_OneLine(row, include_summary) ==
    IF include_summary /\ row.summary # << >> THEN row.title \o <<" ">> \o row.summary ELSE row.title

(* _symbol_rows: what the rules are asked about.                           *)
Haystack(row, include_summary) ==
    IF include_summary /\ row.summary # << >> THEN row.title \o <<"\n">> \o row.summary ELSE row.title

TextRow(company, terms, row, include_summary) ==
    /\ TextClause(terms, row, include_summary)
    /\ text_matches_symbol(Haystack(row, include_summary), company, terms)

----------------------------------------------------------------------------
(* The search narrows, the rules decide: a row they would accept is always *)
(* found, however a term is spelled and wherever it stands.                *)
SearchLosesNothing(company, terms, row, include_summary) ==
    text_matches_symbol(Haystack(row, include_summary), company, terms) => TextRow(company, terms, row, include_summary)

(* An article that has the name of a company without its legal form,       *)
(* standing apart or with a particle behind it, is one of the company's,   *)
(* whatever commas and periods the full name has; but a short name only    *)
(* with its legal form, a name with a comma of its own not at all, and a   *)
(* name that ends as it begins not where what stands before it makes it    *)
(* appear earlier.                                                         *)
FoundByName(company, terms, before, after) ==
    \A i \in DOMAIN company.stems :
        LET stem == company.stems[i]
            row  == [title |-> before \o stem \o after, summary |-> << >>] IN
        Len(stem) >= MinBaseName /\ "," \notin ToSet(stem) =>
            \/ TextRow(company, terms, row, FALSE)
            \/ Found(Small(row.title), Small(stem)) # Places(Small(row.title), Small(stem))

(* The symbol of a company found in a text: as it is written, or, unless   *)
(* that is needed, like any other term.                                    *)
SymbolFound(company, text) ==
    LET symbol == company.symbol n == Len(symbol) IN
    /\ n > 1
    /\ IF ticker_needs_exact_case(company)
       THEN \E i \in Places(text, symbol) : Apart(text, i, n)
       ELSE is_text_symbol_match(text, symbol, FALSE)

(* docs/DESIGN.md 5.1: a ticker that is an English word counts only as it  *)
(* is written, in capitals.  Of the other terms none is the ticker in      *)
(* other letters, so a text is the company's just when its symbol is found *)
(* so, or another term.                                                    *)
WordIsNoTicker(company, terms, row) ==
    LET text  == Haystack(row, TRUE)
        names == {t \in terms : Small(t) # Small(company.symbol)} IN
    text_matches_symbol(text, company, terms) <=>
        SymbolFound(company, text) \/ \E t \in names : is_text_symbol_match(text, t, FALSE)
=============================================================================
