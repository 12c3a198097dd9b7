--------------------------- MODULE MCCalculations ---------------------------
(***************************************************************************)
(* Inputs of the pure parts for TLC, one state for each.                   *)
(***************************************************************************)
EXTENDS Calculations

----------------------------------------------------------------------------
(* Words and names.  ibm is a short word, bank a common one, 2024 a number; *)
(* the letters of hangul names are ga, na, da, i and ro, of which i is a   *)
(* particle.                                                               *)
MCWords  == ("apple" :> 5) @@ ("bank" :> 4) @@ ("ibm" :> 3) @@ ("nova" :> 4)
MCDigits == {"2024"}
MCLength == MCWords @@ ("2024" :> 4)
MCParticles == {<<"ro", "da">>, <<"i">>}

Ascii(key, words, curated, korean, caps, rank) ==
    [key |-> key, words |-> words, hangul |-> FALSE, curated |-> curated, korean |-> korean,
     caps |-> caps, rank |-> rank]
Hangul(key, words, curated, rank) ==
    [key |-> key, words |-> words, hangul |-> TRUE, curated |-> curated, korean |-> TRUE,
     caps |-> FALSE, rank |-> rank]

AsciiNames ==
    {Ascii("A", <<"apple">>, FALSE, FALSE, FALSE, 1), Ascii("B", <<"apple">>, FALSE, FALSE, FALSE, 2),
     Ascii("B", <<"apple">>, TRUE, FALSE, FALSE, 2), Ascii("C", <<"apple", "bank">>, FALSE, FALSE, FALSE, 3),
     Ascii("D", <<"ibm">>, FALSE, TRUE, TRUE, 4), Ascii("D", <<"ibm">>, TRUE, TRUE, FALSE, 4),
     Ascii("C", <<"bank">>, FALSE, FALSE, FALSE, 3), Ascii("D", <<"bank", "nova">>, FALSE, TRUE, FALSE, 4)}
NumberNames ==
    {Ascii("A", <<"2024">>, FALSE, FALSE, FALSE, 1), Ascii("A", <<"2024">>, TRUE, FALSE, FALSE, 1),
     Ascii("B", <<"apple", "2024">>, FALSE, FALSE, FALSE, 2), Ascii("C", <<"apple">>, FALSE, FALSE, FALSE, 3),
     Ascii("D", <<"2024", "2024">>, FALSE, FALSE, FALSE, 4)}
HangulNames ==
    {Hangul("A", <<"ga", "na", "da">>, FALSE, 1), Hangul("B", <<"ga", "na">>, TRUE, 2),
     Hangul("B", <<"ga", "na">>, FALSE, 2), Hangul("C", <<"ga", "na", "da", "i">>, FALSE, 3),
     Hangul("D", <<"na", "da">>, TRUE, 4)}

(* Directories of at most three names that differ in at most two.          *)
Directories(names) == UNION {kSubset(k, names) : k \in 0 .. 3}
Pairs(names) == {change \in Directories(names) \X Directories(names) :
                    Cardinality((change[1] \ change[2]) \union (change[2] \ change[1])) \in 1 .. 2}
MCChanges == [ascii |-> Pairs(AsciiNames), numbers |-> Pairs(NumberNames), hangul |-> Pairs(HangulNames)]

MCWord(word, form, joined) == [word |-> word, form |-> form, joined |-> joined]
MCForms == {<<"Title", "Title", "Title">>, <<"UPPER", "UPPER", "UPPER">>, <<"lower", "Title", "UPPER">>}
MCTitles == UNION {{[i \in 1 .. n |-> MCWord(ws[i], fs[i], fs[1] # "lower" \/ i # 3)] : ws \in [1 .. n -> DOMAIN MCWords], fs \in MCForms} :
                      n \in 1 .. 3}
AsciiTexts == {[title |-> t, summary |-> << >>, tokens |-> {}, refs |-> {}] : t \in MCTitles}
              \union {[title |-> << >>, summary |-> t, tokens |-> {}, refs |-> {"A"}] :
                         t \in {u \in MCTitles : Len(u) = 1}}
NumberTexts ==
    {[title |-> [i \in 1 .. n |-> MCWord(ws[i], IF ws[i] = "2024" THEN "Title" ELSE f, joined)],
      summary |-> << >>, tokens |-> {}, refs |-> {}] :
        n \in 1 .. 4, ws \in [1 .. 4 -> {"apple", "2024"}], f \in {"lower", "Title"}, joined \in BOOLEAN}
HangulTexts == {[title |-> << >>, summary |-> << >>, tokens |-> {t}, refs |-> {}] :
                   t \in UNION {[1 .. n -> {"ga", "na", "da", "i", "x"}] : n \in 2 .. 4}
                         \union {<<"ga", "na", "da", "i", "x">>, <<"ga", "na", "da", "i", "ro", "da">>}}

MCTexts == [ascii |-> AsciiTexts, numbers |-> NumberTexts, hangul |-> HangulTexts]

----------------------------------------------------------------------------
(* Terms: names that begin with the ticker AB or hold its letters apart,   *)
(* with legal forms c and c a behind commas, periods and spaces, a remark  *)
(* (x), a Korean legal form (co), and short hangul names.                  *)
MCLatin == {"a", "b", "c", "A", "B", "1", "x", " ", "\n", ",", ".", "(x)", "(co)"}
MCLower ==
    [l \in MCLatin \union {"ga", "na", "da", "i", "ro"} |-> CASE l = "A" -> "a" [] l = "B" -> "b" [] OTHER -> l]
MCAlnum == {"a", "b", "c", "A", "B", "1", "x"}
MCLegal == {<<"c">>, <<"c", " ", "a">>}
MCKrLegal == {"(co)"}
MCRemarks == {"(x)"}

Company(market, symbol, names, stems) ==
    [market |-> market, symbol |-> symbol, names |-> names, stems |-> stems]
MCListed ==
    {Company("US", <<"A", "B">>, << >>, << >>),
     Company("US", <<"A", "B">>, <<<<"A", "b", ",", " ", "c", ".">>>>, <<<<"A", "b">>>>),
     Company("US", <<"A", "B">>, <<<<"A", "B", " ", "c", ".", " ", "c", " ", "a">>>>, <<<<"A", "B">>>>),
     Company("US", <<"A", "B">>, <<<<"A", " ", "b", "(x)", "c">>>>, <<<<"A", " ", "b">>>>),
     Company("US", <<"A", "B">>, <<<<"A", "b", "a", " ", "c">>, <<"A", "B">>>>, <<<<"A", "b", "a">>, <<"A", "B">>>>),
     Company("US", <<"A", "B">>, <<<<"A", "b", "a", "b", ",", "c">>>>, <<<<"A", "b", "a", "b">>>>),
     Company("US", <<"A", "B">>, <<<<"a", " ", "b", ",", " ", "c">>>>, <<<<"a", " ", "b">>>>),
     Company("US", <<"A", "B">>, <<<<"b", ".", "a", " ", "c", ",", ".", "c">>>>, <<<<"b", ".", "a">>>>),
     Company("US", <<"A", "B">>, <<<<"a", ",", "b", " ", "c">>>>, <<<<"a", ",", "b">>>>),
     Company("KR", <<"1", "1">>, <<<<"ga", "na">>>>, <<<<"ga", "na">>>>),
     Company("KR", <<"1", "1">>, <<<<"(co)", "ga", "na", "i">>, <<"A", "B">>>>, <<<<"ga", "na", "i">>, <<"A", "B">>>>),
     Company("KR", <<"1", "1">>, <<<<"ga", " ", "na", ",", " ", "c">>>>, <<<<"ga", " ", "na">>>>),
     Company("KR", <<"1", "1">>, <<<<"(co)">>, <<"ga", "ga", " ", "(co)">>>>, <<<<"ga", "ga">>>>)}

MCPieces == {<<"A", "B">>, <<"A", "b">>, <<"a">>, <<"b">>, <<" ">>, <<"c">>, <<"ga">>, <<"na">>, <<"i">>, <<"1", "1">>}
MCLines == {FlattenSeq(s) : s \in UNION {[1 .. k -> MCPieces] : k \in 0 .. 2}}
MCSummaries == {<< >>, <<"b", " ", "c">>, <<"na", "i">>}
MCFronts == {<< >>, <<"x", " ">>, <<"ga">>}
MCBacks  == {<< >>, <<" ", "x">>, <<"i">>, <<"ro", "da">>}

----------------------------------------------------------------------------
MCIntervals == [open |-> 60, extended |-> 60, closed |-> 180]

MCFailures == {0, 3, 6}

(* Every seventh minute: all minutes between two steps of the scan occur.  *)
MCMoments == {7 * k : k \in 0 .. Week \div 7 - 1}

----------------------------------------------------------------------------
(* Four rows; the caps are smaller.                                        *)
MCRow(found, title, ts) == [tag |-> found[1], text |-> found[2], holds |-> found[3], title |-> title, ts |-> ts]
MCFound == {<<TRUE, FALSE, FALSE>>, <<FALSE, TRUE, TRUE>>, <<FALSE, TRUE, FALSE>>, <<TRUE, TRUE, TRUE>>}
MCTables == {[i \in 1 .. 4 |-> MCRow(found[i], titles[i], order[i])] :
                found \in [1 .. 4 -> MCFound], titles \in [1 .. 4 -> {1, 2}],
                order \in {<<1, 2, 3, 4>>, <<2, 1, 1, 0>>}}
MCQueries == [symbol : {TRUE}, match : {"tag", "text", "any"}, since : {-1, 0, 1}, limit : {1, 2}, dedup : BOOLEAN]
             \union [symbol : {FALSE}, match : {"any"}, since : {-1, 0, 1}, limit : {1, 2}, dedup : BOOLEAN]

----------------------------------------------------------------------------
MCTruths == {[b \in {"CFS", "OFS"} |-> IF b = "CFS" THEN t ELSE <<10, 20, 30, 40>>] : t \in [1 .. 4 -> {-1, 2}]}
MCLimits == 1 .. 12
MCDelays == 0 .. 6
MCYears  == {2024}

MCTagOrder(tag) == IF tag = "a" THEN 1 ELSE 2
MCTruth(tag, restated, end) ==
    (2 ^ (end + 3)) * (IF tag = "a" THEN 1 ELSE 4096) * (IF restated THEN 3 ELSE 1) * (IF end = 3 THEN -1 ELSE 1)
MCCompany(tags, quarters, fourth, restates, liable, minority) ==
    [tags |-> tags, quarters |-> quarters, fourth |-> fourth,
     restates |-> restates, liable |-> liable, minority |-> minority]

(* The tag changes up to three times, after any reports.                   *)
MCTags == {[r \in 1 .. 8 |-> IF r <= i \/ r \in j + 1 .. k THEN pair[1] ELSE pair[2]] :
              i \in 1 .. 8, j \in 1 .. 8, k \in 1 .. 8, pair \in {<<"a", "b">>, <<"b", "a">>}}
MCCompanies ==
    {MCCompany(tags, quarters, fourth, restates, {0, 1}, FALSE) :
        tags \in MCTags, quarters \in BOOLEAN, fourth \in BOOLEAN, restates \in BOOLEAN}
    \union {MCCompany([r \in 1 .. 8 |-> "a"], TRUE, TRUE, restates, liable, minority) :
               restates \in BOOLEAN, liable \in SUBSET {0, 1}, minority \in BOOLEAN}
=============================================================================
