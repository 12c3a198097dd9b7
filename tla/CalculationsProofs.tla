-------------------------- MODULE CalculationsProofs --------------------------
(***************************************************************************)
(* What the pure parts promise, for every text, directory, company, table, *)
(* query, interval and year: each section shows it for one of them, and    *)
(* the theorems at its end say that the inputs of Calculations are such.   *)
(* The last section is about the disclosures of Disclosures, the other     *)
(* thing that the server reads from DART.                                  *)
(***************************************************************************)
EXTENDS Calculations, Disclosures, FiniteSetTheorems, SequenceTheorems, WellFoundedInduction, TLAPS

----------------------------------------------------------------------------
(* Least and greatest elements.                                            *)

LEMMA LeastElement ==
    ASSUME NEW S \in SUBSET Nat, S # {}
    PROVE  Min(S) \in S /\ \A m \in S : Min(S) <= m
<1>1. \E x \in S : \A y \in S : ~ (<<y, x>> \in OpToRel(<, Nat))
  BY NatLessThanWellFounded, WFMin
<1>2. \E x \in S : \A y \in S : ~ (y < x)
  BY <1>1 DEF OpToRel
<1>3. \E x \in S : \A y \in S : x <= y
  BY <1>2
<1>4. QED BY <1>3 DEF Min

LEMMA GreatestElement ==
    ASSUME NEW b \in Nat, NEW S \in SUBSET (0 .. b), S # {}
    PROVE  Max(S) \in S /\ \A m \in S : m <= Max(S)
<1> DEFINE U == {u \in Nat : \A m \in S : m <= u}
           x == Min(U)
<1>1. b \in U
  OBVIOUS
<1>2. x \in U /\ \A u \in U : x <= u
  <2> HIDE DEF U
  <2>1. U \in SUBSET Nat
    BY DEF U
  <2>2. QED BY <1>1, <2>1, LeastElement
<1>3. x \in S
  <2> SUFFICES ASSUME x \notin S PROVE FALSE
    OBVIOUS
  <2> HIDE DEF x
  <2>1. x \in Nat /\ \A m \in S : m \in Nat /\ m < x
    BY <1>2
  <2>2. x # 0
    <3>1. PICK m \in S : TRUE
      OBVIOUS
    <3>2. QED BY <2>1, <3>1
  <2>3. x - 1 \in U
    BY <2>1, <2>2
  <2>4. QED BY <2>1, <2>2, <2>3, <1>2
<1>4. \E n \in S : \A m \in S : n >= m
  <2> HIDE DEF x
  <2> QED BY <1>2, <1>3
<1>5. QED BY <1>4 DEF Max

----------------------------------------------------------------------------
(* Names in texts.                                                         *)

(* Of finitely many numbers one is the largest.                            *)
AboveUpTo(f, n, m) == \E i \in 1 .. n : \A k \in 1 .. n : k <= m => f[k] <= f[i]

LEMMA OneMoreBelow ==
    ASSUME NEW f, NEW n \in Nat, NEW m \in Nat \ {0}, \A i \in 1 .. n : f[i] \in Nat, AboveUpTo(f, n, m - 1)
    PROVE  AboveUpTo(f, n, m)
<1>1. PICK i \in 1 .. n : \A k \in 1 .. n : k <= m - 1 => f[k] <= f[i]
  BY DEF AboveUpTo
<1>2. CASE m \in 1 .. n /\ f[i] <= f[m]
  <2>1. ASSUME NEW k \in 1 .. n, k <= m PROVE f[k] <= f[m]
    <3>1. f[k] \in Nat /\ f[i] \in Nat /\ f[m] \in Nat
      BY <1>2
    <3>2. k = m \/ k <= m - 1
      BY <2>1
    <3>3. QED BY <1>1, <1>2, <3>1, <3>2
  <2>2. QED BY <1>2, <2>1 DEF AboveUpTo
<1>3. CASE ~(m \in 1 .. n /\ f[i] <= f[m])
  <2>1. ASSUME NEW k \in 1 .. n, k <= m PROVE f[k] <= f[i]
    <3>1. f[k] \in Nat /\ f[i] \in Nat
      OBVIOUS
    <3>2. k = m \/ k <= m - 1
      BY <2>1
    <3>3. QED BY <1>1, <1>3, <3>1, <3>2
  <2>2. QED BY <2>1 DEF AboveUpTo
<1>4. QED BY <1>2, <1>3

LEMMA LargestOf ==
    ASSUME NEW f, NEW n \in Nat \ {0}, \A i \in 1 .. n : f[i] \in Nat
    PROVE  \E i \in 1 .. n : \A k \in 1 .. n : f[k] <= f[i]
<1> DEFINE S == {m \in Nat : ~AboveUpTo(f, n, m)}
<1>1. S = {}
  <2> SUFFICES ASSUME S # {} PROVE FALSE
    OBVIOUS
  <2>1. S \in SUBSET Nat
    OBVIOUS
  <2>2. Min(S) \in S /\ \A m \in S : Min(S) <= m
    <3> HIDE DEF S
    <3> QED BY <2>1, LeastElement
  <2> DEFINE x == Min(S)
  <2>3. x \in Nat /\ ~AboveUpTo(f, n, x) /\ \A m \in Nat : ~AboveUpTo(f, n, m) => x <= m
    BY <2>2
  <2> HIDE DEF x
  <2>4. AboveUpTo(f, n, 0)
    BY DEF AboveUpTo
  <2>5. x \in Nat \ {0} /\ AboveUpTo(f, n, x - 1)
    <3>1. x # 0
      BY <2>3, <2>4
    <3>2. x - 1 \in Nat /\ ~(x <= x - 1)
      BY <2>3, <3>1
    <3>3. QED BY <2>3, <3>1, <3>2
  <2>6. QED BY <2>3, <2>5, OneMoreBelow
<1>2. AboveUpTo(f, n, n)
  BY <1>1
<1>3. QED BY <1>2 DEF AboveUpTo

(* The longest word of a name is one of its words.                         *)
LEMMA LongestWordIsWord ==
    ASSUME NEW words, words \in Seq(DOMAIN Length), words # << >>
    PROVE  \E j \in DOMAIN words : LongestWord(words) = words[j]
<1> DEFINE f == [i \in DOMAIN words |-> Length[words[i]]]
           T == {j \in DOMAIN words : \A k \in DOMAIN words : Length[words[k]] <= Length[words[j]]}
<1>1. Len(words) \in Nat \ {0} /\ DOMAIN words = 1 .. Len(words)
  OBVIOUS
<1>2. \A i \in 1 .. Len(words) : f[i] = Length[words[i]] /\ f[i] \in Nat
  BY <1>1, CalculationsAssumption
<1>3. PICK i \in 1 .. Len(words) : \A k \in 1 .. Len(words) : f[k] <= f[i]
  <2> HIDE DEF f
  <2> QED BY <1>1, <1>2, LargestOf
<1>4. i \in T
  BY <1>1, <1>2, <1>3
<1>5. Min(T) \in T
  <2>1. T \in SUBSET Nat /\ T # {}
    BY <1>1, <1>4
  <2> HIDE DEF T
  <2> QED BY <2>1, LeastElement
<1>6. QED BY <1>5 DEF LongestWord

(* What the search for a changed name looks for in a text.                 *)
WordsOf(text) == {text.title[i].word : i \in DOMAIN text.title}
                 \union {text.summary[i].word : i \in DOMAIN text.summary}
IsMentioned(name, text) ==
    IF name[1] \in DOMAIN Length THEN LongestWord(name) \in WordsOf(text)
    ELSE \E token \in text.tokens : \E i \in DOMAIN token : IsPrefix(name, SubSeq(token, i, Len(token)))

(* No entry of a that b lacks is mentioned.                                *)
Unmentioned(a, b, text) == \A entry \in Snapshot(a) : entry \notin Snapshot(b) => ~IsMentioned(entry[1], text)

LEMMA ChangesUnmentioned ==
    ASSUME NEW old, NEW new, NEW text, ~IsCandidate(old, new, text)
    PROVE  Unmentioned(old, new, text) /\ Unmentioned(new, old, text)
<1>1. \A name \in ChangedNames(old, new) : ~IsMentioned(name, text)
  BY DEF IsCandidate, IsMentioned, WordsOf
<1>2. \A entry : entry \in Snapshot(old) /\ entry \notin Snapshot(new) => entry[1] \in ChangedNames(old, new)
  BY DEF ChangedNames
<1>3. \A entry : entry \in Snapshot(new) /\ entry \notin Snapshot(old) => entry[1] \in ChangedNames(old, new)
  BY DEF ChangedNames
<1>4. QED BY <1>1, <1>2, <1>3 DEF Unmentioned

(* The two kinds of entries of a snapshot.                                 *)
IsEntryOf(n, w, k, e, u) == ~n.hangul /\ n.words = w /\ n.key = k /\ Exact(n) = e /\ n.curated = u

LEMMA Entries ==
    ASSUME NEW d
    PROVE  /\ \A n \in Index(d) : n.hangul => <<n.words, n.key>> \in Snapshot(d)
           /\ \A n \in Index(d) : ~n.hangul => <<n.words, n.key, n.caps, Exact(n), n.curated>> \in Snapshot(d)
           /\ \A w, k : <<w, k>> \in Snapshot(d) =>
                 \E n \in Index(d) : n.hangul /\ n.words = w /\ n.key = k
           /\ \A w, k, c, e, u : <<w, k, c, e, u>> \in Snapshot(d) =>
                 \E n \in Index(d) : IsEntryOf(n, w, k, e, u)
<1>1. \A w, k, n : <<w, k>> # <<n.words, n.key, n.caps, Exact(n), n.curated>>
  OBVIOUS
<1>2. \A w, k, c, e, u, n : <<w, k, c, e, u>> # <<n.words, n.key>>
  OBVIOUS
<1>3. QED BY <1>1, <1>2 DEF Snapshot, IsEntryOf

Named(d) == \A n \in d : IsName(n)

(* A hangul name found in the text is in the other index too.              *)
HangulFits(n, token) ==
    /\ n.hangul /\ Len(n.words) >= 2 /\ IsPrefix(n.words, token)
    /\ SuffixOk(SubSeq(token, Len(n.words) + 1, Len(token)), Len(n.words) <= 2)

LEMMA HangulNameKept ==
    ASSUME NEW a, NEW b, NEW text, Named(a), IsText(text), Unmentioned(a, b, text),
           NEW token \in text.tokens, NEW n \in Index(a), HangulFits(n, token)
    PROVE  \E m \in Index(b) : HangulFits(m, token) /\ m.words = n.words /\ m.key = n.key
<1>1. n \in a /\ IsName(n)
  BY DEF Index, Named
<1>2. n.hangul /\ Len(n.words) >= 2 /\ IsPrefix(n.words, token)
  BY DEF HangulFits
<1>3. n.words \in Seq(ToSet(n.words)) /\ token \in Seq(ToSet(token))
  BY <1>1 DEF IsName, IsText
<1>4. 1 \in DOMAIN n.words /\ 1 \in DOMAIN token /\ SubSeq(token, 1, Len(token)) = token
  BY <1>2, <1>3 DEF IsPrefix
<1>5. n.words[1] \notin DOMAIN Length
  BY <1>1, <1>2, <1>4 DEF IsName
<1>6. IsMentioned(n.words, text)
  BY <1>2, <1>4, <1>5 DEF IsMentioned
<1>7. <<n.words, n.key>> \in Snapshot(a) /\ <<n.words, n.key>>[1] = n.words
  BY <1>2, Entries
<1>8. <<n.words, n.key>> \in Snapshot(b)
  BY <1>6, <1>7 DEF Unmentioned
<1>9. PICK m \in Index(b) : m.hangul /\ m.words = n.words /\ m.key = n.key
  BY <1>8, Entries
<1>10. HangulFits(m, token)
  BY <1>9 DEF HangulFits
<1>11. QED BY <1>9, <1>10

LEMMA HangulTagsKept ==
    ASSUME NEW a, NEW b, NEW text, Named(a), Named(b), IsText(text),
           Unmentioned(a, b, text), Unmentioned(b, a, text), NEW token \in text.tokens
    PROVE  TagHangul(Index(a), token) \subseteq TagHangul(Index(b), token)
<1> DEFINE fits(d) == {n \in Index(d) : HangulFits(n, token)}
           longest(d) == {m \in fits(d) : \A o \in fits(d) : Len(o.words) <= Len(m.words)}
<1>1. \A d : TagHangul(Index(d), token) = {n.key : n \in longest(d)}
  BY DEF TagHangul, HangulFits
<1>2. ASSUME NEW n \in longest(a) PROVE \E m \in longest(b) : m.key = n.key
  <2>1. PICK m \in Index(b) : HangulFits(m, token) /\ m.words = n.words /\ m.key = n.key
    BY HangulNameKept
  <2>2. ASSUME NEW o \in fits(b) PROVE Len(o.words) <= Len(m.words)
    <3>1. PICK p \in Index(a) : HangulFits(p, token) /\ p.words = o.words
      BY HangulNameKept
    <3>2. QED BY <3>1, <2>1
  <2>3. QED BY <2>1, <2>2
<1> HIDE DEF longest
<1>3. QED BY <1>1, <1>2

(* An ASCII name found in a part of the text is in the other index too.    *)
LEMMA NameKept ==
    ASSUME NEW a, NEW b, NEW text, NEW part, Named(a), IsText(text), Unmentioned(a, b, text),
           part = text.title \/ part = text.summary,
           NEW i \in DOMAIN part, NEW n \in Index(a), ~n.hangul, Fits(n, part, i)
    PROVE  \E m \in Index(b) : ~m.hangul /\ Fits(m, part, i) /\ m.words = n.words /\ m.key = n.key
<1>1. n \in a /\ IsName(n) /\ Indexable(n)
  BY DEF Index, Named
<1>2. n.words \in Seq(ToSet(n.words)) /\ part \in Seq(ToSet(part))
  BY <1>1 DEF IsName, IsText
<1>3. Len(n.words) \in Nat \ {0} /\ DOMAIN n.words = 1 .. Len(n.words) /\ DOMAIN part = 1 .. Len(part) /\ Len(part) \in Nat
  BY <1>1, <1>2 DEF Indexable
<1>4. \A j \in DOMAIN n.words : n.words[j] \in DOMAIN Length
  BY <1>1 DEF IsName
<1>5. n.words \in Seq(DOMAIN Length) /\ n.words # << >>
  BY <1>2, <1>3, <1>4
<1>6. PICK j \in DOMAIN n.words : LongestWord(n.words) = n.words[j]
  BY <1>5, LongestWordIsWord
<1>7. i + Len(n.words) - 1 <= Len(part) /\ n.words = [k \in 1 .. Len(n.words) |-> part[i + k - 1].word]
  BY DEF Fits, Span
<1>8. i + j - 1 \in DOMAIN part /\ n.words[j] = part[i + j - 1].word
  <2>1. i + j - 1 \in DOMAIN part
    BY <1>3, <1>7
  <2>2. j \in 1 .. Len(n.words)
    BY <1>3
  <2>3. n.words[j] = part[i + j - 1].word
    BY <1>7, <2>2
  <2>4. QED BY <2>1, <2>3
<1>9. n.words[1] \in DOMAIN Length /\ LongestWord(n.words) \in WordsOf(text)
  <2>1. 1 \in DOMAIN n.words
    BY <1>3
  <2>2. n.words[1] \in DOMAIN Length
    BY <1>4, <2>1
  <2>3. \A k \in DOMAIN part : part[k].word \in WordsOf(text)
    BY DEF WordsOf
  <2>4. LongestWord(n.words) \in WordsOf(text)
    BY <1>6, <1>8, <2>3
  <2>5. QED BY <2>2, <2>4
<1>10. IsMentioned(n.words, text)
  BY <1>9 DEF IsMentioned
<1> DEFINE entry == <<n.words, n.key, n.caps, Exact(n), n.curated>>
<1>11. entry \in Snapshot(a)
  BY Entries, Zenon
<1>12. entry[1] = n.words
  OBVIOUS
<1>13. entry \in Snapshot(b)
  <2> HIDE DEF entry
  <2> QED BY <1>10, <1>11, <1>12, Zenon DEF Unmentioned
<1>14. PICK m \in Index(b) : IsEntryOf(m, n.words, n.key, Exact(n), n.curated)
  BY <1>13, Entries, Zenon
<1>15. ~m.hangul /\ m.words = n.words /\ m.key = n.key /\ Exact(m) = Exact(n) /\ m.curated = n.curated
  BY <1>14, Zenon DEF IsEntryOf
<1>16. Fits(m, part, i)
  BY <1>15, Zenon DEF Fits
<1>17. QED BY <1>15, <1>16, Zenon

LEMMA FoundKept ==
    ASSUME NEW a, NEW b, NEW text, NEW part, Named(a), IsText(text), Unmentioned(a, b, text),
           part = text.title \/ part = text.summary, NEW i \in DOMAIN part
    PROVE  FitsAt(Index(a), part)[i] \subseteq FitsAt(Index(b), part)[i]
<1> DEFINE names(d) == {m \in Index(d) : ~m.hangul /\ Fits(m, part, i)}
<1>1. \A d : FitsAt(Index(d), part)[i] = {<<Len(n.words), n.key>> : n \in names(d)}
  BY DEF FitsAt
<1>2. ASSUME NEW n, n \in names(a) PROVE \E m \in names(b) : m.words = n.words /\ m.key = n.key
  <2>1. n \in Index(a) /\ ~n.hangul /\ Fits(n, part, i)
    BY <1>2
  <2>2. PICK m \in Index(b) : ~m.hangul /\ Fits(m, part, i) /\ m.words = n.words /\ m.key = n.key
    BY <2>1, NameKept
  <2>3. m \in names(b)
    BY <2>2
  <2>4. QED BY <2>2, <2>3, Zenon
<1>3. ASSUME NEW f, f \in FitsAt(Index(a), part)[i] PROVE f \in FitsAt(Index(b), part)[i]
  <2> HIDE DEF names
  <2>1. PICK n \in names(a) : f = <<Len(n.words), n.key>>
    BY <1>1, <1>3
  <2>2. PICK m \in names(b) : m.words = n.words /\ m.key = n.key
    BY <1>2, Zenon
  <2>3. f = <<Len(m.words), m.key>>
    BY <2>1, <2>2
  <2>4. QED BY <1>1, <2>3, Zenon
<1>4. QED BY <1>3

LEMMA TagsKept ==
    ASSUME NEW a, NEW b, NEW text, NEW part, Named(a), Named(b), IsText(text),
           Unmentioned(a, b, text), Unmentioned(b, a, text), part = text.title \/ part = text.summary
    PROVE  TagAscii(Index(a), part) = TagAscii(Index(b), part)
<1>1. \A i \in DOMAIN part : FitsAt(Index(a), part)[i] = FitsAt(Index(b), part)[i]
  <2> SUFFICES ASSUME NEW i \in DOMAIN part PROVE FitsAt(Index(a), part)[i] = FitsAt(Index(b), part)[i]
    OBVIOUS
  <2>1. FitsAt(Index(a), part)[i] \subseteq FitsAt(Index(b), part)[i]
    BY FoundKept, Zenon
  <2>2. FitsAt(Index(b), part)[i] \subseteq FitsAt(Index(a), part)[i]
    BY FoundKept, Zenon
  <2>3. QED BY <2>1, <2>2
<1>2. FitsAt(Index(a), part) = [i \in DOMAIN part |-> FitsAt(Index(a), part)[i]]
  BY Zenon DEF FitsAt
<1>3. FitsAt(Index(b), part) = [i \in DOMAIN part |-> FitsAt(Index(b), part)[i]]
  BY Zenon DEF FitsAt
<1>4. FitsAt(Index(a), part) = FitsAt(Index(b), part)
  BY <1>1, <1>2, <1>3
<1>5. QED BY <1>4, Zenon DEF TagAscii

LEMMA CandidatesAreAll ==
    ASSUME NEW old, NEW new, NEW text, Named(old), Named(new), IsText(text)
    PROVE  SelectsAll(old, new, text)
<1> SUFFICES ASSUME ~IsCandidate(old, new, text) PROVE Tags(old, text) = Tags(new, text)
  BY DEF SelectsAll
<1>1. Unmentioned(old, new, text) /\ Unmentioned(new, old, text)
  BY ChangesUnmentioned
<1>2. text.refs \cap Keys(old) = text.refs \cap Keys(new)
  <2>1. ChangedCodes(old, new) \cap text.refs = {}
    BY DEF IsCandidate
  <2>2. QED BY <2>1 DEF ChangedCodes
<1>3. TagAscii(Index(old), text.title) = TagAscii(Index(new), text.title)
  BY <1>1, TagsKept
<1>4. TagAscii(Index(old), text.summary) = TagAscii(Index(new), text.summary)
  BY <1>1, TagsKept
<1>5. \A token \in text.tokens : TagHangul(Index(old), token) = TagHangul(Index(new), token)
  <2> SUFFICES ASSUME NEW token \in text.tokens PROVE TagHangul(Index(old), token) = TagHangul(Index(new), token)
    OBVIOUS
  <2>1. TagHangul(Index(old), token) \subseteq TagHangul(Index(new), token)
    BY <1>1, HangulTagsKept
  <2>2. TagHangul(Index(new), token) \subseteq TagHangul(Index(old), token)
    BY <1>1, HangulTagsKept
  <2>3. QED BY <2>1, <2>2
<1>6. UNION {TagHangul(Index(old), token) : token \in text.tokens}
      = UNION {TagHangul(Index(new), token) : token \in text.tokens}
  BY <1>5
<1>7. QED BY <1>2, <1>3, <1>4, <1>6 DEF Tags

----------------------------------------------------------------------------
(* Searches.                                                               *)

(* Where a term stands in a text.                                          *)
StandsAt(text, term, i) ==
    /\ i \in 1 .. Len(text) - Len(term) + 1
    /\ \A k \in 1 .. Len(term) : text[i + k - 1] = term[k]

LEMMA PlacesStand ==
    ASSUME NEW S, NEW text \in Seq(S), NEW term \in Seq(S)
    PROVE  \A i : i \in Places(text, term) <=> StandsAt(text, term, i)
<1>1. Len(text) \in Nat /\ Len(term) \in Nat /\ DOMAIN text = 1 .. Len(text) /\ DOMAIN term = 1 .. Len(term)
  BY LenProperties
<1>2. ASSUME NEW i \in 1 .. Len(text) - Len(term) + 1
      PROVE  SubSeq(text, i, i + Len(term) - 1) = term <=> \A k \in 1 .. Len(term) : text[i + k - 1] = term[k]
  <2> DEFINE n == Len(term)
             part == SubSeq(text, i, i + n - 1)
  <2> DEFINE hi == i + n - 1
  <2>1. i \in Int /\ hi \in Int /\ \A j \in i .. hi : text[j] \in S
    BY <1>1
  <2>2. /\ SubSeq(text, i, hi) \in Seq(S)
        /\ Len(SubSeq(text, i, hi)) = IF i <= hi THEN hi - i + 1 ELSE 0
        /\ \A k \in 1 .. hi - i + 1 : SubSeq(text, i, hi)[k] = text[i + k - 1]
    <3> HIDE DEF hi
    <3> QED BY <2>1, SubSeqProperties
  <2>3. part \in Seq(S) /\ Len(part) = n /\ \A k \in 1 .. n : part[k] = text[i + k - 1]
    BY <1>1, <2>1, <2>2
  <2>4. part = term <=> \A k \in 1 .. n : part[k] = term[k]
    <3> HIDE DEF part
    <3> QED BY <2>3, SeqEqual
  <2> HIDE DEF part
  <2>5. part = term <=> \A k \in 1 .. n : text[i + k - 1] = term[k]
    BY <2>3, <2>4
  <2>6. QED BY <2>5 DEF part
<1>3. QED BY <1>2 DEF Places, StandsAt

LEMMA SmallProperties ==
    ASSUME NEW text \in Seq(DOMAIN Lower)
    PROVE  /\ Small(text) \in Seq({Lower[c] : c \in DOMAIN Lower})
           /\ Len(Small(text)) = Len(text)
           /\ \A i \in 1 .. Len(text) : Small(text)[i] = Lower[text[i]]
<1>1. Len(text) \in Nat /\ DOMAIN text = 1 .. Len(text) /\ \A i \in 1 .. Len(text) : text[i] \in DOMAIN Lower
  BY LenProperties
<1>2. Small(text) \in [1 .. Len(text) -> {Lower[c] : c \in DOMAIN Lower}]
  BY <1>1 DEF Small
<1>3. Small(text) \in Seq({Lower[c] : c \in DOMAIN Lower})
  BY <1>1, <1>2, IsASeq
<1>4. Len(Small(text)) = Len(text)
  BY <1>1, <1>2, <1>3, LenProperties
<1>5. QED BY <1>1, <1>3, <1>4 DEF Small

(* Where a term stands, its small letters stand in those of the text.      *)
LEMMA SmallStands ==
    ASSUME NEW text \in Seq(DOMAIN Lower), NEW term \in Seq(DOMAIN Lower), Places(text, term) # {}
    PROVE  Places(Small(text), Small(term)) # {}
<1>1. PICK i : StandsAt(text, term, i)
  BY PlacesStand
<1>2. /\ Small(text) \in Seq({Lower[c] : c \in DOMAIN Lower}) /\ Len(Small(text)) = Len(text)
      /\ Small(term) \in Seq({Lower[c] : c \in DOMAIN Lower}) /\ Len(Small(term)) = Len(term)
      /\ \A k \in 1 .. Len(text) : Small(text)[k] = Lower[text[k]]
      /\ \A k \in 1 .. Len(term) : Small(term)[k] = Lower[term[k]]
      /\ Len(text) \in Nat /\ Len(term) \in Nat
  BY SmallProperties, LenProperties
<1>3. StandsAt(Small(text), Small(term), i)
  <2>1. ASSUME NEW k \in 1 .. Len(term) PROVE Small(text)[i + k - 1] = Small(term)[k]
    <3>1. i + k - 1 \in 1 .. Len(text) /\ text[i + k - 1] = term[k]
      BY <1>1, <1>2 DEF StandsAt
    <3>2. QED BY <1>2, <3>1
  <2>2. QED BY <1>1, <1>2, <2>1 DEF StandsAt
<1>4. QED BY <1>2, <1>3, PlacesStand

(* A scan for a term that stands nowhere finds nothing.                    *)
LEMMA NothingFound ==
    ASSUME NEW text, NEW term, Len(text) \in Nat, Len(term) \in Nat \ {0}, Places(text, term) = {}
    PROVE  Found(text, term) = {}
<1> DEFINE n == Len(text)
           N == Len(text) + Len(term)
           Scan(f) == [i \in 1 .. N |-> IF i > n THEN {} ELSE IF i \in {} THEN {i} \union f[i + Len(term)] ELSE f[i + 1]]
           from == CHOOSE f : f = Scan(f)
<1>1. Found(text, term) = from[1]
  BY DEF Found
<1> DEFINE none == [i \in 1 .. N |-> {}]
<1>2. none = Scan(none)
  OBVIOUS
<1>3. from = Scan(from)
  <2> HIDE DEF Scan, none
  <2> QED BY <1>2
<1>4. \A i \in 1 .. N : from[i] = IF i > n THEN {} ELSE from[i + 1]
  <2> HIDE DEF from
  <2> QED BY <1>3
<1> HIDE DEF from
<1> DEFINE S == {m \in 0 .. N - 1 : from[N - m] # {}}
<1>5. S = {}
  <2> SUFFICES ASSUME S # {} PROVE FALSE
    OBVIOUS
  <2>1. S \in SUBSET Nat
    OBVIOUS
  <2>2. Min(S) \in S /\ \A m \in S : Min(S) <= m
    <3> HIDE DEF S
    <3> QED BY <2>1, LeastElement
  <2> DEFINE x == Min(S)
  <2>3. x \in 0 .. N - 1 /\ from[N - x] # {} /\ \A m \in 0 .. N - 1 : from[N - m] # {} => x <= m
    BY <2>2
  <2> HIDE DEF x
  <2>4. N - x \in 1 .. N /\ ~(N - x > n) /\ from[N - x] = from[(N - x) + 1]
    BY <1>4, <2>3
  <2>5. x - 1 \in 0 .. N - 1 /\ (N - x) + 1 = N - (x - 1) /\ ~(x <= x - 1)
    BY <2>3, <2>4
  <2>6. QED BY <2>3, <2>4, <2>5
<1>6. N - 1 \in 0 .. N - 1 /\ N - (N - 1) = 1
  OBVIOUS
<1>7. QED BY <1>1, <1>5, <1>6

(* Whatever the rules accept stands in the text, but for capitals.         *)
LEMMA MatchStands ==
    ASSUME NEW text \in Seq(DOMAIN Lower), NEW term \in Seq(DOMAIN Lower), Len(term) > 0,
           NEW exact, is_text_symbol_match(text, term, exact)
    PROVE  Places(Small(text), Small(term)) # {}
<1>1. CASE \E i \in Places(text, term) : Apart(text, i, Len(term))
  BY <1>1, SmallStands
<1>2. CASE \E i \in Places(Small(text), Small(term)) : Apart(Small(text), i, Len(term))
  BY <1>2
<1>3. CASE Found(Small(text), Small(term)) # {}
  <2>1. Len(Small(text)) \in Nat /\ Len(Small(term)) \in Nat \ {0}
    <3>1. Len(Small(text)) = Len(text) /\ Len(Small(term)) = Len(term)
      BY SmallProperties
    <3>2. QED BY <3>1
  <2>2. QED BY <1>3, <2>1, NothingFound
<1>4. QED BY <1>1, <1>2, <1>3, Zenon DEF is_text_symbol_match

(* A term without a line break stands in the title or in the summary.      *)
LEMMA StandsInColumn ==
    ASSUME NEW title \in Seq(DOMAIN Lower), NEW summary \in Seq(DOMAIN Lower),
           NEW term \in Seq(DOMAIN Lower \ {"\n"}),
           Places(Small(title \o <<"\n">> \o summary), Small(term)) # {}
    PROVE  Places(Small(title), Small(term)) # {} \/ Places(Small(summary), Small(term)) # {}
<1> DEFINE text == title \o <<"\n">> \o summary
           L == Len(title)
           n == Len(term)
<1>1. /\ text \in Seq(DOMAIN Lower) /\ Len(text) = L + 1 + Len(summary)
      /\ \A k \in 1 .. L : text[k] = title[k]
      /\ text[L + 1] = "\n"
      /\ \A k \in 1 .. Len(summary) : text[L + 1 + k] = summary[k]
      /\ L \in Nat /\ n \in Nat /\ Len(summary) \in Nat
  <2>1. "\n" \in DOMAIN Lower
    BY TextSearchAssumption
  <2>2. QED BY <2>1
<1>2. term \in Seq(DOMAIN Lower) /\ \A k \in 1 .. n : term[k] \in DOMAIN Lower /\ term[k] # "\n"
  OBVIOUS
<1> HIDE DEF text
<1>3. /\ Small(text) \in Seq({Lower[c] : c \in DOMAIN Lower}) /\ Len(Small(text)) = Len(text)
      /\ Small(title) \in Seq({Lower[c] : c \in DOMAIN Lower}) /\ Len(Small(title)) = Len(title)
      /\ Small(summary) \in Seq({Lower[c] : c \in DOMAIN Lower}) /\ Len(Small(summary)) = Len(summary)
      /\ Small(term) \in Seq({Lower[c] : c \in DOMAIN Lower}) /\ Len(Small(term)) = n
      /\ \A k \in 1 .. Len(text) : Small(text)[k] = Lower[text[k]]
      /\ \A k \in 1 .. Len(title) : Small(title)[k] = Lower[title[k]]
      /\ \A k \in 1 .. Len(summary) : Small(summary)[k] = Lower[summary[k]]
      /\ \A k \in 1 .. n : Small(term)[k] = Lower[term[k]]
  BY <1>1, <1>2, SmallProperties
<1>4. PICK i : StandsAt(Small(text), Small(term), i)
  <2>1. Places(Small(text), Small(term)) # {}
    BY DEF text
  <2>2. QED BY <2>1, <1>3, PlacesStand
<1>5. i \in 1 .. L + 1 + Len(summary) - n + 1 /\ \A k \in 1 .. n : Small(text)[i + k - 1] = Small(term)[k]
  BY <1>1, <1>3, <1>4 DEF StandsAt
<1>6. CASE i + n - 1 <= L
  <2>1. ASSUME NEW k \in 1 .. n PROVE Small(title)[i + k - 1] = Small(term)[k]
    <3>1. i + k - 1 \in 1 .. L /\ i + k - 1 \in 1 .. Len(text)
      BY <1>1, <1>5, <1>6
    <3> DEFINE p == i + k - 1
    <3>2. Small(text)[p] = Small(term)[k]
      BY <1>5
    <3>3. Small(text)[p] = Lower[text[p]] /\ Small(title)[p] = Lower[title[p]] /\ text[p] = title[p]
      <4> HIDE DEF p
      <4> QED BY <1>1, <1>3, <3>1 DEF p
    <3>4. QED BY <3>2, <3>3
  <2>2. StandsAt(Small(title), Small(term), i)
    BY <1>1, <1>3, <1>5, <1>6, <2>1 DEF StandsAt
  <2>3. QED BY <1>3, <2>2, PlacesStand
<1>7. CASE i > L + 1
  <2> DEFINE j == i - (L + 1)
  <2>1. ASSUME NEW k \in 1 .. n PROVE Small(summary)[j + k - 1] = Small(term)[k]
    <3>1. j + k - 1 \in 1 .. Len(summary) /\ i + k - 1 \in 1 .. Len(text) /\ i + k - 1 = L + 1 + (j + k - 1)
      BY <1>1, <1>5, <1>7
    <3> DEFINE p == i + k - 1
               o == j + k - 1
    <3>2. Small(text)[p] = Small(term)[k]
      BY <1>5
    <3>3. o \in 1 .. Len(summary) /\ p \in 1 .. Len(text) /\ p = L + 1 + o
      BY <3>1
    <3> HIDE DEF p, o
    <3>4. Small(text)[p] = Lower[text[p]]
      BY <1>3, <3>3
    <3>5. Small(summary)[o] = Lower[summary[o]]
      BY <1>3, <3>3
    <3>6. text[p] = summary[o]
      BY <1>1, <3>3
    <3>7. Small(summary)[o] = Small(term)[k]
      BY <3>2, <3>4, <3>5, <3>6
    <3>8. QED BY <3>7 DEF o
  <2>2. j \in 1 .. Len(summary) - n + 1
    BY <1>1, <1>5, <1>7
  <2>3. StandsAt(Small(summary), Small(term), j)
    BY <1>3, <2>1, <2>2 DEF StandsAt
  <2>4. QED BY <1>3, <2>3, PlacesStand
<1>8. CASE ~(i + n - 1 <= L) /\ ~(i > L + 1)
  <2> DEFINE k == L + 1 - i + 1
  <2>1. k \in 1 .. n /\ i + k - 1 = L + 1 /\ L + 1 \in 1 .. Len(text)
    BY <1>1, <1>5, <1>8
  <2>2. Lower["\n"] = Lower[term[k]]
    <3> DEFINE p == L + 1
    <3>1. Small(text)[i + k - 1] = Small(term)[k]
      BY <1>5, <2>1
    <3>2. i + k - 1 = p /\ p \in 1 .. Len(text)
      BY <2>1
    <3>3. text[p] = "\n"
      BY <1>1
    <3> HIDE DEF p, k
    <3>4. Small(text)[p] = Small(term)[k]
      BY <3>1, <3>2
    <3>5. Small(text)[p] = Lower[text[p]] /\ Small(term)[k] = Lower[term[k]]
      BY <1>3, <2>1, <3>2
    <3>6. QED BY <3>3, <3>4, <3>5
  <2>3. QED BY <1>2, <2>1, <2>2, TextSearchAssumption
<1>9. QED BY <1>6, <1>7, <1>8

(* The symbol is the first of the terms unless it has a comma or is one    *)
(* letter, and no other one differs from it in capitals only.              *)
LEMMA SymbolIsFirst ==
    ASSUME NEW company, company.names \in Seq(ToSet(company.names)),
           NEW sym, sym = company.symbol
    PROVE  /\ "," \notin ToSet(sym) /\ Len(sym) > 1 => sym \in build_search_terms(company)
           /\ \A term \in build_search_terms(company) :
                 /\ Len(term) > 1
                 /\ "," \notin ToSet(sym) /\ Len(sym) > 1 /\ Small(term) = Small(sym) => term = sym
<1> DEFINE forms == [i \in DOMAIN company.names |-> Forms(company.names[i])]
           candidates == {<<0, company.symbol>>}
                         \union UNION {{<<4 * i + j, forms[i][j]>> : j \in 1 .. 4} : i \in DOMAIN company.names}
           variants == {<<2 * c[1], c[2]>> : c \in candidates}
                       \union {<<2 * c[1] + 1, Without(c[2], {" "})>> : c \in candidates}
           usable == {v \in variants : "," \notin ToSet(v[2]) /\ Len(v[2]) > 1}
           kept == {u \in usable : \A w \in usable : w[1] < u[1] => Small(w[2]) # Small(u[2])}
<1>1. build_search_terms(company) = {v[2] : v \in kept}
  BY DEF build_search_terms
<1>2. \A c \in candidates : c[1] \in Nat /\ (c[1] = 0 => c[2] = sym)
  <2>1. DOMAIN company.names = 1 .. Len(company.names) /\ Len(company.names) \in Nat
    BY LenProperties
  <2>2. ASSUME NEW c \in candidates, c # <<0, company.symbol>> PROVE c[1] \in Nat \ {0}
    <3> HIDE DEF forms
    <3>1. PICK i \in DOMAIN company.names : \E j \in 1 .. 4 : c = <<4 * i + j, forms[i][j]>>
      BY <2>2, Zenon
    <3>2. PICK j \in 1 .. 4 : c = <<4 * i + j, forms[i][j]>>
      BY <3>1
    <3> HIDE DEF candidates
    <3>3. i \in Nat /\ j \in Nat \ {0} /\ c[1] = 4 * i + j
      BY <2>1, <3>2
    <3>4. QED BY <3>3
  <2>3. ASSUME NEW c, c = <<0, sym>> PROVE c[1] \in Nat /\ c[2] = sym
    BY <2>3
  <2> HIDE DEF candidates
  <2>4. QED BY <2>2, <2>3
<1>3. <<0, sym>> \in candidates
  BY Zenon
<1> HIDE DEF candidates
<1>4. <<0, sym>> \in variants /\ \A v \in variants : v[1] \in Nat /\ (v[1] = 0 => v[2] = sym)
  <2>1. PICK z \in candidates : z = <<0, sym>>
    BY <1>3
  <2>2. <<2 * z[1], z[2]>> \in variants
    BY Zenon
  <2>3. <<2 * z[1], z[2]>> = <<0, sym>>
    <3> HIDE DEF variants
    <3> QED BY <2>1
  <2>4. ASSUME NEW v \in variants PROVE v[1] \in Nat /\ (v[1] = 0 => v[2] = sym)
    <3>1. PICK c \in candidates : v = <<2 * c[1], c[2]>> \/ v = <<2 * c[1] + 1, Without(c[2], {" "})>>
      BY Zenon
    <3> HIDE DEF variants
    <3>2. c[1] \in Nat /\ (c[1] = 0 => c[2] = sym)
      BY <1>2
    <3>3. CASE v = <<2 * c[1], c[2]>>
      <4>1. v[1] = 2 * c[1] /\ v[2] = c[2]
        BY <3>3
      <4>2. QED BY <3>2, <4>1
    <3>4. CASE v = <<2 * c[1] + 1, Without(c[2], {" "})>>
      <4>1. v[1] = 2 * c[1] + 1
        BY <3>4
      <4>2. QED BY <3>2, <4>1
    <3>5. QED BY <3>1, <3>3, <3>4
  <2>5. QED BY <2>2, <2>3, <2>4
<1> HIDE DEF variants
<1>5. PICK first \in variants : first[1] = 0 /\ first[2] = sym
  <2>1. PICK v \in variants : v = <<0, sym>>
    BY <1>4
  <2>2. v[1] = 0 /\ v[2] = sym
    BY <2>1
  <2>3. QED BY <2>2
<1>6. ASSUME "," \notin ToSet(sym), Len(sym) > 1 PROVE first \in usable
  BY <1>5, <1>6
<1>7. \A u \in usable : u[1] \in Nat /\ (u[1] = 0 => u[2] = sym) /\ Len(u[2]) > 1
  BY <1>4
<1> HIDE DEF usable
<1>8. ASSUME "," \notin ToSet(sym), Len(sym) > 1 PROVE sym \in {v[2] : v \in kept}
  <2>1. \A w \in usable : ~(w[1] < first[1])
    BY <1>5, <1>7
  <2>2. first \in kept
    BY <1>6, <1>8, <2>1, Zenon
  <2>3. QED BY <1>5, <2>2, Zenon
<1>9. ASSUME NEW u \in kept, "," \notin ToSet(sym), Len(sym) > 1, Small(u[2]) = Small(sym) PROVE u[2] = sym
  <2>1. first \in usable
    BY <1>6, <1>9
  <2>2. first[1] < u[1] => Small(first[2]) # Small(u[2])
    BY <2>1, Zenon
  <2>3. ~(0 < u[1])
    BY <1>5, <1>9, <2>2
  <2>4. u \in usable
    BY Zenon
  <2>5. u[1] = 0
    BY <1>7, <2>3, <2>4
  <2>6. QED BY <1>7, <2>4, <2>5
<1>10. \A u \in kept : Len(u[2]) > 1
  BY <1>7
<1> HIDE DEF kept
<1>11. QED BY <1>1, <1>8, <1>9, <1>10

LEMMA SearchesSuffice ==
    ASSUME NEW company, company.names \in Seq(ToSet(company.names)),
           \A term \in build_search_terms(company) : term \in Seq(DOMAIN Lower \ {"\n"}),
           NEW row, row.title \in Seq(DOMAIN Lower), row.summary \in Seq(DOMAIN Lower), NEW include
    PROVE  SearchLosesNothing(company, build_search_terms(company), row, include)
<1> DEFINE terms == build_search_terms(company)
           text  == Haystack(row, include)
<1>1. \A term \in terms : Len(term) > 1
  BY SymbolIsFirst
<1> HIDE DEF terms
<1>2. SUFFICES ASSUME text_matches_symbol(text, company, terms)
               PROVE  TextClause(terms, row, include)
  BY DEF SearchLosesNothing, TextRow, terms
<1>3. PICK term \in terms : \E exact : is_text_symbol_match(text, term, exact)
  BY <1>2, Zenon DEF text_matches_symbol
<1>4. PICK exact : is_text_symbol_match(text, term, exact)
  BY <1>3, Zenon
<1>5. term \in Seq(DOMAIN Lower \ {"\n"}) /\ term \in Seq(DOMAIN Lower) /\ Len(term) > 0
  BY <1>1 DEF terms
<1>6. CASE include /\ row.summary # << >>
  <2>1. text = row.title \o <<"\n">> \o row.summary
    BY <1>6, Zenon DEF Haystack
  <2>2. text \in Seq(DOMAIN Lower)
    <3> HIDE DEF text
    <3>1. "\n" \in DOMAIN Lower
      BY TextSearchAssumption
    <3>2. QED BY <2>1, <3>1
  <2>3. Places(Small(text), Small(term)) # {}
    <3> HIDE DEF text
    <3> QED BY <1>4, <1>5, <2>2, MatchStands
  <2>4. Places(Small(row.title), Small(term)) # {} \/ Places(Small(row.summary), Small(term)) # {}
    BY <2>1, <2>3, <1>5, StandsInColumn
  <2>5. QED BY <1>6, <2>4, Zenon DEF TextClause
<1>7. CASE ~(include /\ row.summary # << >>)
  <2>1. text = row.title
    BY <1>7, Zenon DEF Haystack
  <2>2. Places(Small(row.title), Small(term)) # {}
    BY <2>1, <1>4, <1>5, MatchStands
  <2>3. QED BY <2>2, Zenon DEF TextClause
<1>8. QED BY <1>6, <1>7

LEMMA WithMore ==
    ASSUME NEW S, NEW c, NEW s \in Seq(S \ {c})
    PROVE  s \in Seq(S)
OBVIOUS

(* The symbol decides by the letters it is written with, the other terms   *)
(* without regard to capitals.                                             *)
LEMMA TickersAreNoWords ==
    ASSUME NEW company, company.symbol \in Seq(DOMAIN Lower), "," \notin ToSet(company.symbol),
           company.names \in Seq(ToSet(company.names)),
           \A term \in build_search_terms(company) : term \in Seq(DOMAIN Lower \ {"\n"}),
           NEW row
    PROVE  WordIsNoTicker(company, build_search_terms(company), row)
<1> DEFINE text  == Haystack(row, TRUE)
           terms == build_search_terms(company)
           sym   == company.symbol
           exact == ticker_needs_exact_case(company)
           names == {t \in terms : Small(t) # Small(sym)}
<1>1. ASSUME NEW t \in terms, Small(t) = Small(sym) PROVE t = sym /\ Len(sym) > 1
  <2>1. t \in Seq(DOMAIN Lower) /\ Len(t) > 1
    <3>1. t \in Seq(DOMAIN Lower)
      <4>1. t \in Seq(DOMAIN Lower \ {"\n"})
        BY Zenon
      <4>2. QED BY <4>1, WithMore
    <3>2. Len(t) > 1
      BY SymbolIsFirst
    <3>3. QED BY <3>1, <3>2
  <2>2. Len(Small(sym)) = Len(sym) /\ Len(Small(t)) = Len(t)
    BY <2>1, SmallProperties
  <2>3. Len(sym) > 1
    BY <1>1, <2>1, <2>2
  <2>4. QED BY <1>1, <2>3, SymbolIsFirst
<1>2. Len(sym) > 1 => sym \in terms
  BY SymbolIsFirst
<1>3. \A t : is_text_symbol_match(text, t, TRUE) <=> \E i \in Places(text, t) : Apart(text, i, Len(t))
  BY DEF is_text_symbol_match
<1>4. SymbolFound(company, text) <=> Len(sym) > 1 /\ is_text_symbol_match(text, sym, exact)
  <2>1. exact \in BOOLEAN
    BY DEF ticker_needs_exact_case
  <2>2. CASE exact = TRUE
    BY <1>3, <2>2 DEF SymbolFound
  <2>3. CASE exact = FALSE
    BY <2>3 DEF SymbolFound
  <2>4. QED BY <2>1, <2>2, <2>3
<1> HIDE DEF terms, text, exact, sym
<1>5. text_matches_symbol(text, company, terms) <=>
         \E t \in terms : is_text_symbol_match(text, t, exact /\ Small(t) = Small(sym))
  BY Zenon DEF text_matches_symbol, exact, sym
<1>6. \A t \in names : is_text_symbol_match(text, t, exact /\ Small(t) = Small(sym))
                         <=> is_text_symbol_match(text, t, FALSE)
  <2> SUFFICES ASSUME NEW t \in names
               PROVE  (exact /\ Small(t) = Small(sym)) = FALSE
    BY Zenon
  <2>1. QED OBVIOUS
<1>7. Len(sym) > 1 => (is_text_symbol_match(text, sym, exact /\ Small(sym) = Small(sym))
                         <=> is_text_symbol_match(text, sym, exact))
  <2>1. (exact /\ Small(sym) = Small(sym)) = exact
    BY DEF exact, ticker_needs_exact_case
  <2>2. QED BY <2>1, Zenon
<1>8. text_matches_symbol(text, company, terms) <=>
         (Len(sym) > 1 /\ is_text_symbol_match(text, sym, exact)) \/ \E t \in names : is_text_symbol_match(text, t, FALSE)
  <2>1. ASSUME text_matches_symbol(text, company, terms)
        PROVE  (Len(sym) > 1 /\ is_text_symbol_match(text, sym, exact))
               \/ \E t \in names : is_text_symbol_match(text, t, FALSE)
    <3>1. PICK t \in terms : is_text_symbol_match(text, t, exact /\ Small(t) = Small(sym))
      BY <1>5, <2>1, Zenon
    <3>2. CASE Small(t) = Small(sym)
      <4>1. t = sym /\ Len(sym) > 1
        BY <1>1, <3>2
      <4>2. QED BY <1>7, <3>1, <4>1, Zenon
    <3>3. CASE Small(t) # Small(sym)
      <4>1. t \in names
        BY <3>3
      <4>2. QED BY <1>6, <3>1, <4>1, Zenon
    <3>4. QED BY <3>2, <3>3
  <2>2. ASSUME Len(sym) > 1, is_text_symbol_match(text, sym, exact) PROVE text_matches_symbol(text, company, terms)
    BY <1>2, <1>5, <1>7, <2>2, Zenon
  <2>3. ASSUME NEW t \in names, is_text_symbol_match(text, t, FALSE) PROVE text_matches_symbol(text, company, terms)
    <3>1. t \in terms
      OBVIOUS
    <3>2. QED BY <1>5, <1>6, <2>3, <3>1, Zenon
  <2>4. QED BY <2>1, <2>2, <2>3
<1>9. QED BY <1>4, <1>8, Zenon DEF WordIsNoTicker, text, terms, exact, sym

----------------------------------------------------------------------------
(* Sessions.                                                               *)

Markets == {"KR", "US", "GLOBAL"}

(* The exchanges a market is about.                                        *)
Exchanges(market) == IF market = "GLOBAL" THEN {"KR", "US"} ELSE {market}

(* The minute of the week at an exchange, and whether it is in a session.  *)
Local(m, now, summer) == (now + UtcOffset(m, summer)) % 10080
InSession(m, now, summer) ==
    LET local == Local(m, now, summer) IN
    /\ local \div 1440 < 5
    /\ local % 1440 >= (IF m = "KR" THEN 480 ELSE 240) /\ local % 1440 < 1200

LEMMA LocalSessions ==
    ASSUME NEW m \in {"KR", "US"}, NEW now \in Nat, NEW summer
    PROVE  /\ LocalSession(m, now, summer) \in {"open", "extended", "closed"}
           /\ LocalSession(m, now, summer) # "closed" <=> InSession(m, now, summer)
<1> DEFINE local == Local(m, now, summer)
           t     == local % 1440
<1>1. UtcOffset(m, summer) \in Int
  BY DEF UtcOffset, Hour
<1>2. local \in Int /\ t \in Int /\ local \div 1440 \in Int
  BY <1>1 DEF Local
<1>3. /\ Week = 10080 /\ Day = 1440
      /\ Regular(m)[1] >= Extended(m)[1] /\ Regular(m)[2] <= Extended(m)[2]
      /\ Extended(m)[1] = IF m = "KR" THEN 480 ELSE 240
      /\ Extended(m)[2] = 1200
      /\ Regular(m)[1] \in Int /\ Regular(m)[2] \in Int
  BY DEF Week, Day, Hour, Regular, Extended
<1> DEFINE Is(hours) == hours[1] <= t /\ t < hours[2]
<1>4. LocalSession(m, now, summer) =
         IF local \div 1440 >= 5 THEN "closed"
         ELSE IF Is(Regular(m)) THEN "open" ELSE IF Is(Extended(m)) THEN "extended" ELSE "closed"
  BY <1>3 DEF LocalSession, Local
<1>5. InSession(m, now, summer) <=> local \div 1440 < 5 /\ Is(Extended(m))
  BY <1>2, <1>3 DEF InSession
<1> HIDE DEF local, t
<1>6. QED BY <1>2, <1>3, <1>4, <1>5

LEMMA Sessions ==
    ASSUME NEW market \in Markets, NEW now \in Nat, NEW summer
    PROVE  /\ Session(market, now, summer) \in {"open", "extended", "closed"}
           /\ Session(market, now, summer) # "closed" <=>
                 \E m \in Exchanges(market) : InSession(m, now, summer)
<1>1. Exchanges(market) \subseteq {"KR", "US"}
  BY DEF Markets, Exchanges
<1> DEFINE states == {LocalSession(m, now, summer) : m \in Exchanges(market)}
<1>2. Session(market, now, summer) =
         IF "open" \in states THEN "open" ELSE IF "extended" \in states THEN "extended" ELSE "closed"
  BY DEF Session, Exchanges
<1>3. QED BY <1>1, <1>2, LocalSessions

LEMMA DayAndMinute ==
    ASSUME NEW x \in Nat
    PROVE  x \div 1440 \in Nat /\ x % 1440 \in 0 .. 1439 /\ x = 1440 * (x \div 1440) + (x % 1440)
OBVIOUS

(* A session that has just begun goes on for twelve hours at least.        *)
LEMMA SessionGoesOn ==
    ASSUME NEW m \in {"KR", "US"}, NEW now \in Nat, NEW summer,
           ~InSession(m, now, summer), InSession(m, now + 1, summer), NEW k \in 0 .. 719
    PROVE  InSession(m, now + 1 + k, summer)
<1> DEFINE off == UtcOffset(m, summer)
           x == now + off
           a == x % 10080
           b == (x + 1) % 10080
           c == (x + 1 + k) % 10080
           lo == IF m = "KR" THEN 480 ELSE 240
<1>1. off \in Int /\ x \in Int /\ lo \in {240, 480}
  BY DEF UtcOffset, Hour
<1>2. /\ Local(m, now, summer) = a /\ Local(m, now + 1, summer) = b /\ Local(m, now + 1 + k, summer) = c
  <2>1. now + 1 + off = x + 1 /\ now + 1 + k + off = x + 1 + k
    <3> HIDE DEF off
    <3> QED BY <1>1
  <2>2. QED BY <2>1 DEF Local
<1>3. /\ ~(a \div 1440 < 5 /\ a % 1440 >= lo /\ a % 1440 < 1200)
      /\ b \div 1440 < 5 /\ b % 1440 >= lo /\ b % 1440 < 1200
  BY <1>2 DEF InSession
<1> HIDE DEF off, x, lo
<1>4. a \in 0 .. 10079 /\ b \in 0 .. 10079
  BY <1>1
<1>5. b = a + 1 \/ b = 0
  BY <1>1
<1>6. b = a + 1 /\ b # 0
  <2>1. b # 0
    <3> SUFFICES ASSUME b = 0 PROVE FALSE
      OBVIOUS
    <3>1. 0 % 1440 >= lo
      BY <1>3
    <3>2. 0 % 1440 = 0
      OBVIOUS
    <3>3. QED BY <1>1, <3>1, <3>2
  <2>2. QED BY <1>5, <2>1
<1>7. b % 1440 = lo
  <2> HIDE DEF a, b
  <2> SUFFICES ASSUME b % 1440 # lo PROVE FALSE
    OBVIOUS
  <2>1. a % 1440 = (b % 1440) - 1 /\ a \div 1440 = b \div 1440
    BY <1>1, <1>3, <1>4, <1>6
  <2>2. QED BY <2>1, <1>1, <1>3, <1>4
<1>8. b + k < 10080 /\ (b + k) % 1440 = lo + k /\ (b + k) \div 1440 = b \div 1440
  <2> DEFINE d == b \div 1440
  <2> HIDE DEF b
  <2>1. b \in Nat
    BY <1>4
  <2>2. d \in Nat /\ b = 1440 * d + (b % 1440)
    BY <2>1, DayAndMinute
  <2>3. d \in 0 .. 4 /\ b = 1440 * d + lo
    BY <1>3, <1>7, <2>2
  <2> DEFINE t == lo + k
  <2>4. t \in 0 .. 1439 /\ b + k = 1440 * d + t /\ b + k < 10080 /\ d \in Nat
    <3> HIDE DEF d
    <3> QED BY <1>1, <2>1, <2>3
  <2> HIDE DEF d, t
  <2>5. (1440 * d + t) \div 1440 = d /\ (1440 * d + t) % 1440 = t
    BY <2>4
  <2>6. QED BY <2>4, <2>5 DEF d, t
<1>9. c = b + k
  BY <1>1, <1>8
<1>10. c \div 1440 < 5 /\ c % 1440 >= lo /\ c % 1440 < 1200
  <2> HIDE DEF a, b, c
  <2> QED BY <1>1, <1>3, <1>4, <1>8, <1>9
<1>11. QED BY <1>2, <1>10 DEF InSession, lo

(* Twelve hours of a session from t on.                                    *)
LongSession(market, t, summer) == \A k \in 0 .. 719 : Session(market, t + k, summer) # "closed"

LEMMA FirstSession ==
    ASSUME NEW market \in Markets, NEW now \in Nat, NEW summer, NEW later \in Nat, now <= later,
           Session(market, now, summer) = "closed", Session(market, later, summer) # "closed"
    PROVE  \E first \in now + 1 .. later : LongSession(market, first, summer)
<1> DEFINE open(t) == Session(market, t, summer) # "closed"
           S       == {t \in Nat : now <= t /\ open(t)}
           first   == Min(S)
<1>1. first \in S /\ \A t \in S : first <= t
  <2> HIDE DEF open
  <2>1. S \in SUBSET Nat
    OBVIOUS
  <2>2. later \in S
    BY DEF open
  <2>3. QED BY <2>1, <2>2, LeastElement
<1>2. first \in Nat /\ open(first) /\ first \in now .. later /\ ~open(now)
  <2>1. ~open(now) /\ later \in S
    OBVIOUS
  <2> HIDE DEF open, first
  <2>2. QED BY <1>1, <2>1
<1> DEFINE p == first - 1
<1> HIDE DEF first
<1>3. p \in Nat /\ p + 1 = first /\ first \in now + 1 .. later /\ ~open(p)
  <2> HIDE DEF open
  <2> QED BY <1>1, <1>2
<1> HIDE DEF p
<1>4. Session(market, p, summer) = "closed" /\ Session(market, p + 1, summer) # "closed"
  BY <1>2, <1>3
<1>5. PICK x \in Exchanges(market) : ~InSession(x, p, summer) /\ InSession(x, p + 1, summer)
  BY <1>3, <1>4, Sessions
<1>6. x \in {"KR", "US"}
  BY <1>5 DEF Exchanges, Markets
<1>7. ASSUME NEW k \in 0 .. 719 PROVE Session(market, first + k, summer) # "closed"
  <2>1. InSession(x, p + 1 + k, summer)
    BY <1>3, <1>5, <1>6, SessionGoesOn
  <2>2. p + 1 + k = first + k /\ first + k \in Nat
    BY <1>2, <1>3
  <2>3. QED BY <1>5, <2>1, <2>2, Sessions
<1>8. QED BY <1>3, <1>7 DEF LongSession

----------------------------------------------------------------------------
(* Waits.                                                                  *)

LEMMA MaxOfTwo ==
    ASSUME NEW a \in Int, NEW b \in Int
    PROVE  Max({a, b}) = IF a >= b THEN a ELSE b
<1> DEFINE m == IF a >= b THEN a ELSE b
<1>1. m \in {a, b} /\ \A y \in {a, b} : m >= y
  OBVIOUS
<1>2. \A x \in {a, b} : (\A y \in {a, b} : x >= y) => x = m
  OBVIOUS
<1>3. QED BY <1>1, <1>2 DEF Max

LEMMA BackoffIsShort ==
    ASSUME NEW streak \in Nat
    PROVE  fail_backoff(streak) \in 0 .. 30
<1>1. CASE streak = 0
  BY <1>1 DEF fail_backoff
<1>2. CASE streak > 5
  BY <1>2 DEF fail_backoff, MaxFailBackoff
<1>3. CASE streak \in 1 .. 5
  <2>1. streak # 0 /\ ~(streak > 5)
    BY <1>3
  <2>2. fail_backoff(streak) = 2 ^ (streak - 1)
    BY <2>1, Zenon DEF fail_backoff
  <2>3. streak - 1 \in {0, 1, 2, 3, 4}
    BY <1>3
  <2>4. 2 ^ 0 \in 0 .. 30 /\ 2 ^ 1 \in 0 .. 30 /\ 2 ^ 2 \in 0 .. 30
    OBVIOUS
  <2>5. 2 ^ 3 \in 0 .. 30 /\ 2 ^ 4 \in 0 .. 30
    OBVIOUS
  <2>6. QED BY <2>2, <2>3, <2>4, <2>5
<1>4. QED BY <1>1, <1>2, <1>3

(* Outside the sessions the wait ends at the first moment of the scan that *)
(* is in one.                                                              *)
LEMMA ClosedInterval ==
    ASSUME NEW intervals \in [{"open", "extended", "closed"} -> Nat \ {0}],
           NEW market \in Markets, NEW now \in Nat, NEW summer,
           Session(market, now, summer) = "closed"
    PROVE  LET wait == symbol_interval(intervals, market, now, summer) IN
           /\ wait \in Nat /\ wait <= intervals["closed"]
           /\ wait < intervals["closed"] => Session(market, now + wait, summer) # "closed"
           /\ \A k \in Nat : 5 * k > 0 /\ 5 * k < wait => Session(market, now + 5 * k, summer) = "closed"
<1> DEFINE W       == intervals["closed"]
           wait    == symbol_interval(intervals, market, now, summer)
           scan    == {5 * k : k \in 1 .. (W - 1) \div 5}
           reopens == {offset \in scan : Session(market, now + offset, summer) # "closed"}
<1>1. W \in Nat \ {0} /\ (W - 1) \div 5 \in Int
  OBVIOUS
<1>2. wait = IF reopens # {} THEN Min(reopens) ELSE W
  BY DEF symbol_interval, ScanStep, Reopens
<1> HIDE DEF wait, W
<1>3. \A x \in scan : x \in Nat /\ x < W
  BY <1>1
<1>4. \A k \in Nat : 5 * k > 0 /\ 5 * k < W => 5 * k \in scan
  <2> SUFFICES ASSUME NEW k \in Nat, 5 * k > 0, 5 * k < W PROVE k \in 1 .. (W - 1) \div 5
    OBVIOUS
  <2> QED BY <1>1
<1>5. CASE reopens = {}
  <2> HIDE DEF scan
  <2>1. wait = W
    BY <1>2, <1>5
  <2>2. QED BY <1>1, <1>4, <1>5, <2>1 DEF wait, W
<1>6. CASE reopens # {}
  <2>1. reopens \in SUBSET Nat
    BY <1>3
  <2>2. wait \in reopens /\ \A x \in reopens : wait <= x
    <3> HIDE DEF reopens
    <3> QED BY <1>2, <1>6, <2>1, LeastElement
  <2>3. wait \in Nat /\ wait < W /\ Session(market, now + wait, summer) # "closed"
    <3> HIDE DEF scan
    <3> QED BY <1>3, <2>2
  <2>4. ASSUME NEW k \in Nat, 5 * k > 0, 5 * k < wait PROVE Session(market, now + 5 * k, summer) = "closed"
    <3> HIDE DEF scan
    <3>1. 5 * k \in scan
      BY <1>1, <1>4, <2>3, <2>4
    <3>2. 5 * k \notin reopens
      <4> HIDE DEF reopens
      <4> QED BY <2>2, <2>3, <2>4
    <3>3. QED BY <3>1, <3>2
  <2>5. QED BY <2>3, <2>4, <1>1 DEF wait, W
<1>7. QED BY <1>5, <1>6

LEMMA OpeningsArePolled ==
    ASSUME NEW intervals \in [{"open", "extended", "closed"} -> Nat \ {0}],
           NEW market \in Markets, NEW now \in Nat, NEW summer, NEW fails \in Nat
    PROVE  OpeningPolled(intervals, market, now, summer, fails)
<1> DEFINE open(k) == Session(market, now + k, summer) # "closed"
           W       == intervals["closed"]
           si      == symbol_interval(intervals, market, now, summer)
           fb      == fail_backoff(fails)
           wait    == IF si >= fb THEN si ELSE fb
           grace   == IF 4 >= fb THEN 4 ELSE fb
<1>1. fb \in 0 .. 30
  BY BackoffIsShort
<1> SUFFICES ASSUME Session(market, now, summer) = "closed"
             PROVE  /\ \A m \in 1 .. wait - 1 - grace : ~open(m)
                    /\ wait < W => open(wait)
  <2> HIDE DEF fb
  <2>1. ASSUME Session(market, now, summer) = "closed"
        PROVE  SymbolWait(intervals, market, now, summer, fails) = wait
    <3>1. si \in Nat
      BY <2>1, ClosedInterval
    <3> HIDE DEF si
    <3>2. Max({si, fb}) = wait
      BY <1>1, <3>1, MaxOfTwo
    <3>3. QED BY <3>2 DEF SymbolWait, si, fb
  <2>2. Max({ScanStep - 1, fb}) = grace
    <3>1. ScanStep - 1 = 4
      BY DEF ScanStep
    <3>2. QED BY <1>1, <3>1, MaxOfTwo
  <2>3. QED BY <2>1, <2>2 DEF OpeningPolled, fb
<1>2. /\ si \in Nat /\ si <= W /\ W \in Nat
      /\ si < W => open(si)
      /\ \A k \in Nat : 5 * k > 0 /\ 5 * k < si => ~open(5 * k)
  BY ClosedInterval
<1>3. ASSUME NEW m \in Nat, open(m)
      PROVE  \E first \in 1 .. m : \A k \in 0 .. 719 : open(first + k)
  <2>1. PICK t \in now + 1 .. now + m : LongSession(market, t, summer)
    BY <1>3, FirstSession
  <2> DEFINE first == t - now
  <2>2. first \in 1 .. m
    OBVIOUS
  <2>3. ASSUME NEW k \in 0 .. 719 PROVE open(first + k)
    <3>1. t + k = now + (first + k)
      OBVIOUS
    <3>2. QED BY <2>1, <3>1 DEF LongSession
  <2> HIDE DEF first, open
  <2>4. QED BY <2>2, <2>3
<1> HIDE DEF open, si, fb, W
<1>4. ASSUME NEW m \in 1 .. wait - 1 - grace, open(m) PROVE FALSE
  <2>1. si >= fb /\ m <= si - 1 - grace /\ m \in Nat
    BY <1>1, <1>2
  <2>2. PICK first \in 1 .. m : \A k \in 0 .. 719 : open(first + k)
    BY <1>3, <1>4, <2>1
  <2> DEFINE k == (first + 4) \div 5
  <2>3. k \in Nat /\ 5 * k - first \in 0 .. 4 /\ 5 * k > 0
    BY <2>2
  <2>4. first <= si - 5
    BY <1>1, <1>2, <2>1
  <2> HIDE DEF k
  <2>5. 5 * k < si /\ first + (5 * k - first) = 5 * k
    BY <1>2, <2>3, <2>4
  <2>6. open(5 * k)
    BY <2>2, <2>3, <2>5
  <2>7. QED BY <1>2, <2>3, <2>5, <2>6
<1>5. ASSUME wait < W PROVE open(wait)
  <2>1. si < W
    BY <1>1, <1>2, <1>5
  <2>2. CASE si >= fb
    BY <1>2, <2>1, <2>2
  <2>3. CASE ~(si >= fb)
    <3>1. PICK first \in 1 .. si : \A k \in 0 .. 719 : open(first + k)
      BY <1>2, <1>3, <2>1
    <3>2. fb - first \in 0 .. 719 /\ first + (fb - first) = fb
      BY <1>1, <1>2, <2>3
    <3>3. QED BY <2>3, <3>1, <3>2
  <2>4. QED BY <2>2, <2>3
<1>6. QED BY <1>4, <1>5

----------------------------------------------------------------------------
(* Pages of headlines.                                                     *)

(* The order of rows is a strict total order.                              *)
LEMMA RowsAreOrdered ==
    ASSUME NEW table, NEW q, IsTable(table), IsQuery(q),
           NEW i \in DOMAIN table, NEW j \in DOMAIN table, NEW k \in DOMAIN table
    PROVE  /\ ~Before(table, q, i, i)
           /\ i # j => Before(table, q, i, j) \/ Before(table, q, j, i)
           /\ Before(table, q, i, j) => ~Before(table, q, j, i)
           /\ Before(table, q, i, j) /\ Before(table, q, j, k) => Before(table, q, i, k)
<1>1. /\ i \in Int /\ j \in Int /\ k \in Int
      /\ table[i].ts \in Int /\ table[j].ts \in Int /\ table[k].ts \in Int
  BY DEF IsTable
<1>2. CASE q.since >= 0
  BY <1>1, <1>2 DEF Before
<1>3. CASE ~(q.since >= 0)
  BY <1>1, <1>3 DEF Before
<1>4. QED BY <1>2, <1>3

LEMMA EarlierIsFinite ==
    ASSUME NEW table, NEW q, IsTable(table), NEW ids \in SUBSET DOMAIN table, NEW i \in DOMAIN table
    PROVE  /\ IsFiniteSet(ids) /\ IsFiniteSet(Earlier(table, q, ids, i))
           /\ Cardinality(Earlier(table, q, ids, i)) \in Nat
BY FS_Subset, FS_CardinalityType DEF IsTable, Earlier

(* Of two rows the later one has more before it.                           *)
LEMMA LaterHasMoreBefore ==
    ASSUME NEW table, NEW q, IsTable(table), IsQuery(q), NEW ids \in SUBSET DOMAIN table,
           NEW j \in ids, NEW i \in DOMAIN table, Before(table, q, j, i)
    PROVE  Cardinality(Earlier(table, q, ids, j)) < Cardinality(Earlier(table, q, ids, i))
<1> DEFINE ej == Earlier(table, q, ids, j)
           ei == Earlier(table, q, ids, i)
<1>1. ej \subseteq ei \ {j} /\ j \in ei
  BY RowsAreOrdered DEF Earlier
<1>2. IsFiniteSet(ei) /\ Cardinality(ei) \in Nat /\ Cardinality(ej) \in Nat
  BY EarlierIsFinite
<1> HIDE DEF ej, ei
<1>3. IsFiniteSet(ei \ {j}) /\ Cardinality(ei \ {j}) = Cardinality(ei) - 1
  BY <1>1, <1>2, FS_RemoveElement
<1>4. Cardinality(ej) <= Cardinality(ei \ {j})
  BY <1>1, <1>3, FS_Subset
<1>5. QED BY <1>2, <1>3, <1>4 DEF ej, ei

(* A row that is not among the first n comes after exactly n that are.     *)
LEMMA FirstOfIsFull ==
    ASSUME NEW table, NEW q, IsTable(table), IsQuery(q), NEW ids \in SUBSET DOMAIN table,
           NEW n \in Nat, NEW m \in ids, m \notin FirstOf(table, q, ids, n)
    PROVE  /\ Cardinality(FirstOf(table, q, ids, n)) = n
           /\ \A i \in FirstOf(table, q, ids, n) : Before(table, q, i, m)
<1> DEFINE E(i)  == Earlier(table, q, ids, i)
           c(i)  == Cardinality(E(i))
           first == FirstOf(table, q, ids, n)
           S     == {c(i) : i \in {k \in ids : c(k) >= n}}
<1>1. \A i \in ids : c(i) \in Nat /\ IsFiniteSet(E(i))
  BY EarlierIsFinite
<1>2. \A i, j \in ids : Before(table, q, j, i) => c(j) < c(i)
  BY LaterHasMoreBefore
<1>3. \A i \in ids : i \in first <=> c(i) < n
  BY DEF FirstOf
<1>4. first \subseteq ids
  BY DEF FirstOf
<1>5. \A i \in first : Before(table, q, i, m)
  <2> SUFFICES ASSUME NEW i \in first PROVE Before(table, q, i, m)
    OBVIOUS
  <2> HIDE DEF c, first
  <2>1. i # m /\ ~(c(m) < c(i))
    BY <1>1, <1>3, <1>4 DEF first
  <2>2. ~Before(table, q, m, i)
    BY <2>1, <1>2, <1>4
  <2>3. QED BY <2>1, <2>2, <1>4, RowsAreOrdered
<1>6. PICK l \in ids : c(l) >= n /\ \A k \in ids : c(k) >= n => c(l) <= c(k)
  <2> HIDE DEF c, first
  <2>1. c(m) >= n
    BY <1>1, <1>3 DEF first
  <2>2. S \in SUBSET Nat /\ S # {}
    BY <2>1, <1>1
  <2>3. Min(S) \in S /\ \A x \in S : Min(S) <= x
    BY <2>2, LeastElement
  <2>4. QED BY <2>3
<1>7. c(l) = n
  <2> SUFFICES ASSUME c(l) # n PROVE FALSE
    OBVIOUS
  <2>1. c(l) > n /\ c(l) > 0
    <3> HIDE DEF c
    <3> QED BY <1>1, <1>6
  <2>2. E(l) # {}
    BY <2>1, FS_EmptySet
  <2> DEFINE P == {c(i) : i \in E(l)}
  <2>3. E(l) \subseteq ids /\ \A i \in E(l) : Before(table, q, i, l)
    BY DEF Earlier
  <2>4. PICK p \in E(l) : \A i \in E(l) : c(i) <= c(p)
    <3> HIDE DEF c, E
    <3>1. P \in SUBSET (0 .. c(l)) /\ P # {}
      BY <1>1, <1>2, <2>2, <2>3
    <3>2. Max(P) \in P /\ \A x \in P : x <= Max(P)
      BY <1>1, <3>1, GreatestElement
    <3>3. QED BY <3>2
  <2>5. p \in ids /\ Before(table, q, p, l)
    BY <2>3
  <2>6. E(l) = E(p) \union {p}
    <3>1. ASSUME NEW i \in E(l), i # p PROVE i \in E(p)
      <4>1. i \in ids /\ ~(c(p) < c(i))
        <5> HIDE DEF c, E
        <5> QED BY <2>3, <2>4, <1>1, <2>5
      <4>2. ~Before(table, q, p, i)
        BY <4>1, <1>2, <2>5
      <4>3. Before(table, q, i, p)
        BY <3>1, <4>1, <4>2, <2>5, RowsAreOrdered
      <4>4. QED BY <4>1, <4>3 DEF Earlier
    <3>2. ASSUME NEW i \in E(p) PROVE i \in E(l)
      <4>1. i \in ids /\ Before(table, q, i, p)
        BY DEF Earlier
      <4>2. Before(table, q, i, l)
        BY <4>1, <2>5, RowsAreOrdered
      <4>3. QED BY <4>1, <4>2 DEF Earlier
    <3>3. QED BY <3>1, <3>2
  <2>7. p \notin E(p)
    BY <2>5, RowsAreOrdered DEF Earlier
  <2>8. c(l) = c(p) + 1
    <3> HIDE DEF E
    <3> QED BY <1>1, <2>5, <2>6, <2>7, FS_AddElement
  <2>9. QED
    <3> HIDE DEF c
    <3> QED BY <1>1, <1>6, <2>1, <2>5, <2>8
<1>8. first = E(l)
  <2>1. ASSUME NEW i \in first PROVE i \in E(l)
    <3> HIDE DEF c, first
    <3>1. i \in ids /\ i # l /\ ~(c(l) < c(i))
      BY <1>1, <1>3, <1>4, <1>7
    <3>2. ~Before(table, q, l, i)
      BY <3>1, <1>2
    <3>3. QED BY <3>1, <3>2, RowsAreOrdered DEF Earlier
  <2>2. ASSUME NEW i \in E(l) PROVE i \in first
    <3>1. i \in ids /\ Before(table, q, i, l)
      BY DEF Earlier
    <3>2. c(i) < c(l)
      BY <3>1, <1>2
    <3> HIDE DEF c, first
    <3>3. QED BY <3>1, <3>2, <1>3, <1>7
  <2>3. QED BY <2>1, <2>2
<1>9. QED BY <1>5, <1>7, <1>8

(* All of a set that has at most n.                                        *)
LEMMA FirstOfAll ==
    ASSUME NEW table, NEW q, IsTable(table), IsQuery(q), NEW ids \in SUBSET DOMAIN table,
           NEW n \in Nat, Cardinality(ids) <= n
    PROVE  FirstOf(table, q, ids, n) = ids
<1> SUFFICES ASSUME NEW i \in ids PROVE Cardinality(Earlier(table, q, ids, i)) < n
  BY DEF FirstOf
<1> DEFINE e == Earlier(table, q, ids, i)
<1>1. e \subseteq ids \ {i}
  BY RowsAreOrdered DEF Earlier
<1>2. IsFiniteSet(ids) /\ Cardinality(ids) \in Nat /\ Cardinality(e) \in Nat
  BY EarlierIsFinite, FS_CardinalityType
<1> HIDE DEF e
<1>3. IsFiniteSet(ids \ {i}) /\ Cardinality(ids \ {i}) = Cardinality(ids) - 1
  BY <1>2, FS_RemoveElement
<1>4. Cardinality(e) <= Cardinality(ids \ {i})
  BY <1>1, <1>3, FS_Subset
<1>5. QED BY <1>2, <1>3, <1>4 DEF e

(* The third way for a row not to be on the page.                          *)
FullBefore(table, q, m) ==
    /\ Cardinality(Items(table, q)) = q.limit
    /\ \A i \in Items(table, q) : Before(table, q, i, m)
    /\ q.since >= 0 => m > NextSince(table, q)

LEMMA PageIsFull ==
    ASSUME NEW table, NEW q, IsTable(table), IsQuery(q), NEW m \in DOMAIN table, m > q.since,
           Items(table, q) \subseteq DOMAIN table,
           Cardinality(Items(table, q)) = q.limit, \A i \in Items(table, q) : Before(table, q, i, m)
    PROVE  FullBefore(table, q, m)
<1> DEFINE S == {q.since} \union Items(table, q)
<1>1. ASSUME q.since >= 0 PROVE m > Max(S)
  <2>1. m \in Nat /\ q.since \in Nat
    BY <1>1 DEF IsTable, IsQuery
  <2>2. \A i \in S : i \in 0 .. m /\ i < m
    BY <1>1, <2>1 DEF Before, IsTable
  <2> HIDE DEF S
  <2>3. S \in SUBSET (0 .. m) /\ S # {}
    BY <2>2 DEF S
  <2>4. Max(S) \in S
    BY <2>1, <2>3, GreatestElement
  <2>5. QED BY <2>1, <2>2, <2>4
<1>2. QED BY <1>1 DEF FullBefore, NextSince

(* The rows a page is made of are matches; a match that is not among them  *)
(* was beyond a cap, or on the plain path comes after a full page.         *)
RowsOf(table, q) == IF q.symbol THEN SymbolRows(table, q) ELSE PlainRows(table, q)

LEMMA RowsAreMatches ==
    ASSUME NEW table, NEW q, IsTable(table), IsQuery(q)
    PROVE  /\ RowsOf(table, q) \in SUBSET Matches(table, q)
           /\ Matches(table, q) \in SUBSET DOMAIN table
           /\ \A m \in Matches(table, q) : m > q.since
BY DEF RowsOf, SymbolRows, PlainRows, FirstOf, Matches, Tagged, Candidates, After

LEMMA LeftOutRows ==
    ASSUME NEW table, NEW q, IsTable(table), IsQuery(q),
           NEW m \in Matches(table, q), m \notin RowsOf(table, q)
    PROVE  Capped(table, q, m) \/ (~q.symbol /\ ~q.dedup)
<1>1. CASE q.symbol
  <2> DEFINE tagged == Tagged(table, q)
             found  == Candidates(table, q)
  <2>1. tagged \in SUBSET DOMAIN table /\ found \in SUBSET DOMAIN table /\ m \in DOMAIN table
    BY RowsAreMatches DEF Tagged, Candidates, After
  <2>2. /\ Cardinality(Earlier(table, q, tagged, m)) \in Nat
        /\ Cardinality(Earlier(table, q, found, m)) \in Nat
    BY <2>1, EarlierIsFinite
  <2>3. /\ m \notin FirstOf(table, q, tagged, TagCap)
        /\ ~(m \in FirstOf(table, q, found, TextCap) /\ table[m].holds)
    BY <1>1 DEF RowsOf, SymbolRows
  <2>4. Capped(table, q, m)
    BY <1>1, <2>2, <2>3, CursorQueryAssumption DEF Capped, FirstOf
  <2>5. QED BY <2>4
<1>2. CASE ~q.symbol /\ q.dedup
  <2>1. Matches(table, q) = {i \in After(table, q) : table[i].tag}
    BY <1>2 DEF Matches
  <2>2. m \notin FirstOf(table, q, Matches(table, q), 3 * q.limit)
    BY <1>2, <2>1 DEF RowsOf, PlainRows
  <2>3. Cardinality(Earlier(table, q, Matches(table, q), m)) \in Nat /\ 3 * q.limit \in Nat
    BY EarlierIsFinite, RowsAreMatches DEF IsQuery
  <2>4. QED BY <1>2, <2>2, <2>3 DEF Capped, FirstOf
<1>3. QED BY <1>1, <1>2 DEF IsQuery

(* Of the rows with one title the first one stays.                         *)
LEMMA FirstOfTitle ==
    ASSUME NEW table, NEW q, IsTable(table), IsQuery(q), NEW rows \in SUBSET DOMAIN table,
           NEW m \in rows, m \notin Deduped(table, q, rows)
    PROVE  \E i \in Deduped(table, q, rows) : table[i].title = table[m].title /\ Before(table, q, i, m)
<1> DEFINE c(i) == Cardinality(Earlier(table, q, rows, i))
           same == {i \in rows : table[i].title = table[m].title}
           S    == {c(i) : i \in same}
<1>1. \A i \in rows : c(i) \in Nat
  BY EarlierIsFinite
<1>2. \A i, j \in rows : Before(table, q, j, i) => c(j) < c(i)
  BY LaterHasMoreBefore
<1>3. PICK l \in same : \A k \in same : c(l) <= c(k)
  <2> HIDE DEF c
  <2>1. S \in SUBSET Nat /\ S # {}
    BY <1>1
  <2>2. Min(S) \in S /\ \A x \in S : Min(S) <= x
    BY <2>1, LeastElement
  <2>3. QED BY <2>2
<1>4. l \in Deduped(table, q, rows)
  <2> SUFFICES ASSUME NEW j \in Earlier(table, q, rows, l), table[j].title = table[l].title PROVE FALSE
    BY DEF Deduped
  <2>1. j \in same /\ c(j) < c(l)
    BY <1>2 DEF Earlier
  <2> HIDE DEF c
  <2>2. QED BY <2>1, <1>1, <1>3
<1>5. Before(table, q, l, m)
  <2>1. l # m /\ l \in rows /\ ~(c(m) < c(l))
    <3> HIDE DEF c
    <3> QED BY <1>1, <1>3, <1>4
  <2>2. ~Before(table, q, m, l)
    BY <2>1, <1>2
  <2>3. QED BY <2>1, <2>2, RowsAreOrdered
<1>6. QED BY <1>3, <1>4, <1>5

LEMMA PageLeavesOut ==
    ASSUME NEW table, NEW q, IsTable(table), IsQuery(q),
           NEW m \in Matches(table, q), m \notin Items(table, q)
    PROVE  \/ Capped(table, q, m)
           \/ q.dedup /\ \E i \in Items(table, q) : Before(table, q, i, m) /\ table[i].title = table[m].title
           \/ FullBefore(table, q, m)
<1> DEFINE D       == DOMAIN table
           rows    == RowsOf(table, q)
           deduped == Deduped(table, q, rows)
           items   == Items(table, q)
<1>1. items = FirstOf(table, q, IF q.dedup THEN deduped ELSE rows, q.limit)
  BY DEF Items, RowsOf
<1>2. rows \in SUBSET D /\ m \in D /\ m > q.since /\ deduped \in SUBSET rows
  BY RowsAreMatches DEF Deduped
<1>3. items \subseteq D /\ q.limit \in Nat
  BY <1>1, <1>2 DEF FirstOf, IsQuery
<1>4. CASE m \notin rows
  <2> SUFFICES ASSUME ~q.symbol, ~q.dedup PROVE FullBefore(table, q, m)
    BY <1>4, LeftOutRows
  <2>1. rows = FirstOf(table, q, Matches(table, q), q.limit)
    BY DEF RowsOf, PlainRows, Matches
  <2>2. Cardinality(rows) = q.limit /\ \A i \in rows : Before(table, q, i, m)
    BY <1>3, <1>4, <2>1, RowsAreMatches, FirstOfIsFull
  <2>3. items = rows
    BY <1>1, <1>2, <1>3, <2>2, FirstOfAll
  <2>4. QED BY <1>2, <1>3, <2>2, <2>3, PageIsFull
<1>5. CASE m \in rows /\ ~q.dedup
  <2>1. Cardinality(items) = q.limit /\ \A i \in items : Before(table, q, i, m)
    BY <1>1, <1>2, <1>3, <1>5, FirstOfIsFull
  <2>2. QED BY <1>2, <1>3, <2>1, PageIsFull
<1>6. CASE m \in deduped /\ q.dedup
  <2>1. Cardinality(items) = q.limit /\ \A i \in items : Before(table, q, i, m)
    BY <1>1, <1>2, <1>3, <1>6, FirstOfIsFull
  <2>2. QED BY <1>2, <1>3, <2>1, PageIsFull
<1>7. CASE m \in rows /\ m \notin deduped /\ q.dedup
  <2>1. PICK i \in deduped : table[i].title = table[m].title /\ Before(table, q, i, m)
    BY <1>2, <1>7, FirstOfTitle
  <2>2. CASE i \in items
    BY <1>7, <2>1, <2>2
  <2>3. CASE i \notin items
    <3>1. Cardinality(items) = q.limit /\ \A j \in items : Before(table, q, j, i)
      BY <1>1, <1>2, <1>3, <1>7, <2>3, FirstOfIsFull
    <3>2. \A j \in items : Before(table, q, j, m)
      BY <1>2, <1>3, <2>1, <3>1, RowsAreOrdered
    <3>3. QED BY <1>2, <1>3, <3>1, <3>2, PageIsFull
  <2>4. QED BY <2>2, <2>3
<1>8. QED BY <1>4, <1>5, <1>6, <1>7 DEF IsQuery

LEMMA PagesAreComplete ==
    ASSUME NEW table, NEW q, IsTable(table), IsQuery(q)
    PROVE  PageIsComplete(table, q)
BY PageLeavesOut DEF PageIsComplete, FullBefore

----------------------------------------------------------------------------
(* Quarters of DART.                                                       *)

Kinds == {"stock", "income", "cash", "outflow"}

(* What a row says: the cumulative amount and the amount.                  *)
Cumulative(kind, truth, q) == IF kind = "stock" THEN {truth[q]} ELSE {Total(truth, q)}
Alone(kind, truth, q) ==
    IF kind = "stock" \/ (kind = "income" /\ q < 4) THEN {truth[q]} ELSE {Total(truth, q)}

LEMMA WrittenAmounts ==
    ASSUME NEW kind \in Kinds, NEW b \in Bases, NEW truth \in [1 .. 4 -> Int], NEW q \in 1 .. 4
    PROVE  /\ Written(kind, b, truth, q).basis = b
           /\ Amount({Written(kind, b, truth, q)}, TRUE) = Cumulative(kind, truth, q)
           /\ Amount({Written(kind, b, truth, q)}, FALSE) = Alone(kind, truth, q)
<1> DEFINE r == Written(kind, b, truth, q)
           x == truth[q]
           y == Total(truth, q)
<1>1. /\ r.basis = b
      /\ r.amount = IF kind = "stock" \/ (kind = "income" /\ q < 4) THEN {x} ELSE {y}
      /\ r.add = IF kind = "income" /\ q < 4 THEN {y} ELSE {}
  <2> HIDE DEF x, y
  <2>1. CASE kind = "stock"
    BY <2>1 DEF Written, x
  <2>2. CASE kind = "income" /\ q < 4
    BY <2>2 DEF Written, x, y
  <2>3. CASE ~(kind = "stock") /\ ~(kind = "income" /\ q < 4)
    BY <2>3 DEF Written, y
  <2>4. QED BY <2>1, <2>2, <2>3
<1> HIDE DEF r, x, y
<1>2. Amount({r}, TRUE) = IF r.add # {} THEN r.add ELSE r.amount
  BY DEF Amount
<1>3. Amount({r}, FALSE) = IF r.amount # {} THEN r.amount ELSE r.add
  BY DEF Amount
<1>4. QED BY <1>1, <1>2, <1>3 DEF r, x, y, Cumulative, Alone

LEMMA Totals ==
    ASSUME NEW truth \in [1 .. 4 -> Int]
    PROVE  /\ Total(truth, 1) = truth[1]
           /\ Total(truth, 2) = truth[1] + truth[2]
           /\ Total(truth, 3) = truth[1] + truth[2] + truth[3]
           /\ Total(truth, 4) = truth[1] + truth[2] + truth[3] + truth[4]
BY DEF Total

LEMMA TotalGrows ==
    ASSUME NEW truth \in [1 .. 4 -> Int], NEW q \in 2 .. 4
    PROVE  /\ Total(truth, q) \in Int /\ Total(truth, q - 1) \in Int
           /\ Total(truth, q) - Total(truth, q - 1) = truth[q]
<1>1. q = 2 \/ q = 3 \/ q = 4
  OBVIOUS
<1>2. /\ truth[1] \in Int /\ truth[2] \in Int /\ truth[3] \in Int /\ truth[4] \in Int
      /\ 2 - 1 = 1 /\ 3 - 1 = 2 /\ 4 - 1 = 3
  OBVIOUS
<1>3. QED BY <1>1, <1>2, Totals

(* The report of a quarter is there on one basis or not at all.            *)
LEMMA ReportOfQuarter ==
    ASSUME NEW truths, NEW published \in [1 .. 4 -> SUBSET Bases], NEW kind \in Kinds,
           NEW basis, NEW q \in 1 .. 4, truths \in [Bases -> [1 .. 4 -> Int]]
    PROVE  LET reports == Reports(truths, published, kind, basis) IN
           reports[q] = {} \/ \E b \in Bases : reports[q] = {Written(kind, b, truths[b], q)}
<1> DEFINE W(b) == Written(kind, b, truths[b], q)
           rows == {W(b) : b \in published[q]}
           of(b) == {r \in rows : r.basis = b}
<1>1. \A b \in Bases : W(b).basis = b
  BY WrittenAmounts
<1>2. published[q] \subseteq Bases
  OBVIOUS
<1> HIDE DEF W
<1>3. \A b \in Bases : of(b) = {} \/ of(b) = {W(b)}
  BY <1>1, <1>2
<1>4. Report(rows, basis) = of("CFS") \/ Report(rows, basis) = of("OFS")
  BY DEF Report
<1>5. "CFS" \in Bases /\ "OFS" \in Bases
  BY DEF Bases
<1> HIDE DEF of
<1>6. Report(rows, basis) = {} \/ \E b \in Bases : Report(rows, basis) = {W(b)}
  BY <1>3, <1>4, <1>5
<1> HIDE DEF rows
<1>7. Reports(truths, published, kind, basis)[q] = Report(rows, basis)
  BY DEF Reports, rows, W
<1>8. QED BY <1>6, <1>7 DEF W

IsYear(truths, reports, kind) ==
    /\ truths \in [Bases -> [1 .. 4 -> Int]]
    /\ \A q \in 1 .. 4 : reports[q] = {} \/ \E b \in Bases : reports[q] = {Written(kind, b, truths[b], q)}

Derived(kind, q) == q > 1 /\ (kind \in {"cash", "outflow"} \/ (kind = "income" /\ q = 4))

(* A report that the value of a quarter needs is missing.                  *)
Unknown(reports, kind, q) == reports[q] = {} \/ (Derived(kind, q) /\ Previous(reports, q) = {})

LEMMA NoAmount == \A c : Amount({}, c) = {}
BY DEF Amount

LEMMA SignOfNothing == \A kind : Sign(kind, {}) = {}
BY DEF Sign

(* The value of a quarter.                                                 *)
LEMMA ValueOfQuarter ==
    ASSUME NEW truths, NEW reports, NEW kind \in Kinds, IsYear(truths, reports, kind), NEW q \in 1 .. 4
    PROVE  /\ Unknown(reports, kind, q) => Quarter(reports, kind, q) = {}
           /\ ~Unknown(reports, kind, q) =>
                 \A r \in reports[q] : Quarter(reports, kind, q) = Sign(kind, {truths[r.basis][q]})
<1> DEFINE before == Amount(Previous(reports, q), TRUE)
           value  == IF kind \in {"cash", "outflow"}
                     THEN IF q = 1 THEN Amount(reports[q], TRUE) ELSE Less(Amount(reports[q], TRUE), before)
                     ELSE IF kind = "income" /\ q = 4 THEN Less(Amount(reports[q], FALSE), before)
                     ELSE Amount(reports[q], FALSE)
<1>1. Quarter(reports, kind, q) = Sign(kind, value)
  BY DEF Quarter
<1>2. CASE reports[q] = {}
  <2>1. \A x : Less({}, x) = {}
    BY DEF Less
  <2>2. value = {}
    <3> HIDE DEF before
    <3> QED BY <1>2, <2>1, NoAmount
  <2>3. QED BY <1>1, <1>2, <2>2, SignOfNothing DEF Unknown
<1>3. ASSUME NEW b \in Bases, reports[q] = {Written(kind, b, truths[b], q)}
      PROVE  IF Derived(kind, q) /\ Previous(reports, q) = {} THEN Quarter(reports, kind, q) = {}
             ELSE Quarter(reports, kind, q) = Sign(kind, {truths[b][q]})
  <2> DEFINE t == truths[b]
             w == Written(kind, b, t, q)
  <2>1. t \in [1 .. 4 -> Int]
    BY DEF IsYear
  <2> HIDE DEF t
  <2>2. w.basis = b /\ Amount({w}, TRUE) = Cumulative(kind, t, q) /\ Amount({w}, FALSE) = Alone(kind, t, q)
    BY <2>1, WrittenAmounts, Zenon
  <2>3. reports[q] = {w}
    BY <1>3 DEF t
  <2> HIDE DEF w
  <2>4. CASE Derived(kind, q)
    <3> DEFINE p == Written(kind, b, t, q - 1)
    <3>1. q \in 2 .. 4 /\ q - 1 \in 1 .. 4 /\ kind # "stock"
      BY <2>4 DEF Derived
    <3>2. p.basis = b /\ Amount({p}, TRUE) = {Total(t, q - 1)}
      <4>1. p.basis = b /\ Amount({p}, TRUE) = Cumulative(kind, t, q - 1)
        BY <2>1, <3>1, WrittenAmounts, Zenon
      <4> HIDE DEF p
      <4>2. QED BY <3>1, <4>1 DEF Cumulative
    <3>3. Previous(reports, q) = {} \/ Previous(reports, q) = {p}
      <4>1. Previous(reports, q) = {x \in reports[q - 1] : x.basis = b}
        BY <2>2, <2>3, <3>1 DEF Previous
      <4>2. CASE reports[q - 1] = {}
        BY <4>1, <4>2
      <4>3. ASSUME NEW a \in Bases, reports[q - 1] = {Written(kind, a, truths[a], q - 1)}
            PROVE  Previous(reports, q) = {} \/ Previous(reports, q) = {p}
        <5>1. truths[a] \in [1 .. 4 -> Int]
          BY DEF IsYear
        <5>2. Written(kind, a, truths[a], q - 1).basis = a
          BY <3>1, <5>1, WrittenAmounts, Zenon
        <5>3. CASE a = b
          BY <4>1, <4>3, <5>2, <5>3 DEF t
        <5>4. CASE a # b
          BY <4>1, <4>3, <5>2, <5>4
        <5>5. QED BY <5>3, <5>4
      <4>4. QED BY <3>1, <4>2, <4>3 DEF IsYear
    <3> HIDE DEF p
    <3>4. value = Less({Total(t, q)}, before)
      <4> HIDE DEF before
      <4>1. CASE kind \in {"cash", "outflow"}
        <5>1. q # 1
          BY <3>1
        <5>2. value = Less(Amount(reports[q], TRUE), before)
          BY <4>1, <5>1, Zenon
        <5>3. Amount(reports[q], TRUE) = {Total(t, q)}
          BY <2>2, <2>3, <3>1, Zenon DEF Cumulative
        <5> HIDE DEF value
        <5>4. QED BY <5>2, <5>3, Zenon
      <4>2. CASE kind = "income" /\ q = 4
        <5>1. kind = "income" /\ kind \notin {"cash", "outflow"} /\ q = 4 /\ ~(q < 4)
          BY <4>2
        <5>2. value = Less(Amount(reports[q], FALSE), before)
          BY <5>1, Zenon
        <5>3. Amount(reports[q], FALSE) = {Total(t, q)}
          BY <2>2, <2>3, <3>1, <5>1, Zenon DEF Alone
        <5> HIDE DEF value
        <5>4. QED BY <5>2, <5>3, Zenon
      <4>3. QED BY <2>4, <4>1, <4>2 DEF Derived
    <3>5. CASE Previous(reports, q) = {}
      <4>1. before = {}
        BY <3>5, NoAmount
      <4>2. value = {}
        <5> HIDE DEF value, before
        <5> QED BY <3>4, <4>1 DEF Less
      <4>3. QED BY <1>1, <2>4, <3>5, <4>2, SignOfNothing
    <3>6. CASE Previous(reports, q) # {}
      <4>1. before = {Total(t, q - 1)}
        BY <3>2, <3>3, <3>6
      <4>2. value = {Total(t, q) - Total(t, q - 1)}
        <5> HIDE DEF value, before
        <5> QED BY <3>4, <4>1 DEF Less
      <4>3. value = {t[q]}
        <5> HIDE DEF value
        <5> QED BY <2>1, <3>1, <4>2, TotalGrows
      <4>4. QED BY <1>1, <3>6, <4>3 DEF t
    <3>7. QED BY <3>5, <3>6
  <2>5. CASE ~Derived(kind, q)
    <3>1. value = {t[q]}
      <4> HIDE DEF before
      <4>1. CASE kind \in {"cash", "outflow"}
        <5>1. q = 1
          BY <2>5, <4>1 DEF Derived
        <5>2. Total(t, 1) = t[1]
          BY <2>1, Totals
        <5>3. QED BY <2>2, <2>3, <4>1, <5>1, <5>2 DEF Cumulative
      <4>2. CASE kind \in {"stock", "income"}
        <5>1. ~(kind = "income" /\ q = 4)
          BY <2>5 DEF Derived
        <5>2. kind = "stock" \/ (kind = "income" /\ q < 4)
          BY <4>2, <5>1
        <5>3. QED BY <2>2, <2>3, <4>2, <5>1, <5>2 DEF Alone
      <4>3. QED BY <4>1, <4>2 DEF Kinds
    <3>2. QED BY <1>1, <2>5, <3>1 DEF t
  <2>6. QED BY <2>4, <2>5
<1>4. CASE reports[q] # {}
  <2>1. PICK b \in Bases : reports[q] = {Written(kind, b, truths[b], q)}
    BY <1>4 DEF IsYear
  <2>2. truths[b] \in [1 .. 4 -> Int]
    BY DEF IsYear
  <2>3. Written(kind, b, truths[b], q).basis = b
    BY <2>2, WrittenAmounts, Zenon
  <2>4. \A r \in reports[q] : r.basis = b
    BY <2>1, <2>3
  <2>5. QED BY <1>3, <1>4, <2>1, <2>4 DEF Unknown
<1>5. QED BY <1>2, <1>4

(* Its sum over a year.                                                    *)
LEMMA YearAddsUp ==
    ASSUME NEW truths, NEW reports, NEW kind \in Kinds, IsYear(truths, reports, kind)
    PROVE  QuartersMakeYear(truths, reports, kind)
<1> DEFINE value(q) == CHOOSE v \in Quarter(reports, kind, q) : TRUE
           sum      == value(1) + value(2) + value(3) + value(4)
           bases    == {r.basis : r \in UNION {reports[q] : q \in 1 .. 4}}
<1> SUFFICES ASSUME kind # "stock", Cardinality(bases) = 1,
                    \A q \in 1 .. 4 : Quarter(reports, kind, q) # {},
                    ~(kind = "outflow" /\ \E b \in bases, q \in 1 .. 4 : truths[b][q] < 0)
             PROVE  Annual(reports, kind) = {sum}
  BY DEF QuartersMakeYear
<1>1. ASSUME NEW q \in 1 .. 4
      PROVE  \E b \in Bases : /\ reports[q] = {Written(kind, b, truths[b], q)}
                              /\ Written(kind, b, truths[b], q).basis = b
                              /\ Quarter(reports, kind, q) = Sign(kind, {truths[b][q]})
  <2>1. ~Unknown(reports, kind, q) /\ reports[q] # {}
    BY ValueOfQuarter DEF Unknown
  <2>2. PICK b \in Bases : reports[q] = {Written(kind, b, truths[b], q)}
    BY <2>1 DEF IsYear
  <2> DEFINE w == Written(kind, b, truths[b], q)
  <2>3. truths[b] \in [1 .. 4 -> Int]
    BY DEF IsYear
  <2>4. w.basis = b
    BY <2>3, WrittenAmounts, Zenon
  <2>5. w \in reports[q]
    BY <2>2
  <2> HIDE DEF w
  <2>6. Quarter(reports, kind, q) = Sign(kind, {truths[b][q]})
    BY <2>1, <2>4, <2>5, ValueOfQuarter
  <2>7. QED BY <2>2, <2>4, <2>6 DEF w
<1>2. PICK b \in Bases : bases = {b}
  <2>1. bases \subseteq Bases
    <3> SUFFICES ASSUME NEW q \in 1 .. 4, NEW r \in reports[q] PROVE r.basis \in Bases
      OBVIOUS
    <3>1. PICK b \in Bases : /\ reports[q] = {Written(kind, b, truths[b], q)}
                             /\ Written(kind, b, truths[b], q).basis = b
      BY <1>1
    <3>2. QED BY <3>1
  <2>2. IsFiniteSet(Bases)
    <3>1. Bases = {"CFS"} \union {"OFS"}
      BY DEF Bases
    <3>2. IsFiniteSet({"CFS"})
      BY FS_Singleton
    <3>3. QED BY <3>1, <3>2, FS_AddElement
  <2> HIDE DEF bases
  <2>3. IsFiniteSet(bases)
    BY <2>1, <2>2, FS_Subset
  <2>4. PICK x : bases = {x}
    BY <2>3, FS_Singleton
  <2>5. QED BY <2>1, <2>4
<1> DEFINE t == truths[b]
<1>3. t \in [1 .. 4 -> Int]
  BY DEF IsYear
<1>4. ASSUME NEW q \in 1 .. 4
      PROVE  reports[q] = {Written(kind, b, t, q)} /\ Quarter(reports, kind, q) = Sign(kind, {t[q]})
  <2>1. PICK a \in Bases : /\ reports[q] = {Written(kind, a, truths[a], q)}
                           /\ Written(kind, a, truths[a], q).basis = a
                           /\ Quarter(reports, kind, q) = Sign(kind, {truths[a][q]})
    BY <1>1
  <2>2. a \in bases
    <3> DEFINE w == Written(kind, a, truths[a], q)
    <3>1. w \in reports[q] /\ w.basis = a
      BY <2>1
    <3> HIDE DEF w
    <3>2. QED BY <3>1
  <2> HIDE DEF bases
  <2>3. a = b
    BY <1>2, <2>2
  <2>4. QED BY <2>1, <2>3
<1>5. kind = "outflow" => \A q \in 1 .. 4 : ~(t[q] < 0)
  BY <1>2
<1> HIDE DEF bases
<1>6. Total(t, 4) = t[1] + t[2] + t[3] + t[4] /\ Total(t, 4) \in Int
  BY <1>3, Totals
<1> HIDE DEF t
<1>7. Amount(reports[4], FALSE) = {Total(t, 4)}
  <2>1. Amount({Written(kind, b, t, 4)}, FALSE) = Alone(kind, t, 4)
    <3>1. \A q \in 1 .. 4 : Amount({Written(kind, b, t, q)}, FALSE) = Alone(kind, t, q)
      BY <1>3, WrittenAmounts, Zenon
    <3>2. 4 \in 1 .. 4
      OBVIOUS
    <3>3. QED BY <3>1, <3>2, Zenon
  <2>2. Alone(kind, t, 4) = {Total(t, 4)}
    BY DEF Alone
  <2>3. reports[4] = {Written(kind, b, t, 4)}
    BY <1>4
  <2>4. QED BY <2>1, <2>2, <2>3
<1>8. ASSUME NEW v \in Int, kind = "outflow" => ~(v < 0) PROVE Sign(kind, {v}) = {v}
  BY <1>8 DEF Sign
<1>9. Annual(reports, kind) = {Total(t, 4)}
  <2>1. kind = "outflow" => ~(Total(t, 4) < 0)
    BY <1>3, <1>5, <1>6
  <2>2. QED BY <1>6, <1>7, <1>8, <2>1 DEF Annual
<1>10. ASSUME NEW q \in 1 .. 4 PROVE value(q) = t[q]
  <2>1. t[q] \in Int /\ (kind = "outflow" => ~(t[q] < 0))
    BY <1>3, <1>5
  <2>2. Quarter(reports, kind, q) = {t[q]}
    BY <1>4, <1>8, <2>1
  <2>3. (CHOOSE v \in {t[q]} : TRUE) = t[q]
    OBVIOUS
  <2>4. QED BY <2>2, <2>3
<1>11. value(1) = t[1] /\ value(2) = t[2] /\ value(3) = t[3] /\ value(4) = t[4]
  BY <1>10
<1> HIDE DEF value
<1>12. QED BY <1>6, <1>9, <1>11

LEMMA QuartersAreTrue ==
    ASSUME NEW truths, NEW reports, NEW kind \in Kinds, IsYear(truths, reports, kind), NEW q \in 1 .. 4
    PROVE  QuarterIsTrue(truths, reports, kind, q)
<1>1. /\ Unknown(reports, kind, q) => Quarter(reports, kind, q) = {}
      /\ ~Unknown(reports, kind, q) =>
            \A r \in reports[q] : Quarter(reports, kind, q) = Sign(kind, {truths[r.basis][q]})
  BY ValueOfQuarter
<1>2. ASSUME NEW r \in reports[q] PROVE Quarter(reports, kind, q) \subseteq Sign(kind, {truths[r.basis][q]})
  BY <1>1
<1>3. ASSUME ~Unknown(reports, kind, q) PROVE Quarter(reports, kind, q) # {}
  <2>1. PICK r \in reports[q] : TRUE
    BY <1>3 DEF Unknown
  <2>2. Quarter(reports, kind, q) = Sign(kind, {truths[r.basis][q]})
    BY <1>1, <1>3
  <2>3. QED BY <2>2 DEF Sign
<1>4. QED BY <1>2, <1>3 DEF QuarterIsTrue, Derived, Unknown

----------------------------------------------------------------------------
(* Dates of periods.                                                       *)

(* The month with number i, counted from the first of year 0.              *)
MonthAt(i) == [year |-> i \div 12, month |-> (i % 12) + 1]

LEMMA MonthNumber ==
    ASSUME NEW i \in Int
    PROVE  /\ MonthAt(i).year \in Int /\ MonthAt(i).month \in 1 .. 12
           /\ 12 * MonthAt(i).year + MonthAt(i).month = i + 1
BY DEF MonthAt

LEMMA MonthsBetween ==
    ASSUME NEW i \in Int, NEW j \in Int
    PROVE  MonthsTo(MonthAt(i), MonthAt(j)) = j - i
<1> DEFINE m == MonthAt(i)
           n == MonthAt(j)
<1>1. /\ m.year \in Int /\ m.month \in Int /\ 12 * m.year + m.month = i + 1
      /\ n.year \in Int /\ n.month \in Int /\ 12 * n.year + n.month = j + 1
  BY MonthNumber
<1> HIDE DEF m, n
<1>2. MonthsTo(m, n) = j - i
  BY <1>1 DEF MonthsTo
<1>3. QED BY <1>2 DEF m, n

(* The last month of a quarter.                                            *)
EndNumber(shift, year, q) == 12 * year + 3 * q + shift - 1

(* How many months too early a quarter is dated.                           *)
Early(shift, listed, q) == IF q \in listed THEN 0 ELSE shift

EndsIn(shift, listed, year, q) == EndNumber(shift, year, q) - Early(shift, listed, q)

(* A period of so many months ends with the month that the report says, or *)
(* so many months early.                                                   *)
LEMMA EndsEarly ==
    ASSUME NEW shift \in 0 .. 11, NEW listed \in SUBSET (1 .. 4), NEW year \in Int, NEW q \in 1 .. 4,
           NEW months \in Nat
    PROVE  LET i == EndsIn(shift, listed, year, q) IN
           /\ i \in Int
           /\ Dated(Stated(shift, listed, year, q), year, q, months)
                 = [start |-> MonthAt(i + 1 - months), end |-> MonthAt(i)]
<1> DEFINE i   == EndsIn(shift, listed, year, q)
           end == MonthAt(i)
<1>1. i \in Int
  BY DEF EndsIn, EndNumber, Early
<1>2. ASSUME q \in listed PROVE FiscalEnd(shift, year, q) = end
  <2>1. i = 12 * year + 3 * q + shift - 1
    BY <1>2 DEF EndsIn, EndNumber, Early
  <2>2. QED BY <2>1 DEF FiscalEnd, MonthAt
<1>3. ASSUME q \notin listed PROVE DefaultEnd(year, q) = end
  <2>1. i = 12 * year + (3 * q - 1) /\ 3 * q - 1 \in 0 .. 11
    BY <1>3 DEF EndsIn, EndNumber, Early
  <2>2. i \div 12 = year /\ i % 12 = 3 * q - 1
    <3> HIDE DEF i
    <3> QED BY <1>1, <2>1
  <2>3. (3 * q - 1) + 1 = 3 * q
    OBVIOUS
  <2>4. QED BY <2>2, <2>3 DEF DefaultEnd, MonthAt
<1>4. PeriodStart(end, months) = MonthAt(i + 1 - months)
  <2>1. 12 * end.year + end.month = i + 1 /\ end.year \in Int /\ end.month \in Int
    BY <1>1, MonthNumber
  <2> HIDE DEF i, end
  <2>2. 12 * end.year + end.month - months = i + 1 - months
    BY <1>1, <2>1
  <2>3. QED BY <2>2 DEF PeriodStart, MonthAt
<1> HIDE DEF i, end
<1>5. CASE q \in listed
  <2>1. Stated(shift, listed, year, q) = {end}
    BY <1>2, <1>5 DEF Stated
  <2>2. (CHOOSE e \in {end} : TRUE) = end
    OBVIOUS
  <2>3. Dated({end}, year, q, months) = [start |-> PeriodStart(end, months), end |-> end]
    BY <2>2 DEF Dated
  <2>4. QED BY <1>1, <1>4, <2>1, <2>3 DEF i, end
<1>6. CASE q \notin listed
  <2>1. Stated(shift, listed, year, q) = {} /\ DefaultEnd(year, q) = end
    BY <1>3, <1>6 DEF Stated
  <2>2. Dated({}, year, q, months) = [start |-> PeriodStart(end, months), end |-> end]
    BY <2>1 DEF Dated
  <2>3. QED BY <1>1, <1>4, <2>1, <2>2 DEF i, end
<1>7. QED BY <1>5, <1>6

LEMMA PeriodsFollow ==
    ASSUME NEW shift \in 0 .. 11, NEW listed \in SUBSET (1 .. 4), NEW year \in Int
    PROVE  QuartersFollow(shift, listed, year)
<1> DEFINE quarter(y, q) == Dated(Stated(shift, listed, y, q), y, q, 3)
           whole    == Dated(Stated(shift, listed, year, 4), year, 4, 12)
           early(q) == Early(shift, listed, q)
           next(q)  == IF q = 4 THEN 1 ELSE q + 1
           I(y, q)  == EndsIn(shift, listed, y, q)
<1>1. ASSUME NEW y \in Int, NEW q \in 1 .. 4
      PROVE  /\ I(y, q) \in Int
             /\ quarter(y, q).start = MonthAt(I(y, q) + 1 - 3) /\ quarter(y, q).end = MonthAt(I(y, q))
  <2>1. 3 \in Nat
    OBVIOUS
  <2>2. I(y, q) \in Int /\ quarter(y, q) = [start |-> MonthAt(I(y, q) + 1 - 3), end |-> MonthAt(I(y, q))]
    BY <2>1, EndsEarly
  <2> HIDE DEF quarter, I
  <2>3. QED BY <2>2
<1>2. \A q \in 1 .. 4 : early(q) \in Int /\ EndNumber(shift, year, q) \in Int
  BY DEF Early, EndNumber
<1>3. ASSUME NEW q \in 1 .. 4
      PROVE  MonthsTo(quarter(year, q).end, FiscalEnd(shift, year, q)) = early(q)
  <2>1. FiscalEnd(shift, year, q) = MonthAt(EndNumber(shift, year, q))
    BY DEF FiscalEnd, EndNumber, MonthAt
  <2>2. MonthsTo(MonthAt(I(year, q)), MonthAt(EndNumber(shift, year, q))) = EndNumber(shift, year, q) - I(year, q)
    BY <1>1, <1>2, MonthsBetween
  <2>3. EndNumber(shift, year, q) - I(year, q) = early(q)
    BY <1>2 DEF EndsIn
  <2>4. QED BY <1>1, <2>1, <2>2, <2>3
<1>4. ASSUME NEW q \in 1 .. 4
      PROVE  MonthsTo(quarter(year, q).end, quarter(IF q = 4 THEN year + 1 ELSE year, next(q)).start)
                = 1 + early(q) - early(next(q))
  <2> DEFINE y == IF q = 4 THEN year + 1 ELSE year
  <2>1. y \in Int /\ next(q) \in 1 .. 4
    OBVIOUS
  <2>2. EndNumber(shift, y, next(q)) = EndNumber(shift, year, q) + 3
    BY DEF EndNumber
  <2>3. I(y, next(q)) + 1 - 3 - I(year, q) = 1 + early(q) - early(next(q))
    <3>1. early(q) \in Int /\ early(next(q)) \in Int /\ EndNumber(shift, year, q) \in Int
      BY <1>2, <2>1
    <3> HIDE DEF early, next, y
    <3>2. QED BY <2>2, <3>1 DEF EndsIn, early
  <2>4. quarter(y, next(q)).start = MonthAt(I(y, next(q)) + 1 - 3) /\ I(y, next(q)) \in Int
    BY ONLY <1>1, <2>1
  <2>5. quarter(year, q).end = MonthAt(I(year, q)) /\ I(year, q) \in Int
    BY <1>1
  <2> HIDE DEF quarter, I, y, next, early
  <2>6. MonthsTo(MonthAt(I(year, q)), MonthAt(I(y, next(q)) + 1 - 3)) = I(y, next(q)) + 1 - 3 - I(year, q)
    BY <2>4, <2>5, MonthsBetween
  <2>7. QED BY <2>3, <2>4, <2>5, <2>6 DEF y
<1>5. /\ whole.end = quarter(year, 4).end
      /\ MonthsTo(whole.start, quarter(year, 1).start) = early(4) - early(1)
  <2>1. 4 \in 1 .. 4 /\ 1 \in 1 .. 4 /\ 12 \in Nat
    OBVIOUS
  <2>2. whole.start = MonthAt(I(year, 4) + 1 - 12) /\ whole.end = MonthAt(I(year, 4)) /\ I(year, 4) \in Int
    <3>1. I(year, 4) \in Int /\ whole = [start |-> MonthAt(I(year, 4) + 1 - 12), end |-> MonthAt(I(year, 4))]
      BY <2>1, EndsEarly
    <3> HIDE DEF whole, I
    <3>2. QED BY <3>1
  <2>3. /\ quarter(year, 1).start = MonthAt(I(year, 1) + 1 - 3) /\ I(year, 1) \in Int
        /\ quarter(year, 4).end = MonthAt(I(year, 4))
    BY <1>1, <2>1
  <2>4. (I(year, 1) + 1 - 3) - (I(year, 4) + 1 - 12) = early(4) - early(1)
    <3>1. early(4) \in Int /\ early(1) \in Int
      BY <1>2, <2>1
    <3> HIDE DEF early
    <3>2. QED BY <3>1 DEF EndNumber, EndsIn, early
  <2> HIDE DEF quarter, whole, I, early
  <2>5. MonthsTo(MonthAt(I(year, 4) + 1 - 12), MonthAt(I(year, 1) + 1 - 3))
           = (I(year, 1) + 1 - 3) - (I(year, 4) + 1 - 12)
    <3>1. I(year, 4) + 1 - 12 \in Int /\ I(year, 1) + 1 - 3 \in Int
      BY <2>2, <2>3
    <3>2. QED BY <3>1, MonthsBetween
  <2>6. QED BY <2>2, <2>3, <2>4, <2>5
<1>6. QED BY <1>3, <1>4, <1>5 DEF QuartersFollow, Early

----------------------------------------------------------------------------
(* Periods asked for.                                                      *)

LEMMA BuiltUpTo ==
    ASSUME NEW limit \in Nat, NEW keys, NEW there, IsFiniteSet(keys), NEW n \in Nat,
           n <= limit, n <= Cardinality(keys \cap there)
    PROVE  Built(limit, keys, there) \in n .. limit
<1> DEFINE c == Cardinality(keys \cap there)
           m == IF limit <= c THEN limit ELSE c
<1>1. c \in Nat
  BY FS_Subset, FS_CardinalityType
<1> HIDE DEF c
<1>2. m \in {limit, c} /\ \A y \in {limit, c} : m <= y
  BY <1>1
<1>3. \A x \in {limit, c} : (\A y \in {limit, c} : x <= y) => x = m
  BY <1>1
<1>4. Min({limit, c}) = m
  BY <1>2, <1>3 DEF Min
<1>5. QED BY <1>1, <1>4 DEF Built, c

(* The number of quarters that ended after a quarter, and the quarter after*)
(* which p have.                                                           *)
Past(ended, k)      == 4 * (0 - k[1]) + ended - k[2]
QuarterAt(ended, p) == IF p < ended THEN <<0, ended - p>>
                       ELSE <<-1 - ((p - ended) \div 4), 4 - ((p - ended) % 4)>>

LEMMA QuarterOfPast ==
    ASSUME NEW limit \in Nat, NEW ended \in 0 .. 4, NEW p \in Nat, p <= limit + ended
    PROVE  QuarterAt(ended, p) \in QuarterKeys(limit, ended) /\ Past(ended, QuarterAt(ended, p)) = p
<1>1. CASE p < ended
  <2>1. QuarterAt(ended, p) = <<0, ended - p>> /\ ended - p \in 1 .. 4 /\ ended - p <= ended
    BY <1>1 DEF QuarterAt
  <2>2. limit \div 4 \in Nat
    OBVIOUS
  <2>3. 0 \in (0 - limit \div 4 - 1) .. 0
    BY <2>2
  <2>4. <<0, ended - p>> \in QuarterKeys(limit, ended)
    BY <2>1, <2>3 DEF QuarterKeys
  <2>5. Past(ended, <<0, ended - p>>) = p
    BY DEF Past
  <2>6. QED BY <2>1, <2>4, <2>5
<1>2. CASE ~(p < ended)
  <2> DEFINE e == p - ended
             y == e \div 4
             r == e % 4
             w == limit \div 4
  <2>1. e \in Nat /\ e <= limit
    BY <1>2
  <2> HIDE DEF e
  <2>2. y \in Nat /\ r \in 0 .. 3 /\ e = 4 * y + r /\ w \in Nat
    BY <2>1
  <2>3. y <= w
    BY <2>1
  <2> HIDE DEF y, r, w
  <2>4. QuarterAt(ended, p) = <<-1 - y, 4 - r>>
    BY <1>2 DEF QuarterAt, y, r, e
  <2>5. -1 - y \in (0 - w - 1) .. 0 /\ -1 - y < 0 /\ 4 - r \in 1 .. 4
    BY <2>2, <2>3
  <2>6. <<-1 - y, 4 - r>> \in QuarterKeys(limit, ended)
    BY <2>5 DEF QuarterKeys, w
  <2>7. Past(ended, <<-1 - y, 4 - r>>) = e + ended
    BY <2>2 DEF Past
  <2>8. e + ended = p
    BY DEF e
  <2>9. QED BY <2>4, <2>6, <2>7, <2>8
<1>3. QED BY <1>1, <1>2

LEMMA QuarterKeysFinite ==
    ASSUME NEW limit \in Nat, NEW ended \in 0 .. 4
    PROVE  IsFiniteSet(QuarterKeys(limit, ended))
<1> DEFINE w == 0 - limit \div 4 - 1
<1>1. w \in Int
  OBVIOUS
<1> HIDE DEF w
<1>2. IsFiniteSet(w .. 0) /\ IsFiniteSet(1 .. 4)
  <2>1. 0 \in Int /\ 1 \in Int /\ 4 \in Int
    OBVIOUS
  <2>2. QED BY <1>1, <2>1, FS_Interval
<1>3. IsFiniteSet((w .. 0) \X (1 .. 4))
  BY <1>2, FS_Product
<1>4. QuarterKeys(limit, ended) \in SUBSET ((w .. 0) \X (1 .. 4))
  BY DEF QuarterKeys, w
<1>5. QED BY <1>3, <1>4, FS_Subset

LEMMA EnoughQuarters ==
    ASSUME NEW limit \in Nat, NEW ended \in 0 .. 4, NEW missing \in Nat, NEW n \in Nat,
           n <= limit, missing + n <= limit + 1,
           NEW there, there \in SUBSET QuarterKeys(limit, ended),
           \A k \in QuarterKeys(limit, ended) : Past(ended, k) >= missing => k \in there
    PROVE  Built(limit, QuarterKeys(limit, ended), there) >= n
<1> DEFINE keys  == QuarterKeys(limit, ended)
           f     == [j \in 1 .. n |-> QuarterAt(ended, missing + j - 1)]
<1>1. IsFiniteSet(keys) /\ there \in SUBSET keys /\ \A k \in keys : Past(ended, k) >= missing => k \in there
  BY QuarterKeysFinite
<1>2. ASSUME NEW j \in 1 .. n
      PROVE  f[j] \in there /\ Past(ended, f[j]) = missing + j - 1
  <2>1. missing + j - 1 \in Nat /\ missing + j - 1 <= limit + ended /\ missing + j - 1 >= missing
    OBVIOUS
  <2>2. f[j] = QuarterAt(ended, missing + j - 1)
    OBVIOUS
  <2>3. f[j] \in keys /\ Past(ended, f[j]) = missing + j - 1
    BY <2>1, <2>2, QuarterOfPast
  <2> HIDE DEF f, keys
  <2>4. QED BY <1>1, <2>1, <2>3
<1>3. f \in Injection(1 .. n, there)
  <2>1. f \in [1 .. n -> there]
    BY <1>2
  <2>2. ASSUME NEW i \in 1 .. n, NEW j \in 1 .. n, f[i] = f[j] PROVE i = j
    <3>1. missing + i - 1 = missing + j - 1
      BY <1>2, <2>2
    <3>2. QED BY <3>1
  <2>3. DOMAIN f = 1 .. n
    OBVIOUS
  <2> HIDE DEF f
  <2>4. QED BY <2>1, <2>2, <2>3 DEF Injection, IsInjective
<1> HIDE DEF f, keys
<1>4. there \in SUBSET keys /\ keys \cap there = there /\ IsFiniteSet(there)
  BY <1>1, FS_Subset
<1>5. Cardinality(1 .. n) = n
  BY FS_Interval
<1>6. n <= Cardinality(there)
  BY <1>3, <1>4, <1>5, FS_Injection
<1>7. Built(limit, keys, there) \in n .. limit
  BY <1>1, <1>4, <1>6, BuiltUpTo
<1>8. QED BY <1>7 DEF keys

LEMMA EnoughYears ==
    ASSUME NEW limit \in Nat \ {0}, NEW ended \in 0 .. 4, NEW missing \in Nat,
           NEW there, there \in SUBSET AnnualKeys(limit, ended),
           \A y \in AnnualKeys(limit, ended) : y <= -1 - missing => y \in there
    PROVE  Built(limit, AnnualKeys(limit, ended), there) >= limit - missing
<1> DEFINE keys == AnnualKeys(limit, ended)
           top  == -1 - missing
           n    == IF missing <= limit THEN limit - missing ELSE 0
<1>1. keys \in SUBSET (-limit .. 0) /\ IsFiniteSet(-limit .. 0)
  BY FS_Interval DEF AnnualKeys
<1>2. IsFiniteSet(keys)
  BY <1>1, FS_Subset
<1>3. ASSUME NEW y \in -limit .. top PROVE y \in there
  <2>1. y \in Int /\ y <= -1 /\ y \in -limit .. 0
    BY <1>3
  <2>2. y \in keys
    BY <2>1 DEF AnnualKeys
  <2>3. QED BY <1>3, <2>2
<1>4. -limit \in Int /\ top \in Int /\ n \in Nat /\ n <= limit /\ n >= limit - missing
  OBVIOUS
<1>5. Cardinality(-limit .. top) = IF -limit > top THEN 0 ELSE top - (-limit) + 1
  BY <1>4, FS_Interval
<1>6. Cardinality(-limit .. top) = n
  BY <1>4, <1>5
<1> HIDE DEF keys, n, top
<1>7. keys \cap there = there /\ IsFiniteSet(there)
  BY <1>2, FS_Subset DEF keys
<1>8. n <= Cardinality(there)
  <2>1. (-limit .. top) \in SUBSET there
    BY <1>3
  <2>2. QED BY <1>6, <1>7, <2>1, FS_Subset
<1>9. Built(limit, keys, there) \in n .. limit
  BY <1>2, <1>4, <1>7, <1>8, BuiltUpTo
<1>10. QED BY <1>4, <1>9 DEF keys

LEMMA PeriodsAreEnough ==
    ASSUME NEW limit \in Nat \ {0}, NEW now \in 0 .. 12, NEW shift \in Nat, NEW late \in Nat
    PROVE  EnoughPeriods(limit, now, shift, late)
<1> DEFINE ended == now \div 3
           wait  == shift + late
           quarters == {k \in QuarterKeys(limit, ended) : IsFiled(shift, late, now, k[1], k[2])}
           years    == {y \in AnnualKeys(limit, ended) : IsFiled(shift, late, now, y, 4)}
<1>1. ended \in 0 .. 4 /\ 3 * ended <= now /\ now <= 3 * ended + 2 /\ wait \in Nat
  OBVIOUS
<1> HIDE DEF ended
<1>2. Built(limit, QuarterKeys(limit, ended), quarters) >= limit - (IF wait = 0 THEN 0 ELSE (wait - 1) \div 3)
  <2> DEFINE fewer   == IF wait = 0 THEN 0 ELSE (wait - 1) \div 3
             missing == IF wait = 0 THEN 0 ELSE fewer + 1
  <2>1. fewer \in Nat /\ missing \in Nat /\ wait <= 3 * missing /\ missing <= fewer + 1
    <3>1. CASE wait = 0
      BY <3>1
    <3>2. CASE wait # 0
      <4> DEFINE d == (wait - 1) \div 3
      <4>1. d \in Nat /\ wait - 1 <= 3 * d + 2
        BY <1>1, <3>2
      <4> HIDE DEF d
      <4>2. fewer = d /\ missing = d + 1
        BY <3>2 DEF d
      <4> HIDE DEF fewer, missing
      <4>3. QED BY <1>1, <4>1, <4>2
    <3>3. QED BY <3>1, <3>2
  <2> HIDE DEF fewer, missing
  <2>2. CASE fewer > limit
    <3>1. IsFiniteSet(QuarterKeys(limit, ended))
      BY <1>1, QuarterKeysFinite
    <3>2. Cardinality(QuarterKeys(limit, ended) \cap quarters) \in Nat
      BY <3>1, FS_Subset, FS_CardinalityType
    <3> HIDE DEF quarters
    <3>3. Built(limit, QuarterKeys(limit, ended), quarters) \in 0 .. limit
      BY <3>1, <3>2, BuiltUpTo
    <3>4. Built(limit, QuarterKeys(limit, ended), quarters) >= limit - fewer
      BY <2>1, <2>2, <3>3
    <3>5. QED BY <3>4 DEF fewer
  <2>3. CASE fewer <= limit
    <3>1. limit - fewer \in Nat /\ limit - fewer <= limit /\ missing + (limit - fewer) <= limit + 1
      BY <2>1, <2>3
    <3>2. ASSUME NEW k \in QuarterKeys(limit, ended), Past(ended, k) >= missing PROVE k \in quarters
      <4>1. k[1] \in Int /\ k[2] \in Int
        BY DEF QuarterKeys
      <4>2. 12 * k[1] + 3 * k[2] + wait <= now
        <5>1. 4 * (0 - k[1]) + ended - k[2] >= missing
          BY <3>2 DEF Past
        <5> HIDE DEF wait
        <5>2. QED BY <1>1, <2>1, <4>1, <5>1
      <4>3. IsFiled(shift, late, now, k[1], k[2])
        BY <4>1, <4>2 DEF IsFiled
      <4>4. QED BY <4>3
    <3>3. quarters \in SUBSET QuarterKeys(limit, ended)
      OBVIOUS
    <3> HIDE DEF quarters
    <3>4. Built(limit, QuarterKeys(limit, ended), quarters) >= limit - fewer
      BY <1>1, <2>1, <3>1, <3>2, <3>3, EnoughQuarters
    <3>5. QED BY <3>4 DEF fewer
  <2>4. QED BY <2>1, <2>2, <2>3
<1>3. Built(limit, AnnualKeys(limit, ended), years) >= limit - (IF wait <= now THEN 0 ELSE (wait - now + 11) \div 12)
  <2> DEFINE missing == IF wait <= now THEN 0 ELSE (wait - now + 11) \div 12
  <2>1. missing \in Nat /\ wait <= now + 12 * missing
    <3>1. CASE wait <= now
      BY <1>1, <3>1
    <3>2. CASE wait > now
      <4> DEFINE e == wait - now + 11
                 d == e \div 12
      <4>1. e \in Nat
        BY <1>1, <3>2
      <4> HIDE DEF e
      <4>2. d \in Nat /\ e <= 12 * d + 11
        BY <4>1
      <4> HIDE DEF d
      <4>3. missing = d
        BY <3>2, <1>1 DEF d, e
      <4> HIDE DEF missing
      <4>4. QED BY <1>1, <4>2, <4>3 DEF e
    <3>3. QED BY <1>1, <3>1, <3>2
  <2> HIDE DEF missing
  <2>2. ASSUME NEW y \in AnnualKeys(limit, ended), y <= -1 - missing PROVE y \in years
    <3>1. y \in Int
      BY DEF AnnualKeys
    <3>2. 12 * y + 3 * 4 + wait <= now
      <4> HIDE DEF wait
      <4> QED BY <1>1, <2>1, <2>2, <3>1
    <3>3. IsFiled(shift, late, now, y, 4)
      BY <3>1, <3>2 DEF IsFiled
    <3>4. QED BY <3>3
  <2>3. years \in SUBSET AnnualKeys(limit, ended)
    OBVIOUS
  <2> HIDE DEF years
  <2>4. Built(limit, AnnualKeys(limit, ended), years) >= limit - missing
    BY <1>1, <2>1, <2>2, <2>3, EnoughYears
  <2>5. QED BY <2>4 DEF missing
<1>4. QED BY <1>2, <1>3 DEF EnoughPeriods, ended

----------------------------------------------------------------------------
(* Facts of EDGAR.                                                         *)

(* A fact that is picked is the last of its tag, and no fact of an earlier *)
(* tag is the last of its own.                                             *)
IsAt(f, item, start, end) == f.item = item /\ f.start = start /\ f.end = end

LEMMA PickedFact ==
    ASSUME NEW facts, NEW item, NEW start, NEW end, NEW v \in Pick(facts, item, start, end)
    PROVE  \E f \in facts :
              /\ f.val = v /\ IsAt(f, item, start, end)
              /\ \A h \in facts : IsAt(h, item, start, end) /\ h.tag = f.tag => h.filed <= f.filed
              /\ \A g \in facts :
                    /\ IsAt(g, item, start, end)
                    /\ \A h \in facts : IsAt(h, item, start, end) /\ h.tag = g.tag => h.filed <= g.filed
                    => TagOrder(f.tag) <= TagOrder(g.tag)
<1> DEFINE tagged(tag) == {h \in facts : h.item = item /\ h.tag = tag}
           last == {g \in facts : g.item = item /\ g.start = start /\ g.end = end
                                   /\ g \in Latest(tagged(g.tag), start, end)}
<1>1. PICK f \in FirstTagged(last) : f.val = v
  BY Zenon DEF Pick
<1>2. \A g : g \in last <=> /\ g \in facts /\ IsAt(g, item, start, end)
                             /\ \A h \in facts : IsAt(h, item, start, end) /\ h.tag = g.tag => h.filed <= g.filed
  BY DEF Latest, IsAt
<1>3. f \in last /\ \A g \in last : TagOrder(f.tag) <= TagOrder(g.tag)
  BY <1>1 DEF FirstTagged
<1> HIDE DEF last
<1>4. QED BY <1>1, <1>2, <1>3

----------------------------------------------------------------------------
(* Periods of EDGAR.                                                       *)

LEMMA ReportDates ==
    ASSUME NEW r \in 1 .. 8
    PROVE  /\ YearOf(r) = IF r <= 4 THEN 0 ELSE 1
           /\ QuarterOf(r) = IF r <= 4 THEN r ELSE r - 4
BY DEF YearOf, QuarterOf

(* When the year of a quarter begins; its quarters are written alone.      *)
Begin(end) == IF end <= 0 THEN -4 ELSE IF end <= 4 THEN 0 ELSE 4
IsAlone(company, item, end) == item = "income" /\ IF end \in {0, 4, 8} THEN company.fourth ELSE company.quarters
Starts(company, item, start, end) == start = Begin(end) \/ (IsAlone(company, item, end) /\ start = end - 1)

(* A later report may restate the first year.                              *)
IsAgain(company, r, end) == company.restates /\ YearOf(r) = 1 /\ end = r - 4

(* What a report says of a period.                                         *)
Flow(company, item, r, start, end) ==
    [item |-> item, tag |-> company.tags[r], start |-> start, end |-> end,
     val |-> Earned(company.tags[r], IsAgain(company, r, end), Interval(start, end)),
     form |-> IF QuarterOf(r) = 4 THEN "10-K" ELSE "10-Q", filed |-> r, fy |-> YearOf(r)]

LEMMA SpanIs ==
    ASSUME NEW company, NEW item, NEW r \in 1 .. 8, NEW year \in {YearOf(r) - 1, YearOf(r)}, NEW s
    PROVE  s \in Spans(company, item, year, QuarterOf(r)) <=>
              \E start, end : /\ s = Interval(start, end)
                              /\ end = IF year = YearOf(r) THEN r ELSE r - 4
                              /\ Starts(company, item, start, end)
<1> DEFINE e == IF year = YearOf(r) THEN r ELSE r - 4
<1>1. e = 4 * year + QuarterOf(r) /\ 4 * year = Begin(e) /\ (QuarterOf(r) = 4 <=> e \in {0, 4, 8})
  BY ReportDates DEF Begin
<1> HIDE DEF e
<1>2. s \in Spans(company, item, year, QuarterOf(r)) <=> s = Interval(Begin(e), e) \/ (IsAlone(company, item, e) /\ s = Interval(e - 1, e))
  <2>1. (item = "income" /\ IF QuarterOf(r) = 4 THEN company.fourth ELSE company.quarters) <=> IsAlone(company, item, e)
    BY <1>1 DEF IsAlone
  <2>2. 4 * year + QuarterOf(r) = e /\ 4 * year + QuarterOf(r) - 1 = e - 1
    BY <1>1 DEF QuarterOf
  <2>3. Spans(company, item, year, QuarterOf(r)) =
          {Interval(Begin(e), e)} \union (IF IsAlone(company, item, e) THEN {Interval(e - 1, e)} ELSE {})
    BY <1>1, <2>1, <2>2, Zenon DEF Spans
  <2>4. QED BY <2>3, Zenon
<1>3. QED BY <1>2 DEF Starts, e

LEMMA FlowsOfReport ==
    ASSUME NEW company, NEW r \in 1 .. 8
    PROVE  \A f : f \in FactsOf(company, r) <=>
              \E item \in {"income", "cash"}, end \in {r, r - 4} : \E start :
                 Starts(company, item, start, end) /\ f = Flow(company, item, r, start, end)
<1> DEFINE fact(item, year, s) ==
             LET restated == company.restates /\ YearOf(r) = 1 /\ year = 0
                 tag      == company.tags[r] IN
             [item |-> item, tag |-> tag, start |-> s.start, end |-> s.end,
              val |-> Earned(tag, restated, s),
              form |-> IF QuarterOf(r) = 4 THEN "10-K" ELSE "10-Q", filed |-> r, fy |-> YearOf(r)]
           endOf(year) == IF year = YearOf(r) THEN r ELSE r - 4
<1>1. FactsOf(company, r) = UNION {{fact(item, year, s) : s \in Spans(company, item, year, QuarterOf(r))} :
                                      item \in {"income", "cash"}, year \in {YearOf(r) - 1, YearOf(r)}}
  BY DEF FactsOf
<1>2. ASSUME NEW item \in {"income", "cash"}, NEW year \in {YearOf(r) - 1, YearOf(r)}, NEW start
      PROVE  fact(item, year, Interval(start, endOf(year))) = Flow(company, item, r, start, endOf(year))
  <2>1. (YearOf(r) = 1 /\ year = 0) <=> (YearOf(r) = 1 /\ endOf(year) = r - 4)
    BY ReportDates
  <2>2. (company.restates /\ YearOf(r) = 1 /\ year = 0) = IsAgain(company, r, endOf(year))
    BY <2>1, Zenon DEF IsAgain
  <2>3. Interval(start, endOf(year)).start = start /\ Interval(start, endOf(year)).end = endOf(year)
    BY DEF Interval
  <2> HIDE DEF endOf
  <2>4. QED BY <2>2, <2>3, Zenon DEF Flow
<1> DEFINE about(item, year) == {fact(item, year, s) : s \in Spans(company, item, year, QuarterOf(r))}
<1>3. \A f : f \in FactsOf(company, r) <=>
              \E item \in {"income", "cash"}, year \in {YearOf(r) - 1, YearOf(r)} : f \in about(item, year)
  <2> HIDE DEF fact
  <2>1. FactsOf(company, r) = UNION {about(item, year) : item \in {"income", "cash"}, year \in {YearOf(r) - 1, YearOf(r)}}
    BY <1>1
  <2> HIDE DEF about, endOf
  <2>2. ASSUME NEW f \in FactsOf(company, r)
        PROVE  \E item \in {"income", "cash"}, year \in {YearOf(r) - 1, YearOf(r)} : f \in about(item, year)
    BY <2>1
  <2>3. ASSUME NEW item \in {"income", "cash"}, NEW year \in {YearOf(r) - 1, YearOf(r)}, NEW f \in about(item, year)
        PROVE  f \in FactsOf(company, r)
    BY <2>1
  <2>4. QED BY <2>2, <2>3, Zenon
<1>4. endOf(YearOf(r)) = r /\ endOf(YearOf(r) - 1) = r - 4
  BY ReportDates
<1> HIDE DEF fact
<1>5. ASSUME NEW f \in FactsOf(company, r)
      PROVE  \E item \in {"income", "cash"}, end \in {r, r - 4} : \E start :
                Starts(company, item, start, end) /\ f = Flow(company, item, r, start, end)
  <2>1. PICK item \in {"income", "cash"}, year \in {YearOf(r) - 1, YearOf(r)} :
           \E s \in Spans(company, item, year, QuarterOf(r)) : f = fact(item, year, s)
    BY <1>1
  <2>2. PICK s \in Spans(company, item, year, QuarterOf(r)) : f = fact(item, year, s)
    BY <2>1
  <2>3. PICK start : s = Interval(start, endOf(year)) /\ Starts(company, item, start, endOf(year))
    BY SpanIs
  <2>4. endOf(year) \in {r, r - 4}
    BY <1>4
  <2> HIDE DEF endOf
  <2>5. QED BY <1>2, <2>2, <2>3, <2>4
<1>6. ASSUME NEW item \in {"income", "cash"}, NEW end \in {r, r - 4}, NEW start, Starts(company, item, start, end)
      PROVE  Flow(company, item, r, start, end) \in FactsOf(company, r)
  <2>1. PICK year \in {YearOf(r) - 1, YearOf(r)} : end = endOf(year)
    BY <1>4
  <2>2. Interval(start, end) \in Spans(company, item, year, QuarterOf(r))
    BY <1>6, <2>1, SpanIs
  <2> HIDE DEF endOf
  <2>3. fact(item, year, Interval(start, end)) \in FactsOf(company, r)
    <3>1. fact(item, year, Interval(start, end)) \in {fact(item, year, s) : s \in Spans(company, item, year, QuarterOf(r))}
      BY <2>2
    <3>2. QED BY <1>3, <3>1
  <2>4. QED BY <1>2, <2>1, <2>3
<1> DEFINE told(f) == \E item \in {"income", "cash"}, end \in {r, r - 4} : \E start :
                        Starts(company, item, start, end) /\ f = Flow(company, item, r, start, end)
<1> HIDE DEF about, endOf
<1>7. ASSUME NEW f, told(f) PROVE f \in FactsOf(company, r)
  <2>1. PICK item \in {"income", "cash"}, end \in {r, r - 4} : \E start :
           Starts(company, item, start, end) /\ f = Flow(company, item, r, start, end)
    BY <1>7
  <2>2. PICK start : Starts(company, item, start, end) /\ f = Flow(company, item, r, start, end)
    BY <2>1
  <2>3. QED BY <1>6, <2>2
<1>8. \A f \in FactsOf(company, r) : told(f)
  BY <1>5
<1>9. \A f : f \in FactsOf(company, r) <=> told(f)
  <2> HIDE DEF told
  <2> QED BY <1>7, <1>8
<1>10. QED BY <1>9

(* All facts about flows.                                                  *)
LEMMA FlowFacts ==
    ASSUME NEW company, NEW known \in 0 .. 8, IsReporting(company), NEW item \in {"income", "cash"}
    PROVE  /\ \A f \in Facts(company, known) : f.item = item =>
                 /\ f.filed \in 1 .. known /\ f.end \in {f.filed, f.filed - 4}
                 /\ Starts(company, item, f.start, f.end)
                 /\ f = Flow(company, item, f.filed, f.start, f.end)
           /\ \A r \in 1 .. known : \A end, start : end \in {r, r - 4} /\ Starts(company, item, start, end) =>
                 Flow(company, item, r, start, end) \in Facts(company, known)
<1>1. \A f : f \in Facts(company, known) <=> \E r \in 1 .. known : f \in FactsOf(company, r) \/ f \in BalancesOf(company, r)
  BY DEF Facts
<1>2. ASSUME NEW r \in 1 .. known, NEW f \in BalancesOf(company, r) PROVE f.item \notin {"income", "cash"}
  BY DEF BalancesOf
<1>3. ASSUME NEW f \in Facts(company, known), f.item = item
      PROVE  /\ f.filed \in 1 .. known /\ f.end \in {f.filed, f.filed - 4}
             /\ Starts(company, item, f.start, f.end)
             /\ f = Flow(company, item, f.filed, f.start, f.end)
  <2>1. PICK r \in 1 .. known : f \in FactsOf(company, r)
    BY <1>1, <1>2, <1>3
  <2>2. PICK i \in {"income", "cash"}, end \in {r, r - 4} : \E start :
           Starts(company, i, start, end) /\ f = Flow(company, i, r, start, end)
    BY <2>1, FlowsOfReport
  <2>3. PICK start : Starts(company, i, start, end) /\ f = Flow(company, i, r, start, end)
    BY <2>2
  <2>4. f.item = i /\ f.filed = r /\ f.start = start /\ f.end = end
    BY <2>3 DEF Flow
  <2>5. QED BY <1>3, <2>3, <2>4
<1>4. ASSUME NEW r \in 1 .. known, NEW end, NEW start, end \in {r, r - 4}, Starts(company, item, start, end)
      PROVE  Flow(company, item, r, start, end) \in Facts(company, known)
  <2>1. Flow(company, item, r, start, end) \in FactsOf(company, r)
    BY <1>4, FlowsOfReport
  <2>2. QED BY <1>1, <2>1
<1>5. QED BY <1>3, <1>4

----------------------------------------------------------------------------
(* Balances of EDGAR.                                                      *)

(* What a report says of a date.                                           *)
Restated(company, r, end) == company.restates /\ YearOf(r) = 1 /\ end <= 4
Owed(company, r, end)  == Truth("a", Restated(company, r, end), end)
Own(company, r, end)   == Truth("b", Restated(company, r, end), end)
Minority(company)      == IF company.minority THEN 1 ELSE 0

Balance(item, tag, end, val, r) ==
    [item |-> item, tag |-> tag, start |-> end, end |-> end, val |-> val, form |-> "10-Q",
     filed |-> r, fy |-> YearOf(r)]
TotalOf(company, r, end) ==
    Balance("total", "a", end, Owed(company, r, end) + Own(company, r, end) + Minority(company), r)
EquityOf(company, r, end) == Balance("equity", "b", end, Own(company, r, end), r)
WholeEquityOf(company, r, end) == Balance("equity", "a", end, Own(company, r, end) + Minority(company), r)
LiabilitiesOf(company, r, end) == Balance("liabilities", "a", end, Owed(company, r, end), r)

IsBalance(f, company, r, end) ==
    \/ f = TotalOf(company, r, end) \/ f = EquityOf(company, r, end)
    \/ company.minority /\ f = WholeEquityOf(company, r, end)
    \/ YearOf(r) \in company.liable /\ f = LiabilitiesOf(company, r, end)

(* The dates of the balances of a report.                                  *)
IsAbout(r, end) == end = r \/ end = 4 * YearOf(r)

LEMMA BalancesOfReport ==
    ASSUME NEW company, NEW r, IsReporting(company)
    PROVE  \A f : f \in BalancesOf(company, r) <=> \E end : IsAbout(r, end) /\ IsBalance(f, company, r, end)
<1> DEFINE of(item, tag, end, val) ==
             [item |-> item, tag |-> tag, start |-> end, end |-> end, val |-> val, form |-> "10-Q",
              filed |-> r, fy |-> YearOf(r)]
           at(end) ==
             LET restated == company.restates /\ YearOf(r) = 1 /\ end <= 4
                 owed == Truth("a", restated, end)
                 own  == Truth("b", restated, end)
                 minority == IF company.minority THEN 1 ELSE 0 IN
             {of("total", "a", end, owed + own + minority), of("equity", "b", end, own)}
             \union {of("equity", "a", end, own + m) : m \in {minority} \ {0}}
             \union {of("liabilities", "a", end, owed) : y \in company.liable \cap {YearOf(r)}}
<1>1. BalancesOf(company, r) = at(r) \union at(4 * YearOf(r))
  BY DEF BalancesOf
<1>2. ASSUME NEW end, NEW f PROVE f \in at(end) <=> IsBalance(f, company, r, end)
  <2>1. f \in {of("total", "a", end, Owed(company, r, end) + Own(company, r, end) + Minority(company)),
               of("equity", "b", end, Own(company, r, end))}
        <=> f = TotalOf(company, r, end) \/ f = EquityOf(company, r, end)
    BY Zenon DEF TotalOf, EquityOf, Balance
  <2>2. f \in {of("equity", "a", end, Own(company, r, end) + m) : m \in {Minority(company)} \ {0}}
        <=> company.minority /\ f = WholeEquityOf(company, r, end)
    <3>1. {Minority(company)} \ {0} = IF company.minority THEN {Minority(company)} ELSE {}
      BY DEF Minority
    <3>2. QED BY <3>1, Zenon DEF WholeEquityOf, Balance
  <2>3. f \in {of("liabilities", "a", end, Owed(company, r, end)) : y \in company.liable \cap {YearOf(r)}}
        <=> YearOf(r) \in company.liable /\ f = LiabilitiesOf(company, r, end)
    BY Zenon DEF LiabilitiesOf, Balance
  <2>4. at(end) = {of("total", "a", end, Owed(company, r, end) + Own(company, r, end) + Minority(company)),
                   of("equity", "b", end, Own(company, r, end))}
                  \union {of("equity", "a", end, Own(company, r, end) + m) : m \in {Minority(company)} \ {0}}
                  \union {of("liabilities", "a", end, Owed(company, r, end)) : y \in company.liable \cap {YearOf(r)}}
    BY Zenon DEF Owed, Own, Restated, Minority
  <2> HIDE DEF at, of
  <2>5. QED BY <2>1, <2>2, <2>3, <2>4, Zenon DEF IsBalance
<1> HIDE DEF at
<1>3. QED BY <1>1, <1>2, Zenon DEF IsAbout

(* All facts about balances.                                               *)
LEMMA BalanceFacts ==
    ASSUME NEW company, NEW known \in 0 .. 8, IsReporting(company)
    PROVE  /\ \A f \in Facts(company, known) : f.item \notin {"income", "cash"} =>
                 \E r \in 1 .. known : \E end : IsAbout(r, end) /\ IsBalance(f, company, r, end)
           /\ \A r \in 1 .. known : \A end, f : IsAbout(r, end) /\ IsBalance(f, company, r, end) => f \in Facts(company, known)
<1>1. ASSUME NEW r \in 1 .. known, NEW f \in FactsOf(company, r) PROVE f.item \in {"income", "cash"}
  <2>1. PICK item \in {"income", "cash"}, end \in {r, r - 4} : \E start : f = Flow(company, item, r, start, end)
    BY FlowsOfReport
  <2>2. QED BY <2>1 DEF Flow
<1>2. \A f : f \in Facts(company, known) <=> \E r \in 1 .. known : f \in FactsOf(company, r) \/ f \in BalancesOf(company, r)
  BY DEF Facts
<1>3. ASSUME NEW f \in Facts(company, known), f.item \notin {"income", "cash"}
      PROVE  \E r \in 1 .. known : \E end : IsAbout(r, end) /\ IsBalance(f, company, r, end)
  <2>1. PICK r \in 1 .. known : f \in BalancesOf(company, r)
    BY <1>1, <1>2, <1>3, Zenon
  <2>2. QED BY <2>1, BalancesOfReport, Zenon
<1>4. ASSUME NEW r \in 1 .. known, NEW end, NEW f, IsAbout(r, end), IsBalance(f, company, r, end)
      PROVE  f \in Facts(company, known)
  BY <1>2, <1>4, BalancesOfReport, Zenon
<1>5. QED BY <1>3, <1>4, Zenon

(* The fields of balances.                                                 *)
LEMMA BalanceFields ==
    ASSUME NEW company, NEW r, NEW date, NEW f, IsBalance(f, company, r, date)
    PROVE  /\ f.filed = r /\ f.start = date /\ f.end = date
           /\ f.item = "total" => f.tag = "a" /\ f.val = Owed(company, r, date) + Own(company, r, date) + Minority(company)
           /\ f.item = "equity" => \/ f.tag = "b" /\ f.val = Own(company, r, date)
                                   \/ company.minority /\ f.tag = "a"
                                      /\ f.val = Own(company, r, date) + Minority(company)
           /\ f.item = "liabilities" => YearOf(r) \in company.liable /\ f.tag = "a" /\ f.val = Owed(company, r, date)
BY DEF IsBalance, Balance, TotalOf, EquityOf, WholeEquityOf, LiabilitiesOf

LEMMA ReportsBalances ==
    ASSUME NEW company, NEW known \in 0 .. 8, IsReporting(company), NEW r \in 1 .. known, NEW end, IsAbout(r, end)
    PROVE  /\ \E f \in Facts(company, known) : IsAt(f, "total", end, end) /\ f.tag = "a" /\ f.filed = r
           /\ \E f \in Facts(company, known) : IsAt(f, "equity", end, end) /\ f.tag = "b" /\ f.filed = r
           /\ company.minority =>
                 \E f \in Facts(company, known) : IsAt(f, "equity", end, end) /\ f.tag = "a" /\ f.filed = r
           /\ YearOf(r) \in company.liable =>
                 \E f \in Facts(company, known) : IsAt(f, "liabilities", end, end) /\ f.tag = "a" /\ f.filed = r
<1> DEFINE t == TotalOf(company, r, end)
           e == EquityOf(company, r, end)
           w == WholeEquityOf(company, r, end)
           l == LiabilitiesOf(company, r, end)
<1>1. /\ t \in Facts(company, known) /\ e \in Facts(company, known)
      /\ company.minority => w \in Facts(company, known)
      /\ YearOf(r) \in company.liable => l \in Facts(company, known)
  BY BalanceFacts, Zenon DEF IsBalance
<1>2. IsAt(t, "total", end, end) /\ t.tag = "a" /\ t.filed = r
  BY DEF IsAt, TotalOf, Balance
<1>3. IsAt(e, "equity", end, end) /\ e.tag = "b" /\ e.filed = r
  BY DEF IsAt, EquityOf, Balance
<1>4. IsAt(w, "equity", end, end) /\ w.tag = "a" /\ w.filed = r
  BY DEF IsAt, WholeEquityOf, Balance
<1>5. IsAt(l, "liabilities", end, end) /\ l.tag = "a" /\ l.filed = r
  BY DEF IsAt, LiabilitiesOf, Balance
<1> HIDE DEF t, e, w, l
<1>6. QED BY <1>1, <1>2, <1>3, <1>4, <1>5, Zenon

(* The last report about a date.                                           *)
IsLast(known, end, r) == /\ r \in 1 .. known /\ IsAbout(r, end)
                         /\ \A s \in 1 .. known : IsAbout(s, end) => s <= r

LEMMA LastReport ==
    ASSUME NEW known \in 0 .. 8, NEW end, NEW s \in 1 .. known, IsAbout(s, end)
    PROVE  \E r : IsLast(known, end, r)
<1> DEFINE S == {r \in 1 .. known : IsAbout(r, end)}
<1>1. known \in Nat /\ S \in SUBSET (0 .. known) /\ S # {}
  OBVIOUS
<1>2. Max(S) \in S /\ \A m \in S : m <= Max(S)
  <2> HIDE DEF S
  <2> QED BY <1>1, GreatestElement
<1>3. QED BY <1>2 DEF IsLast

(* Where a fact about balances comes from.                                 *)
LEMMA BalanceOf ==
    ASSUME NEW company, NEW known \in 0 .. 8, IsReporting(company), NEW item \in {"total", "equity", "liabilities"}, NEW end,
           NEW f \in Facts(company, known), IsAt(f, item, end, end)
    PROVE  f.filed \in 1 .. known /\ IsAbout(f.filed, end) /\ IsBalance(f, company, f.filed, end)
<1>1. f.item \notin {"income", "cash"} /\ f.end = end
  BY DEF IsAt
<1>2. PICK r \in 1 .. known : \E date : IsAbout(r, date) /\ IsBalance(f, company, r, date)
  BY <1>1, BalanceFacts, Zenon
<1>3. PICK date : IsAbout(r, date) /\ IsBalance(f, company, r, date)
  BY <1>2
<1>4. f.filed = r /\ f.end = date
  BY <1>3, BalanceFields
<1>5. QED BY <1>1, <1>3, <1>4

LEMMA AmountsAreNumbers ==
    ASSUME NEW company, IsReporting(company), NEW r \in 1 .. 8, NEW end, IsAbout(r, end)
    PROVE  Owed(company, r, end) \in Int /\ Own(company, r, end) \in Int /\ Minority(company) \in Int
<1>1. end \in 0 .. 8
  BY DEF IsAbout, YearOf
<1>2. Restated(company, r, end) \in BOOLEAN
  BY Zenon DEF Restated, IsReporting
<1>3. Owed(company, r, end) \in Int /\ Own(company, r, end) \in Int
  BY <1>1, <1>2, CalculationsAssumption, Zenon DEF Owed, Own
<1>4. QED BY <1>3 DEF Minority

(* The totals and the equity that are shown are of the last report.        *)
LEMMA TotalShown ==
    ASSUME NEW company, NEW known \in 0 .. 8, IsReporting(company), NEW end,
           NEW v \in Pick(Facts(company, known), "total", end, end)
    PROVE  \E r : IsLast(known, end, r) /\ v = Owed(company, r, end) + Own(company, r, end) + Minority(company)
<1> DEFINE facts == Facts(company, known)
<1>1. PICK f \in facts :
         /\ f.val = v /\ IsAt(f, "total", end, end)
         /\ \A h \in facts : IsAt(h, "total", end, end) /\ h.tag = f.tag => h.filed <= f.filed
  BY PickedFact
<1>2. f.filed \in 1 .. known /\ IsAbout(f.filed, end) /\ IsBalance(f, company, f.filed, end)
  BY <1>1, BalanceOf
<1>3. f.tag = "a" /\ v = Owed(company, f.filed, end) + Own(company, f.filed, end) + Minority(company)
  BY <1>1, <1>2, BalanceFields DEF IsAt
<1>4. ASSUME NEW s \in 1 .. known, IsAbout(s, end) PROVE s <= f.filed
  <2>1. PICK h \in facts : IsAt(h, "total", end, end) /\ h.tag = "a" /\ h.filed = s
    BY <1>4, ReportsBalances
  <2>2. QED BY <1>1, <1>3, <2>1
<1>5. QED BY <1>2, <1>3, <1>4 DEF IsLast

LEMMA EquityShown ==
    ASSUME NEW company, NEW known \in 0 .. 8, IsReporting(company), NEW end,
           NEW v \in Pick(Facts(company, known), "equity", end, end)
    PROVE  \E r : IsLast(known, end, r) /\ v = Own(company, r, end) + Minority(company)
<1> DEFINE facts == Facts(company, known)
           isLast(g) == \A h \in facts : IsAt(h, "equity", end, end) /\ h.tag = g.tag => h.filed <= g.filed
<1>1. PICK f \in facts :
         /\ f.val = v /\ IsAt(f, "equity", end, end) /\ isLast(f)
         /\ \A g \in facts : IsAt(g, "equity", end, end) /\ isLast(g) => TagOrder(f.tag) <= TagOrder(g.tag)
  BY PickedFact
<1>2. f.filed \in 1 .. known /\ IsAbout(f.filed, end) /\ IsBalance(f, company, f.filed, end)
  BY <1>1, BalanceOf
<1>3. \/ f.tag = "b" /\ v = Own(company, f.filed, end)
      \/ company.minority /\ f.tag = "a" /\ v = Own(company, f.filed, end) + Minority(company)
  BY <1>1, <1>2, BalanceFields DEF IsAt
<1>4. PICK r : IsLast(known, end, r)
  BY <1>2, LastReport
<1>5. r \in 1 .. known /\ IsAbout(r, end) /\ \A s \in 1 .. known : IsAbout(s, end) => s <= r
  BY <1>4 DEF IsLast
<1>6. CASE company.minority
  <2>1. PICK g \in facts : IsAt(g, "equity", end, end) /\ g.tag = "a" /\ g.filed = r
    BY <1>5, <1>6, ReportsBalances
  <2>2. ASSUME NEW h \in facts, IsAt(h, "equity", end, end) PROVE h.filed <= r
    <3>1. h.filed \in 1 .. known /\ IsAbout(h.filed, end)
      BY <2>2, BalanceOf
    <3>2. QED BY <1>5, <3>1
  <2>3. isLast(g)
    BY <2>1, <2>2
  <2>4. TagOrder(f.tag) <= TagOrder("a")
    BY <1>1, <2>1, <2>3
  <2>5. f.tag = "a" /\ v = Own(company, f.filed, end) + Minority(company)
    BY <1>3, <2>4, CalculationsAssumption
  <2>6. r <= f.filed
    BY <1>1, <2>1, <2>5
  <2>7. f.filed = r
    BY <1>2, <1>5, <2>6
  <2>8. QED BY <1>4, <2>5, <2>7
<1>7. CASE ~company.minority
  <2>1. PICK g \in facts : IsAt(g, "equity", end, end) /\ g.tag = "b" /\ g.filed = r
    BY <1>5, ReportsBalances
  <2>2. f.tag = "b" /\ v = Own(company, f.filed, end)
    BY <1>3, <1>7
  <2>3. r <= f.filed
    BY <1>1, <2>1, <2>2
  <2>4. f.filed = r
    BY <1>2, <1>5, <2>3
  <2>5. v = Own(company, r, end) + 0
    BY <2>2, <2>4, <1>5, AmountsAreNumbers
  <2>6. QED BY <1>4, <1>7, <2>5 DEF Minority
<1>8. QED BY <1>6, <1>7

(* Liabilities are of the last report that has them.                       *)
LEMMA LiabilitiesShown ==
    ASSUME NEW company, NEW known \in 0 .. 8, IsReporting(company), NEW end,
           NEW v \in Pick(Facts(company, known), "liabilities", end, end)
    PROVE  \E s \in 1 .. known :
              /\ IsAbout(s, end) /\ YearOf(s) \in company.liable /\ v = Owed(company, s, end)
              /\ \A r \in 1 .. known : IsAbout(r, end) /\ YearOf(r) \in company.liable => r <= s
<1> DEFINE facts == Facts(company, known)
<1>1. PICK f \in facts :
         /\ f.val = v /\ IsAt(f, "liabilities", end, end)
         /\ \A h \in facts : IsAt(h, "liabilities", end, end) /\ h.tag = f.tag => h.filed <= f.filed
  BY PickedFact
<1>2. f.filed \in 1 .. known /\ IsAbout(f.filed, end) /\ IsBalance(f, company, f.filed, end)
  BY <1>1, BalanceOf
<1>3. YearOf(f.filed) \in company.liable /\ f.tag = "a" /\ v = Owed(company, f.filed, end)
  BY <1>1, <1>2, BalanceFields DEF IsAt
<1>4. ASSUME NEW r \in 1 .. known, IsAbout(r, end), YearOf(r) \in company.liable PROVE r <= f.filed
  <2>1. PICK h \in facts : IsAt(h, "liabilities", end, end) /\ h.tag = "a" /\ h.filed = r
    BY <1>4, ReportsBalances
  <2>2. QED BY <1>1, <1>3, <2>1
<1>5. QED BY <1>2, <1>3, <1>4

(* Two reports about one date disagree only on the end of the first year.  *)
LEMMA RestatedOnce ==
    ASSUME NEW company, IsReporting(company), NEW r \in 1 .. 8, NEW s \in 1 .. 8, NEW end,
           IsAbout(r, end), IsAbout(s, end), s <= r, Owed(company, r, end) # Owed(company, s, end)
    PROVE  company.restates /\ end = 4 /\ YearOf(r) = 1 /\ YearOf(s) = 0
<1>1. YearOf(r) \in {0, 1} /\ YearOf(s) \in {0, 1} /\ YearOf(s) <= YearOf(r)
      /\ (YearOf(r) = 1 => r >= 5)
  BY DEF YearOf
<1>2. Restated(company, r, end) # Restated(company, s, end)
  BY Zenon DEF Owed
<1>3. company.restates /\ end <= 4 /\ YearOf(r) # YearOf(s)
  BY <1>2 DEF Restated
<1>4. YearOf(r) = 1 /\ YearOf(s) = 0
  BY <1>1, <1>3
<1>5. end = 4
  BY <1>1, <1>3, <1>4 DEF IsAbout
<1>6. QED BY <1>3, <1>4, <1>5

(* _stocks: balances of one date add up, derived or reported, restated or  *)
(* not, whatever tags the equity has; but for the end of the first year    *)
(* when the restatement leaves the total of liabilities out.               *)
LEMMA BalancesAgree ==
    ASSUME NEW company \in Companies, NEW known \in 0 .. 8
    PROVE  BalancesAddUp(company, known)
<1> DEFINE facts == Facts(company, known)
<1>1. IsReporting(company) /\ known \in Nat
  BY CalculationsAssumption
<1>2. SUFFICES ASSUME NEW end, NEW total \in Pick(facts, "total", end, end),
                      NEW equity \in Pick(facts, "equity", end, end)
               PROVE  Liabilities(facts, end) = {total - equity}
                      \/ (company.restates /\ company.liable = {0} /\ end = 4)
  BY Zenon DEF BalancesAddUp
<1>3. PICK r : IsLast(known, end, r) /\ total = Owed(company, r, end) + Own(company, r, end) + Minority(company)
  BY <1>1, TotalShown
<1>4. r \in 1 .. known /\ IsAbout(r, end) /\ \A s \in 1 .. known : IsAbout(s, end) => s <= r
  BY <1>3 DEF IsLast
<1>5. PICK l : IsLast(known, end, l) /\ equity = Own(company, l, end) + Minority(company)
  BY <1>1, EquityShown
<1>6. l = r
  BY <1>4, <1>5 DEF IsLast
<1>7. Owed(company, r, end) \in Int /\ Own(company, r, end) \in Int /\ Minority(company) \in Int
  BY <1>1, <1>4, AmountsAreNumbers
<1>8. total - equity = Owed(company, r, end)
  BY <1>3, <1>5, <1>6, <1>7
<1> DEFINE own == Pick(facts, "liabilities", end, end)
<1>9. CASE own = {}
  <2>1. ASSUME NEW t \in Pick(facts, "total", end, end) PROVE t = total
    <3>1. PICK k : IsLast(known, end, k) /\ t = Owed(company, k, end) + Own(company, k, end) + Minority(company)
      BY <1>1, TotalShown
    <3>2. k = r
      BY <1>4, <3>1 DEF IsLast
    <3>3. QED BY <1>3, <3>1, <3>2
  <2>2. ASSUME NEW e \in Pick(facts, "equity", end, end) PROVE e = equity
    <3>1. PICK k : IsLast(known, end, k) /\ e = Own(company, k, end) + Minority(company)
      BY <1>1, EquityShown
    <3>2. k = r
      BY <1>4, <3>1 DEF IsLast
    <3>3. QED BY <1>5, <1>6, <3>1, <3>2
  <2>3. Liabilities(facts, end) = {t - e : t \in Pick(facts, "total", end, end), e \in Pick(facts, "equity", end, end)}
    BY <1>9 DEF Liabilities
  <2> HIDE DEF facts
  <2>4. QED BY <2>1, <2>2, <2>3
<1>10. CASE own # {}
  <2>1. Liabilities(facts, end) = own
    BY <1>10 DEF Liabilities
  <2>2. ASSUME NEW v \in own, v # total - equity
        PROVE  company.restates /\ company.liable = {0} /\ end = 4
    <3>1. PICK s \in 1 .. known :
             /\ IsAbout(s, end) /\ YearOf(s) \in company.liable /\ v = Owed(company, s, end)
             /\ \A k \in 1 .. known : IsAbout(k, end) /\ YearOf(k) \in company.liable => k <= s
      BY <1>1, LiabilitiesShown
    <3>2. s <= r /\ Owed(company, r, end) # Owed(company, s, end)
      BY <1>4, <1>8, <2>2, <3>1
    <3>3. r \in 1 .. 8 /\ s \in 1 .. 8
      BY <1>4, <3>1
    <3>4. company.restates /\ end = 4 /\ YearOf(r) = 1 /\ YearOf(s) = 0
      BY <1>1, <1>4, <3>1, <3>2, <3>3, RestatedOnce
    <3>5. 1 \notin company.liable
      <4>1. SUFFICES ASSUME 1 \in company.liable PROVE FALSE
        OBVIOUS
      <4>2. r <= s
        BY <1>4, <3>1, <3>4, <4>1
      <4>3. r = s
        BY <3>2, <3>3, <4>2
      <4>4. QED BY <3>4, <4>3
    <3>6. company.liable = {0}
      BY <1>1, <3>1, <3>4, <3>5 DEF IsReporting
    <3>7. QED BY <3>4, <3>6
  <2> HIDE DEF own
  <2>3. QED BY <1>10, <2>1, <2>2
<1>11. QED BY <1>9, <1>10

----------------------------------------------------------------------------
(* Quarters of EDGAR.                                                      *)

LEMMA EarnedInQuarter ==
    ASSUME NEW tag, NEW restated, NEW end \in Int, Truth(tag, restated, end) \in Int
    PROVE  Earned(tag, restated, Interval(end - 1, end)) = Truth(tag, restated, end)
<1> DEFINE s == Interval(end - 1, end)
<1>1. s.start = end - 1 /\ s.end = end
  BY DEF Interval
<1> HIDE DEF s
<1>2. /\ s.start + 1 = end /\ s.start + 1 <= s.end
      /\ ~(s.start + 2 <= s.end) /\ ~(s.start + 3 <= s.end) /\ ~(s.start + 4 <= s.end)
  BY <1>1
<1>3. Earned(tag, restated, s) = Truth(tag, restated, end) + 0 + 0 + 0
  BY <1>2, Zenon DEF Earned
<1>4. QED BY <1>3 DEF s

LEMMA EarnedSince ==
    ASSUME NEW tag, NEW restated, NEW start \in Int, NEW q \in 2 .. 4,
           \A k \in 1 .. q : Truth(tag, restated, start + k) \in Int
    PROVE  Earned(tag, restated, Interval(start, start + q)) - Earned(tag, restated, Interval(start, start + q - 1))
              = Truth(tag, restated, start + q)
<1> DEFINE s == Interval(start, start + q)
           b == Interval(start, start + q - 1)
           t(k) == Truth(tag, restated, start + k)
<1>1. s.start = start /\ s.end = start + q /\ b.start = start /\ b.end = start + q - 1
  BY DEF Interval
<1> HIDE DEF s, b
<1>2. Earned(tag, restated, s) = t(1) + t(2) + (IF 3 <= q THEN t(3) ELSE 0) + (IF 4 <= q THEN t(4) ELSE 0)
  <2>1. /\ s.start + 1 <= s.end /\ s.start + 2 <= s.end
        /\ (s.start + 3 <= s.end <=> 3 <= q) /\ (s.start + 4 <= s.end <=> 4 <= q)
    BY <1>1
  <2>2. QED BY <1>1, <2>1, Zenon DEF Earned
<1>3. Earned(tag, restated, b) = t(1) + (IF 3 <= q THEN t(2) ELSE 0) + (IF 4 <= q THEN t(3) ELSE 0) + 0
  <2>1. /\ b.start + 1 <= b.end /\ (b.start + 2 <= b.end <=> 3 <= q)
        /\ (b.start + 3 <= b.end <=> 4 <= q) /\ ~(b.start + 4 <= b.end)
    BY <1>1
  <2>2. QED BY <1>1, <2>1, Zenon DEF Earned
<1>4. \A k \in 1 .. q : t(k) \in Int
  OBVIOUS
<1> HIDE DEF t
<1>5. Earned(tag, restated, s) - Earned(tag, restated, b) = t(q)
  BY <1>2, <1>3, <1>4
<1>6. QED BY <1>5 DEF s, b, t

(* Of facts with a filing one is the last, and of facts with a tag one has *)
(* the first.                                                              *)
LEMMA SomeIsLast ==
    ASSUME NEW about, about # {}, \A f \in about : f.filed \in 0 .. 8
    PROVE  \E f \in about : \A g \in about : g.filed <= f.filed
<1> DEFINE S == {f.filed : f \in about}
<1>1. S \in SUBSET (0 .. 8) /\ S # {}
  OBVIOUS
<1>2. Max(S) \in S /\ \A m \in S : m <= Max(S)
  <2> HIDE DEF S
  <2> QED BY <1>1, GreatestElement
<1> DEFINE top == Max(S)
<1> HIDE DEF top
<1>3. PICK f \in about : f.filed = top
  BY <1>2 DEF top
<1>4. \A g \in about : g.filed <= f.filed
  BY <1>2, <1>3 DEF top
<1>5. QED BY <1>4

LEMMA SomeIsFirstTagged ==
    ASSUME NEW about, about # {}, \A f \in about : TagOrder(f.tag) \in Nat
    PROVE  FirstTagged(about) # {}
<1> DEFINE S == {TagOrder(f.tag) : f \in about}
<1>1. S \in SUBSET Nat /\ S # {}
  OBVIOUS
<1>2. Min(S) \in S /\ \A m \in S : Min(S) <= m
  <2> HIDE DEF S
  <2> QED BY <1>1, LeastElement
<1> DEFINE low == Min(S)
<1> HIDE DEF low
<1>3. PICK f \in about : TagOrder(f.tag) = low
  BY <1>2 DEF low
<1>4. \A g \in about : TagOrder(f.tag) <= TagOrder(g.tag)
  BY <1>2, <1>3 DEF low
<1>5. QED BY <1>4 DEF FirstTagged

(* A flow that is picked is what some report says, and so are the last     *)
(* flows of a tag.                                                         *)
IsIn(end, r) == end \in {r, r - 4}
Says(company, r, start, end) == Earned(company.tags[r], IsAgain(company, r, end), Interval(start, end))

LEMMA FlowShown ==
    ASSUME NEW company, NEW known \in 0 .. 8, IsReporting(company), NEW item \in {"income", "cash"},
           NEW start, NEW end, NEW v \in Pick(Facts(company, known), item, start, end)
    PROVE  \E r \in 1 .. known : IsIn(end, r) /\ v = Says(company, r, start, end)
<1>1. PICK f \in Facts(company, known) : f.val = v /\ IsAt(f, item, start, end)
  BY PickedFact
<1>2. f.item = item /\ f.start = start /\ f.end = end
  BY <1>1 DEF IsAt
<1>3. f.filed \in 1 .. known /\ IsIn(end, f.filed) /\ f = Flow(company, item, f.filed, start, end)
  BY <1>2, FlowFacts DEF IsIn
<1>4. Flow(company, item, f.filed, start, end).val = Says(company, f.filed, start, end)
  BY DEF Flow, Says
<1>5. QED BY <1>1, <1>3, <1>4

Under(facts, item, tag) == {f \in facts : f.item = item /\ f.tag = tag}

LEMMA LatestFlow ==
    ASSUME NEW company, NEW known \in 0 .. 8, IsReporting(company), NEW item \in {"income", "cash"},
           NEW start, NEW end, Starts(company, item, start, end), NEW tag,
           NEW a \in Latest(Under(Facts(company, known), item, tag), start, end)
    PROVE  /\ a.filed \in 1 .. known /\ IsIn(end, a.filed) /\ company.tags[a.filed] = tag
           /\ a.val = Says(company, a.filed, start, end)
           /\ \A r \in 1 .. known : IsIn(end, r) /\ company.tags[r] = tag => r <= a.filed
<1> DEFINE facts == Facts(company, known)
           about == {f \in Under(facts, item, tag) : f.start = start /\ f.end = end}
<1>1. a \in about /\ \A g \in about : g.filed <= a.filed
  BY DEF Latest
<1>2. a \in facts /\ a.item = item /\ a.tag = tag /\ a.start = start /\ a.end = end
  BY <1>1 DEF Under
<1>3. a.filed \in 1 .. known /\ IsIn(end, a.filed) /\ a = Flow(company, item, a.filed, start, end)
  BY <1>2, FlowFacts DEF IsIn
<1>4. \A r : LET f == Flow(company, item, r, start, end) IN
              /\ f.item = item /\ f.tag = company.tags[r] /\ f.start = start /\ f.end = end /\ f.filed = r
              /\ f.val = Says(company, r, start, end)
  BY DEF Flow, Says
<1>5. company.tags[a.filed] = tag /\ a.val = Says(company, a.filed, start, end)
  BY <1>2, <1>3, <1>4
<1>6. ASSUME NEW r \in 1 .. known, IsIn(end, r), company.tags[r] = tag PROVE r <= a.filed
  <2> DEFINE f == Flow(company, item, r, start, end)
  <2>1. f \in facts
    BY <1>6, FlowFacts DEF IsIn
  <2>2. f.item = item /\ f.tag = tag /\ f.start = start /\ f.end = end /\ f.filed = r
    BY <1>4, <1>6
  <2> HIDE DEF f, facts
  <2>3. f \in about
    BY <2>1, <2>2 DEF Under
  <2>4. QED BY <1>1, <2>2, <2>3
<1>7. QED BY <1>3, <1>5, <1>6

(* A tag that some report has a period under has a last amount for it.     *)
LEMMA LastAmount ==
    ASSUME NEW company, NEW known \in 0 .. 8, IsReporting(company), NEW item \in {"income", "cash"},
           NEW start, NEW end, Starts(company, item, start, end), NEW r \in 1 .. known, IsIn(end, r)
    PROVE  \E a \in Facts(company, known) :
              a \in Latest(Under(Facts(company, known), item, company.tags[r]), start, end)
<1> DEFINE facts == Facts(company, known)
           about == {f \in Under(facts, item, company.tags[r]) : f.start = start /\ f.end = end}
           own == Flow(company, item, r, start, end)
<1>1. own \in facts
  BY FlowFacts DEF IsIn
<1>2. own.item = item /\ own.tag = company.tags[r] /\ own.start = start /\ own.end = end
  BY DEF Flow
<1>3. \A f \in about : f.filed \in 0 .. 8
  BY FlowFacts DEF Under
<1> HIDE DEF own, facts
<1>4. about # {}
  BY <1>1, <1>2 DEF Under
<1>5. PICK a \in about : \A g \in about : g.filed <= a.filed
  <2> HIDE DEF about
  <2> QED BY <1>3, <1>4, SomeIsLast
<1>6. a \in facts
  BY DEF Under
<1>7. QED BY <1>5, <1>6 DEF Latest, facts

LEMMA FlowIsPicked ==
    ASSUME NEW company, NEW known \in 0 .. 8, IsReporting(company), NEW item \in {"income", "cash"},
           NEW start, NEW end, Starts(company, item, start, end), NEW r \in 1 .. known, IsIn(end, r)
    PROVE  Pick(Facts(company, known), item, start, end) # {}
<1> DEFINE facts == Facts(company, known)
           last == {g \in facts : g.item = item /\ g.start = start /\ g.end = end
                                   /\ g \in Latest(Under(facts, item, g.tag), start, end)}
<1>1. PICK a \in facts : a \in Latest(Under(facts, item, company.tags[r]), start, end)
  BY LastAmount
<1>2. a.item = item /\ a.tag = company.tags[r] /\ a.start = start /\ a.end = end
  BY <1>1 DEF Latest, Under
<1>3. a \in last
  BY <1>1, <1>2
<1>4. \A f \in last : TagOrder(f.tag) \in Nat
  <2>1. ASSUME NEW f \in last PROVE TagOrder(f.tag) \in Nat
    <3>1. f \in facts /\ f.item = item
      OBVIOUS
    <3>2. f.filed \in 1 .. known /\ f = Flow(company, item, f.filed, f.start, f.end)
      BY <3>1, FlowFacts
    <3>3. f.tag = company.tags[f.filed]
      BY <3>2 DEF Flow
    <3>4. QED BY <3>2, <3>3 DEF IsReporting
  <2>2. QED BY <2>1
<1>5. FirstTagged(last) # {}
  <2> HIDE DEF last
  <2> QED BY <1>3, <1>4, SomeIsFirstTagged
<1>6. Pick(facts, item, start, end) = {f.val : f \in FirstTagged(last)}
  BY Zenon DEF Pick, Under
<1>7. QED BY <1>5, <1>6

(* Differences are of two amounts of a first tag, both the last of it.     *)
LEMMA DiffIsOfFirst ==
    ASSUME NEW facts, NEW item, NEW start, NEW end, NEW before, NEW v \in Diff(facts, item, start, end, before)
    PROVE  \E x, y : /\ TagOrder(x) <= TagOrder(y) /\ TagOrder(y) <= TagOrder(x)
                     /\ \E a \in Latest(Under(facts, item, x), start, end),
                           b \in Latest(Under(facts, item, y), start, before) : v = a.val - b.val
<1> DEFINE tagged(tag) == {f \in facts : f.item = item /\ f.tag = tag}
           both == {tag \in {f.tag : f \in facts} : /\ Latest(tagged(tag), start, end) # {}
                                                    /\ Latest(tagged(tag), start, before) # {}}
           first == {tag \in both : \A t \in both : TagOrder(tag) <= TagOrder(t)}
           longer == UNION {Latest(tagged(tag), start, end) : tag \in first}
           shorter == UNION {Latest(tagged(tag), start, before) : tag \in first}
<1>1. Diff(facts, item, start, end, before) = {a.val - b.val : a \in longer, b \in shorter}
  BY DEF Diff
<1>2. PICK a \in longer, b \in shorter : v = a.val - b.val
  <2> DEFINE less(a, b) == a.val - b.val
  <2> HIDE DEF longer, shorter, first, both, tagged
  <2>1. Diff(facts, item, start, end, before) = {less(a, b) : a \in longer, b \in shorter}
    BY <1>1
  <2> HIDE DEF less
  <2>2. \E a \in longer, b \in shorter : v = less(a, b)
    BY <2>1
  <2>3. QED BY <2>2 DEF less
<1>3. PICK x \in first : a \in Latest(tagged(x), start, end)
  OBVIOUS
<1>4. PICK y \in first : b \in Latest(tagged(y), start, before)
  OBVIOUS
<1>5. TagOrder(x) <= TagOrder(y) /\ TagOrder(y) <= TagOrder(x)
  OBVIOUS
<1>6. tagged(x) = Under(facts, item, x) /\ tagged(y) = Under(facts, item, y)
  BY DEF Under
<1> HIDE DEF first
<1>7. QED BY <1>2, <1>3, <1>4, <1>5, <1>6

LEMMA DiffIsOfOneTag ==
    ASSUME NEW company, NEW known \in 0 .. 8, IsReporting(company), NEW item \in {"income", "cash"},
           NEW start, NEW end, NEW before, NEW v \in Diff(Facts(company, known), item, start, end, before)
    PROVE  \E tag : \E a \in Latest(Under(Facts(company, known), item, tag), start, end),
                       b \in Latest(Under(Facts(company, known), item, tag), start, before) : v = a.val - b.val
<1> DEFINE facts == Facts(company, known)
<1>1. PICK x, y : /\ TagOrder(x) <= TagOrder(y) /\ TagOrder(y) <= TagOrder(x)
                  /\ \E a \in Latest(Under(facts, item, x), start, end),
                        b \in Latest(Under(facts, item, y), start, before) : v = a.val - b.val
  BY DiffIsOfFirst
<1>2. PICK a \in Latest(Under(facts, item, x), start, end), b \in Latest(Under(facts, item, y), start, before) :
         v = a.val - b.val
  BY <1>1
<1>3. ASSUME NEW f \in facts, f.item = item
      PROVE  \E r \in 1 .. 8 : f.tag = company.tags[r]
  <2>1. f.filed \in 1 .. known /\ f = Flow(company, item, f.filed, f.start, f.end)
    BY <1>3, FlowFacts
  <2>2. f.tag = company.tags[f.filed]
    BY <2>1 DEF Flow
  <2>3. QED BY <2>1, <2>2
<1>4. a \in facts /\ a.item = item /\ a.tag = x /\ b \in facts /\ b.item = item /\ b.tag = y
  BY DEF Latest, Under
<1>5. PICK r \in 1 .. 8 : x = company.tags[r]
  BY <1>3, <1>4
<1>6. PICK s \in 1 .. 8 : y = company.tags[s]
  BY <1>3, <1>4
<1>7. TagOrder(x) = TagOrder(y)
  BY <1>1, <1>5, <1>6 DEF IsReporting
<1>8. x = y
  BY <1>5, <1>6, <1>7 DEF IsReporting
<1>9. QED BY <1>2, <1>8

(* What a quarter may show.                                                *)
IsTrueOf(company, known, end, v) ==
    \E r \in 1 .. known : \E restated \in BOOLEAN : v = Truth(company.tags[r], restated, end)

LEMMA TruthsAreNumbers ==
    ASSUME NEW company, IsReporting(company), NEW r \in 1 .. 8, NEW s \in 1 .. 8, NEW date, NEW end \in -3 .. 8
    PROVE  Truth(company.tags[r], IsAgain(company, s, date), end) \in Int
<1>1. IsAgain(company, s, date) \in BOOLEAN
  BY Zenon DEF IsAgain, IsReporting
<1>2. QED BY <1>1, Zenon DEF IsReporting

LEMMA DiffShown ==
    ASSUME NEW company, NEW known \in 0 .. 8, IsReporting(company), NEW item \in {"income", "cash"},
           NEW start \in {-4, 0, 4}, NEW q \in 2 .. 4,
           NEW v \in Diff(Facts(company, known), item, start, start + q, start + q - 1)
    PROVE  IsTrueOf(company, known, start + q, v) \/ Mixed(company, known, start + q)
<1> DEFINE facts == Facts(company, known)
           end == start + q
           before == start + q - 1
<1>1. Starts(company, item, start, end) /\ Starts(company, item, start, before)
  BY DEF Starts, Begin
<1>2. PICK tag : \E a \in Latest(Under(facts, item, tag), start, end),
                    b \in Latest(Under(facts, item, tag), start, before) : v = a.val - b.val
  BY DiffIsOfOneTag
<1>3. PICK a \in Latest(Under(facts, item, tag), start, end), b \in Latest(Under(facts, item, tag), start, before) :
         v = a.val - b.val
  BY <1>2
<1>4. /\ a.filed \in 1 .. known /\ IsIn(end, a.filed) /\ company.tags[a.filed] = tag
      /\ a.val = Says(company, a.filed, start, end)
      /\ \A r \in 1 .. known : IsIn(end, r) /\ company.tags[r] = tag => r <= a.filed
  BY <1>1, LatestFlow
<1>5. /\ b.filed \in 1 .. known /\ IsIn(before, b.filed) /\ company.tags[b.filed] = tag
      /\ b.val = Says(company, b.filed, start, before)
      /\ \A r \in 1 .. known : IsIn(before, r) /\ company.tags[r] = tag => r <= b.filed
  BY <1>1, LatestFlow
<1> DEFINE r == a.filed
           s == b.filed
<1>6. r \in 1 .. 8 /\ s \in 1 .. 8 /\ end \in {-2, -1, 0, 2, 3, 4, 6, 7, 8} /\ before = end - 1
  BY <1>4, <1>5
<1>7. CASE IsAgain(company, r, end) = IsAgain(company, s, before)
  <2> DEFINE again == IsAgain(company, r, end)
  <2>1. \A k \in 1 .. q : Truth(tag, again, start + k) \in Int
    <3>1. \A k \in 1 .. q : start + k \in -3 .. 8
      OBVIOUS
    <3> HIDE DEF r
    <3>2. QED BY <1>4, <1>6, <3>1, TruthsAreNumbers DEF r
  <2>2. v = Earned(tag, again, Interval(start, end)) - Earned(tag, again, Interval(start, before))
    BY <1>3, <1>4, <1>5, <1>7 DEF Says
  <2> HIDE DEF again
  <2>3. v = Truth(tag, again, start + q)
    BY <2>1, <2>2, EarnedSince
  <2>4. again \in BOOLEAN
    BY Zenon DEF again, IsAgain, IsReporting
  <2>5. QED BY <1>4, <2>3, <2>4 DEF IsTrueOf
<1>8. CASE IsAgain(company, r, end) # IsAgain(company, s, before)
  <2>1. company.restates /\ (YearOf(r) = 1 /\ end = r - 4 <=> ~(YearOf(s) = 1 /\ before = s - 4))
    BY <1>8, Zenon DEF IsAgain, IsReporting
  <2>2. /\ end \in {r, r - 4} /\ before \in {s, s - 4}
        /\ YearOf(r) = 1 <=> r >= 5
        /\ YearOf(s) = 1 <=> s >= 5
    BY <1>4, <1>5, <1>6, ReportDates DEF IsIn
  <2> HIDE DEF r, s, end, before
  <2>3. CASE r = end + 4 /\ s = before
    <3>1. end \in 2 .. 4 /\ before = end - 1
      BY <1>6, <2>1, <2>2, <2>3
    <3>2. end + 4 \in 1 .. known /\ company.tags[end + 4] = tag
      BY <1>4, <2>3 DEF r
    <3>3. end - 1 \in 1 .. known /\ company.tags[end - 1] = tag
      BY <1>5, <2>3, <3>1 DEF s
    <3>4. ~(end + 3 \in 1 .. known /\ company.tags[end + 3] = tag)
      <4>1. SUFFICES ASSUME end + 3 \in 1 .. known, company.tags[end + 3] = tag PROVE FALSE
        OBVIOUS
      <4>2. IsIn(before, end + 3)
        BY <3>1 DEF IsIn
      <4>3. end + 3 <= s
        BY <1>5, <4>1, <4>2 DEF s, before
      <4>4. QED BY <2>3, <3>1, <4>3
    <3>5. tag \in {company.tags[k] : k \in 1 .. 8}
      BY <1>6, <2>3, <3>2
    <3>6. Mixed(company, known, end)
      BY <2>1, <3>1, <3>2, <3>3, <3>4, <3>5, Zenon DEF Mixed
    <3>7. QED BY <3>6 DEF end
  <2>4. CASE r = end /\ s = before + 4
    <3>1. end \in 2 .. 4 /\ before = end - 1 /\ s = end + 3
      BY <1>6, <2>1, <2>2, <2>4
    <3>2. end + 3 \in 1 .. known /\ company.tags[end + 3] = tag
      BY <1>5, <3>1 DEF s
    <3>3. end \in 1 .. known /\ company.tags[end] = tag
      BY <1>4, <2>4 DEF r
    <3>4. ~(end + 4 \in 1 .. known /\ company.tags[end + 4] = tag)
      <4>1. SUFFICES ASSUME end + 4 \in 1 .. known, company.tags[end + 4] = tag PROVE FALSE
        OBVIOUS
      <4>2. IsIn(end, end + 4)
        BY <3>1 DEF IsIn
      <4>3. end + 4 <= r
        BY <1>4, <4>1, <4>2 DEF r, end
      <4>4. QED BY <2>4, <3>1, <4>3
    <3>5. tag \in {company.tags[k] : k \in 1 .. 8}
      BY <1>6, <2>4, <3>3
    <3>6. Mixed(company, known, end)
      BY <2>1, <3>1, <3>2, <3>3, <3>4, <3>5, Zenon DEF Mixed
    <3>7. QED BY <3>6 DEF end
  <2>5. QED BY <1>6, <2>1, <2>2, <2>3, <2>4
<1>9. QED BY <1>7, <1>8

LEMMA DiffIsThere ==
    ASSUME NEW company, NEW known \in 0 .. 8, IsReporting(company), NEW item \in {"income", "cash"},
           NEW start, NEW end, NEW before, Starts(company, item, start, end), Starts(company, item, start, before),
           NEW r \in 1 .. known, IsIn(end, r), NEW s \in 1 .. known, IsIn(before, s), company.tags[r] = company.tags[s]
    PROVE  Diff(Facts(company, known), item, start, end, before) # {}
<1> DEFINE facts == Facts(company, known)
           tagged(tag) == {f \in facts : f.item = item /\ f.tag = tag}
           both == {tag \in {f.tag : f \in facts} : /\ Latest(tagged(tag), start, end) # {}
                                                    /\ Latest(tagged(tag), start, before) # {}}
           first == {tag \in both : \A t \in both : TagOrder(tag) <= TagOrder(t)}
           longer == UNION {Latest(tagged(tag), start, end) : tag \in first}
           shorter == UNION {Latest(tagged(tag), start, before) : tag \in first}
           less(a, b) == a.val - b.val
           S == {TagOrder(tag) : tag \in both}
<1>1. Diff(facts, item, start, end, before) = {less(a, b) : a \in longer, b \in shorter}
  BY DEF Diff
<1>2. \A tag : tagged(tag) = Under(facts, item, tag)
  BY DEF Under
<1>3. company.tags[r] \in both
  <2>1. PICK a \in facts : a \in Latest(Under(facts, item, company.tags[r]), start, end)
    BY LastAmount
  <2>2. PICK b \in facts : b \in Latest(Under(facts, item, company.tags[s]), start, before)
    BY LastAmount
  <2>3. a.tag = company.tags[r]
    BY <2>1 DEF Latest, Under
  <2> HIDE DEF facts, tagged
  <2>4. QED BY <1>2, <2>1, <2>2, <2>3
<1>4. ASSUME NEW tag \in both PROVE TagOrder(tag) \in Nat
  <2>1. PICK f \in Latest(Under(facts, item, tag), start, end) : TRUE
    BY <1>2
  <2>2. f \in facts /\ f.item = item /\ f.tag = tag
    BY DEF Latest, Under
  <2>3. f.filed \in 1 .. known /\ f = Flow(company, item, f.filed, f.start, f.end)
    BY <2>2, FlowFacts
  <2>4. tag = company.tags[f.filed]
    BY <2>2, <2>3 DEF Flow
  <2>5. QED BY <2>3, <2>4 DEF IsReporting
<1> HIDE DEF both
<1>5. S \in SUBSET Nat /\ S # {}
  BY <1>3, <1>4
<1>6. Min(S) \in S /\ \A m \in S : Min(S) <= m
  <2> HIDE DEF S
  <2> QED BY <1>5, LeastElement
<1> DEFINE low == Min(S)
<1> HIDE DEF low
<1>7. PICK tag \in both : TagOrder(tag) = low
  BY <1>6 DEF low
<1>8. tag \in first
  BY <1>6, <1>7 DEF low
<1>9. PICK a \in Latest(tagged(tag), start, end), b \in Latest(tagged(tag), start, before) : TRUE
  BY DEF both
<1> HIDE DEF first
<1>10. a \in longer /\ b \in shorter
  BY <1>8
<1> HIDE DEF longer, shorter, less
<1>11. less(a, b) \in Diff(facts, item, start, end, before)
  BY <1>1, <1>10
<1>12. QED BY <1>11

(* Fiscal years.                                                           *)
LEMMA AnnualFactsAre ==
    ASSUME NEW company, NEW known \in 0 .. 8, IsReporting(company)
    PROVE  /\ \A f \in AnnualFacts(Facts(company, known)) :
                 /\ f.filed \in {4, 8} /\ f.filed <= known /\ f.start \in {f.filed - 4, f.filed - 8}
                 /\ f.end = f.start + 4 /\ f.fy = YearOf(f.filed)
           /\ \A r \in {4, 8} : \A start \in {r - 4, r - 8} : r <= known =>
                 \E f \in AnnualFacts(Facts(company, known)) : f.filed = r /\ f.start = start
<1> DEFINE facts == Facts(company, known)
<1>1. \A f : f \in AnnualFacts(facts) <=> f \in facts /\ f.item = "income" /\ f.form = "10-K" /\ f.end - f.start = 4
  BY DEF AnnualFacts, PeriodFacts
<1>2. ASSUME NEW f \in AnnualFacts(facts)
      PROVE  /\ f.filed \in {4, 8} /\ f.filed <= known /\ f.start \in {f.filed - 4, f.filed - 8}
             /\ f.end = f.start + 4 /\ f.fy = YearOf(f.filed)
  <2>1. /\ f.filed \in 1 .. known /\ f.end \in {f.filed, f.filed - 4} /\ Starts(company, "income", f.start, f.end)
        /\ f = Flow(company, "income", f.filed, f.start, f.end)
    BY <1>1, FlowFacts
  <2>2. f.form = (IF QuarterOf(f.filed) = 4 THEN "10-K" ELSE "10-Q") /\ f.fy = YearOf(f.filed)
    BY <2>1 DEF Flow
  <2>3. QuarterOf(f.filed) = 4
    BY <1>1, <2>2
  <2>4. f.filed \in {4, 8}
    BY <2>1, <2>3, ReportDates
  <2>5. f.start \in {f.filed - 4, f.filed - 8} /\ f.end = f.start + 4
    BY <1>1, <2>1, <2>4 DEF Starts, Begin
  <2>6. QED BY <2>1, <2>2, <2>4, <2>5
<1>3. ASSUME NEW r \in {4, 8}, NEW start \in {r - 4, r - 8}, r <= known
      PROVE  \E f \in AnnualFacts(facts) : f.filed = r /\ f.start = start
  <2> DEFINE own == Flow(company, "income", r, start, start + 4)
  <2>1. own \in facts
    <3>1. start + 4 \in {r, r - 4} /\ Starts(company, "income", start, start + 4)
      BY DEF Starts, Begin
    <3>2. QED BY <1>3, <3>1, FlowFacts
  <2>2. own.item = "income" /\ own.start = start /\ own.end = start + 4 /\ own.filed = r /\ own.form = "10-K"
    BY ReportDates DEF Flow
  <2> HIDE DEF own, facts
  <2>3. QED BY <1>1, <2>1, <2>2
<1>4. QED BY <1>2, <1>3

LEMMA LabelIs ==
    ASSUME NEW company, NEW known \in 4 .. 8, IsReporting(company), NEW start \in {-4, 0, 4}, start = 4 => known = 8
    PROVE  Label(Facts(company, known), start) = IF start = 4 THEN 1 ELSE 0
<1> DEFINE facts == Facts(company, known)
           about == {g \in AnnualFacts(facts) : g.start = start}
           least == IF start = 4 THEN 8 ELSE 4
           chosen == CHOOSE f \in First(about) : TRUE
<1>1. \A g \in about : g.filed \in {4, 8} /\ g.fy = YearOf(g.filed) /\ g.filed >= least
  BY AnnualFactsAre
<1>2. PICK g \in about : g.filed = least
  BY AnnualFactsAre
<1> HIDE DEF about, least
<1>3. g \in First(about)
  BY <1>1, <1>2 DEF First
<1>4. chosen \in First(about)
  BY <1>3
<1>5. chosen \in about /\ chosen.filed <= g.filed
  BY <1>4 DEF First
<1>6. chosen.filed = least
  BY <1>1, <1>2, <1>5
<1>7. Label(facts, start) = chosen.fy
  BY DEF Label, about
<1>8. QED BY <1>1, <1>5, <1>6, <1>7 DEF least, YearOf

(* The fiscal years that are shown once the first annual report is in.     *)
YearBefore     == [label |-> 0, start |-> -4, over |-> TRUE]
FirstYear      == [label |-> 0, start |-> 0, over |-> TRUE]
SecondYear     == [label |-> 1, start |-> 4, over |-> TRUE]
YearInProgress == [label |-> 1, start |-> 4, over |-> FALSE]
IsFiscal(known, y) ==
    /\ known >= 4
    /\ \/ y = YearBefore \/ y = FirstYear
       \/ known \in 5 .. 7 /\ y = YearInProgress
       \/ known = 8 /\ y = SecondYear

LEMMA YearFields ==
    /\ YearBefore.label = 0 /\ YearBefore.start = -4 /\ YearBefore.over
    /\ FirstYear.label = 0 /\ FirstYear.start = 0 /\ FirstYear.over
    /\ SecondYear.label = 1 /\ SecondYear.start = 4 /\ SecondYear.over
    /\ YearInProgress.label = 1 /\ YearInProgress.start = 4 /\ ~YearInProgress.over
BY DEF YearBefore, FirstYear, SecondYear, YearInProgress

LEMMA FiscalYearsAre ==
    ASSUME NEW company, NEW known \in 0 .. 8, IsReporting(company)
    PROVE  \A y : y \in fiscal_years(Facts(company, known)) <=> IsFiscal(known, y)
<1> DEFINE facts == Facts(company, known)
           starts == {f.start : f \in AnnualFacts(facts)}
           ended == {[label |-> Label(facts, start), start |-> start, over |-> TRUE] : start \in starts}
           last  == {y \in ended : \A x \in ended : x.start <= y.start}
           now   == {f.end : f \in {g \in PeriodFacts(facts) : g.form = "10-Q"}}
           going == {[label |-> y.label + 1, start |-> y.start + 4, over |-> FALSE] :
                        y \in {x \in last : \E end \in now : end > x.start + 4}}
<1>1. fiscal_years(facts) = ended \union going
  BY DEF fiscal_years
<1>2. starts = IF known < 4 THEN {} ELSE IF known < 8 THEN {-4, 0} ELSE {-4, 0, 4}
  <2>1. \A f \in AnnualFacts(facts) : /\ f.filed \in {4, 8} /\ f.filed <= known
                                      /\ f.start \in {f.filed - 4, f.filed - 8}
    BY AnnualFactsAre
  <2>2. ASSUME NEW r \in {4, 8}, NEW start \in {r - 4, r - 8}, r <= known PROVE start \in starts
    BY <2>2, AnnualFactsAre
  <2>3. \A start \in starts : start \in {-4, 0, 4} /\ known >= 4 /\ (start = 4 => known = 8)
    BY <2>1
  <2> HIDE DEF starts
  <2>4. known >= 4 => -4 \in starts /\ 0 \in starts
    BY <2>2
  <2>5. known = 8 => 4 \in starts
    BY <2>2
  <2>6. CASE known < 4
    BY <2>3, <2>6
  <2>7. CASE known \in 4 .. 7
    BY <2>3, <2>4, <2>7
  <2>8. CASE known = 8
    BY <2>3, <2>4, <2>5, <2>8
  <2>9. QED BY <2>6, <2>7, <2>8
<1>3. \A y : y \in ended <=> /\ known >= 4
                              /\ \/ y = YearBefore \/ y = FirstYear
                                 \/ known = 8 /\ y = SecondYear
  <2>1. \A start \in starts : Label(facts, start) = IF start = 4 THEN 1 ELSE 0
    BY <1>2, LabelIs
  <2> HIDE DEF starts
  <2>2. ASSUME NEW start \in {-4, 0, 4}, start \in starts, NEW y
        PROVE  y = [label |-> Label(facts, start), start |-> start, over |-> TRUE]
               <=> y = IF start = 4 THEN SecondYear ELSE IF start = 0 THEN FirstYear ELSE YearBefore
    BY <2>1, <2>2 DEF YearBefore, FirstYear, SecondYear
  <2>3. \A start \in starts : start \in {-4, 0, 4}
    BY <1>2
  <2>4. \A y : y \in ended <=> \E start \in starts :
           y = IF start = 4 THEN SecondYear ELSE IF start = 0 THEN FirstYear ELSE YearBefore
    BY <2>2, <2>3
  <2> HIDE DEF ended
  <2>5. CASE known < 4
    BY <1>2, <2>4, <2>5
  <2>6. CASE known \in 4 .. 7
    BY <1>2, <2>4, <2>6
  <2>7. CASE known = 8
    BY <1>2, <2>4, <2>7
  <2>8. QED BY <2>5, <2>6, <2>7
<1>4. /\ \A end \in now : end \in Int /\ end <= known /\ end # 8
      /\ known \in 5 .. 7 => known \in now
  <2>1. ASSUME NEW f \in PeriodFacts(facts), f.form = "10-Q" PROVE f.end \in Int /\ f.end <= known /\ f.end # 8
    <3>1. f \in facts /\ f.item = "income"
      BY DEF PeriodFacts
    <3>2. /\ f.filed \in 1 .. known /\ f.end \in {f.filed, f.filed - 4}
          /\ f = Flow(company, "income", f.filed, f.start, f.end)
      BY <3>1, FlowFacts
    <3>3. f.form = IF QuarterOf(f.filed) = 4 THEN "10-K" ELSE "10-Q"
      BY <3>2 DEF Flow
    <3>4. f.filed # 8
      BY <2>1, <3>3, ReportDates
    <3>5. QED BY <3>2, <3>4
  <2>2. ASSUME known \in 5 .. 7 PROVE known \in now
    <3> DEFINE own == Flow(company, "income", known, 4, known)
    <3>1. own \in facts
      <4>1. Starts(company, "income", 4, known)
        BY <2>2 DEF Starts, Begin
      <4>2. QED BY <2>2, <4>1, FlowFacts
    <3>2. own.item = "income" /\ own.end = known /\ own.form = "10-Q"
      BY <2>2, ReportDates DEF Flow
    <3> HIDE DEF own, facts
    <3>3. own \in PeriodFacts(facts)
      BY <3>1, <3>2 DEF PeriodFacts
    <3>4. QED BY <3>2, <3>3
  <2>3. QED BY <2>1, <2>2
<1> HIDE DEF ended, now
<1>5. last = IF known < 4 THEN {} ELSE IF known = 8 THEN {SecondYear} ELSE {FirstYear}
  <2>1. \A y : y \in last <=> y \in ended /\ \A x \in ended : x.start <= y.start
    OBVIOUS
  <2> HIDE DEF last
  <2>2. CASE known < 4
    BY <1>3, <2>1, <2>2
  <2>3. CASE known \in 4 .. 7
    <3>1. \A y : y \in ended <=> y = YearBefore \/ y = FirstYear
      BY <1>3, <2>3
    <3>2. YearBefore.start = -4 /\ FirstYear.start = 0
      BY YearFields
    <3>3. \A y : y \in last <=> y = FirstYear
      BY <2>1, <3>1, <3>2
    <3>4. QED BY <2>3, <3>3
  <2>4. CASE known = 8
    <3>1. \A y : y \in ended <=> y = YearBefore \/ y = FirstYear \/ y = SecondYear
      BY <1>3, <2>4
    <3>2. YearBefore.start = -4 /\ FirstYear.start = 0 /\ SecondYear.start = 4
      BY YearFields
    <3>3. \A y : y \in last <=> y = SecondYear
      BY <2>1, <3>1, <3>2
    <3>4. QED BY <2>4, <3>3
  <2>5. QED BY <2>2, <2>3, <2>4
<1> HIDE DEF last
<1>6. \A y : y \in going <=> known \in 5 .. 7 /\ y = YearInProgress
  <2>1. {x \in last : \E end \in now : end > x.start + 4} = IF known \in 5 .. 7 THEN {FirstYear} ELSE {}
    <3>1. CASE known \in 5 .. 7
      <4>1. \E end \in now : end > 0 + 4
        BY <1>4, <3>1
      <4>2. last = {FirstYear} /\ FirstYear.start = 0
        BY YearFields, <1>5, <3>1
      <4>3. QED BY <3>1, <4>1, <4>2
    <3>2. CASE known < 4
      BY <1>5, <3>2
    <3>3. CASE known = 4
      <4>1. ~\E end \in now : end > 0 + 4
        BY <1>4, <3>3
      <4>2. last = {FirstYear} /\ FirstYear.start = 0
        BY YearFields, <1>5, <3>3
      <4>3. QED BY <3>3, <4>1, <4>2
    <3>4. CASE known = 8
      <4>1. ~\E end \in now : end > 4 + 4
        BY <1>4, <3>4
      <4>2. last = {SecondYear} /\ SecondYear.start = 4
        BY YearFields, <1>5, <3>4
      <4>3. QED BY <3>4, <4>1, <4>2
    <3>5. QED BY <3>1, <3>2, <3>3, <3>4
  <2>2. going = {[label |-> y.label + 1, start |-> y.start + 4, over |-> FALSE] :
                    y \in IF known \in 5 .. 7 THEN {FirstYear} ELSE {}}
    BY <2>1
  <2>3. YearInProgress = [label |-> FirstYear.label + 1, start |-> FirstYear.start + 4, over |-> FALSE]
    BY YearFields DEF YearInProgress
  <2> HIDE DEF going
  <2>4. QED BY <2>2, <2>3
<1> HIDE DEF going
<1>7. \A y : y \in fiscal_years(facts) <=> y \in ended \/ y \in going
  BY <1>1
<1>8. QED BY <1>3, <1>6, <1>7 DEF IsFiscal

(* How many quarters a fiscal year shows.                                  *)
Over(known, y)  == y.start # 4 \/ known = 8
Count(known, y) == IF y.start = 4 THEN known - 4 ELSE 4

LEMMA YearIs ==
    ASSUME NEW company, NEW known \in 0 .. 8, IsReporting(company), NEW y \in fiscal_years(Facts(company, known))
    PROVE  /\ known >= 4 /\ y.start \in {-4, 0, 4} /\ (y.start = 4 => known >= 5)
           /\ y.label = (IF y.start = 4 THEN 1 ELSE 0) /\ (y.over <=> Over(known, y))
           /\ Count(known, y) \in 1 .. 4 /\ (y.over <=> Count(known, y) = 4)
<1>1. IsFiscal(known, y)
  BY FiscalYearsAre
<1>2. known >= 4 /\ y.start \in {-4, 0, 4} /\ (y.start = 4 => known >= 5) /\ y.label = (IF y.start = 4 THEN 1 ELSE 0)
  BY <1>1, YearFields DEF IsFiscal
<1>3. y.over <=> Over(known, y)
  BY <1>1, YearFields DEF IsFiscal, Over
<1>4. QED BY <1>2, <1>3 DEF Count, Over

(* The first report of a period.                                           *)
FirstFiling(end) == IF end > 0 THEN end ELSE end + 4

LEMMA QuarterIsFiled ==
    ASSUME NEW company, NEW known \in 0 .. 8, IsReporting(company), NEW y \in fiscal_years(Facts(company, known)),
           NEW q \in 1 .. Count(known, y)
    PROVE  /\ FirstFiling(y.start + q) \in 1 .. known /\ IsIn(y.start + q, FirstFiling(y.start + q))
           /\ y.start = Begin(y.start + q) /\ q \in 1 .. 4 /\ y.start + q \in -3 .. 8
BY YearIs DEF FirstFiling, IsIn, Begin, Count

LEMMA ShownAre ==
    ASSUME NEW company, NEW known \in 0 .. 8, IsReporting(company), NEW y \in fiscal_years(Facts(company, known))
    PROVE  ShownQuarters(Facts(company, known), y) = 1 .. Count(known, y)
<1> DEFINE facts == Facts(company, known)
           ends == {f \in PeriodFacts(facts) :
                       /\ f.end > y.start /\ (y.over => f.end <= y.start + 4)
                       /\ \/ f.end - f.start = 1 /\ f.start >= y.start
                          \/ f.start = y.start /\ f.end - f.start < 4}
           count == Count(known, y)
<1>1. /\ known >= 4 /\ y.start \in {-4, 0, 4} /\ (y.start = 4 => known >= 5)
      /\ count \in 1 .. 4 /\ (y.over <=> count = 4)
  BY YearIs
<1>2. ASSUME NEW k \in 1 .. 4 PROVE Min({4, k}) = k
  <2>1. Min({4, k}) \in {4, k} /\ \A m \in {4, k} : Min({4, k}) <= m
    BY LeastElement
  <2>2. QED BY <2>1
<1>3. ASSUME NEW f \in ends PROVE f.end - y.start \in 1 .. count
  <2>1. f \in facts /\ f.item = "income" /\ f.end > y.start /\ (y.over => f.end <= y.start + 4)
    BY DEF PeriodFacts
  <2>2. f.filed \in 1 .. known /\ f.end \in {f.filed, f.filed - 4}
    BY <2>1, FlowFacts
  <2> HIDE DEF ends
  <2>3. CASE y.over
    BY <1>1, <2>1, <2>2, <2>3
  <2>4. CASE ~y.over
    <3>1. y.start = 4 /\ count = known - 4
      BY <1>1, <2>4 DEF Count
    <3>2. QED BY <2>1, <2>2, <3>1
  <2>5. QED BY <2>3, <2>4
<1>4. ASSUME NEW q \in 1 .. count, q < 4 PROVE \E f \in ends : f.end - y.start = q
  <2> DEFINE end == y.start + q
             own == Flow(company, "income", FirstFiling(end), y.start, end)
  <2>1. FirstFiling(end) \in 1 .. known /\ IsIn(end, FirstFiling(end)) /\ y.start = Begin(end)
    BY QuarterIsFiled
  <2>2. own \in facts
    BY <2>1, FlowFacts DEF Starts, IsIn
  <2>3. own.item = "income" /\ own.start = y.start /\ own.end = y.start + q
    BY DEF Flow
  <2>4. own.end > y.start /\ own.end <= y.start + 4 /\ own.start = y.start /\ own.end - own.start < 4 /\ own.end - y.start = q
    BY <1>1, <1>4, <2>3
  <2> HIDE DEF own, facts, end, count
  <2>5. own \in ends
    BY <2>2, <2>3, <2>4 DEF PeriodFacts
  <2> HIDE DEF ends
  <2>6. QED BY <2>4, <2>5
<1>5. EndedQuarters(facts, y) = {Min({4, f.end - y.start}) : f \in ends} \union {q \in {4} : y.over}
  BY DEF EndedQuarters
<1> HIDE DEF ends, facts, count
<1>6. \A q : q \in EndedQuarters(facts, y) <=> q \in 1 .. count
  <2>1. ASSUME NEW f \in ends PROVE Min({4, f.end - y.start}) = f.end - y.start
    <3> DEFINE k == f.end - y.start
    <3>1. k \in 1 .. 4
      BY <1>1, <1>3
    <3> HIDE DEF k
    <3>2. Min({4, k}) = k
      BY <1>2, <3>1
    <3>3. QED BY <3>2 DEF k
  <2>2. {Min({4, f.end - y.start}) : f \in ends} = {f.end - y.start : f \in ends}
    BY <2>1
  <2>3. \A q : q \in EndedQuarters(facts, y) <=> (\E f \in ends : q = f.end - y.start) \/ (q = 4 /\ y.over)
    BY <1>5, <2>2
  <2>4. QED BY <1>1, <1>3, <1>4, <2>3
<1>7. ShownQuarters(facts, y) = {q \in EndedQuarters(facts, y) : q = 1 \/ q - 1 \in EndedQuarters(facts, y)}
  BY DEF ShownQuarters
<1>8. QED BY <1>1, <1>6, <1>7 DEF facts, count

LEMMA FirstIs ==
    ASSUME NEW about, NEW r \in Nat, \A f \in about : f.filed \in Nat /\ r <= f.filed, \E f \in about : f.filed = r
    PROVE  {f.filed : f \in First(about)} = {r}
<1>1. PICK f \in about : f.filed = r
  OBVIOUS
<1>2. f \in First(about)
  BY <1>1 DEF First
<1>3. \A g \in First(about) : g.filed = r
  BY <1>1 DEF First
<1>4. QED BY <1>1, <1>2, <1>3

(* _first_report, and the annual report of a fourth quarter.               *)
LEMMA FilingIs ==
    ASSUME NEW company, NEW known \in 0 .. 8, IsReporting(company), NEW y \in fiscal_years(Facts(company, known)),
           NEW q \in 1 .. Count(known, y)
    PROVE  Filing(Facts(company, known), y, q) = {FirstFiling(y.start + q)}
<1> DEFINE facts == Facts(company, known)
           end == y.start + q
           r == FirstFiling(end)
<1>1. /\ r \in 1 .. known /\ IsIn(end, r) /\ y.start = Begin(end) /\ q \in 1 .. 4 /\ end \in -3 .. 8
  BY QuarterIsFiled
<1>2. \A f \in 1 .. 8 : end \in {f, f - 4} => r <= f
  BY <1>1 DEF FirstFiling
<1>3. CASE q = 4
  <2> DEFINE about == {g \in AnnualFacts(facts) : g.end = end}
  <2>1. y.start \in {-4, 0, 4}
    BY YearIs
  <2>2. r \in {4, 8} /\ y.start \in {r - 4, r - 8}
    BY <1>1, <1>3, <2>1 DEF FirstFiling, IsIn
  <2>3. \A f \in AnnualFacts(facts) : f.filed \in {4, 8} /\ f.start \in {f.filed - 4, f.filed - 8} /\ f.end = f.start + 4
    BY AnnualFactsAre
  <2>4. \A f \in about : f.filed \in Nat /\ r <= f.filed
    <3>1. ASSUME NEW f \in about PROVE f.filed \in Nat /\ r <= f.filed
      <4>1. f.filed \in 1 .. 8 /\ end \in {f.filed, f.filed - 4}
        BY <2>3
      <4> HIDE DEF r, end
      <4>2. QED BY <1>2, <4>1
    <3>2. QED BY <3>1
  <2>5. \E f \in about : f.filed = r
    <3>1. PICK f \in AnnualFacts(facts) : f.filed = r /\ f.start = y.start
      BY <1>1, <2>2, AnnualFactsAre
    <3>2. f.end = end
      BY <1>3, <2>3, <3>1
    <3>3. QED BY <3>1, <3>2
  <2>6. Filing(facts, y, q) = {f.filed : f \in First(about)}
    BY <1>3 DEF Filing
  <2>7. r \in Nat
    BY <1>1
  <2> HIDE DEF about, r
  <2>8. {f.filed : f \in First(about)} = {r}
    BY <2>4, <2>5, <2>7, FirstIs
  <2>9. QED BY <2>6, <2>8 DEF r
<1>4. CASE q # 4
  <2> DEFINE about == {g \in PeriodFacts(facts) : g.start = y.start /\ g.end = end}
  <2>1. \A f \in about : f.filed \in Nat /\ r <= f.filed
    <3>1. ASSUME NEW f \in about PROVE f.filed \in Nat /\ r <= f.filed
      <4>1. f \in facts /\ f.item = "income" /\ f.end = end
        BY DEF PeriodFacts
      <4>2. f.filed \in 1 .. 8 /\ end \in {f.filed, f.filed - 4}
        BY <4>1, FlowFacts
      <4> HIDE DEF r, end
      <4>3. QED BY <1>2, <4>2
    <3>2. QED BY <3>1
  <2>2. \E f \in about : f.filed = r
    <3> DEFINE own == Flow(company, "income", r, y.start, end)
    <3>1. own \in facts
      BY <1>1, FlowFacts DEF Starts, IsIn
    <3>2. own.item = "income" /\ own.start = y.start /\ own.end = end /\ own.filed = r
      BY DEF Flow
    <3> HIDE DEF own, facts
    <3>3. own \in about
      BY <3>1, <3>2 DEF PeriodFacts
    <3>4. QED BY <3>2, <3>3
  <2>3. FirstReport(facts, y.start, end) = {f.filed : f \in First(about)}
    BY DEF FirstReport
  <2>4. r \in Nat
    BY <1>1
  <2>5. {f.filed : f \in First(about)} = {r}
    <3> HIDE DEF about, r
    <3> QED BY <2>1, <2>2, <2>4, FirstIs
  <2>6. FirstReport(facts, y.start, end) # {}
    BY <2>3, <2>5
  <2>7. Filing(facts, y, q) = FirstReport(facts, y.start, end)
    BY <1>4, <2>6 DEF Filing
  <2>8. QED BY <2>3, <2>5, <2>7
<1>5. QED BY <1>3, <1>4

(* A value is the amount of a quarter, and there unless tags changed.      *)
LEMMA ValueIs ==
    ASSUME NEW company, NEW known \in 0 .. 8, IsReporting(company), NEW item \in {"income", "cash"},
           NEW y \in fiscal_years(Facts(company, known)), NEW q \in 1 .. Count(known, y)
    PROVE  /\ \A v \in QuarterValue(Facts(company, known), y, item, q) :
                 IsTrueOf(company, known, y.start + q, v) \/ Mixed(company, known, y.start + q)
           /\ item = "income" /\ (IF q = 4 THEN company.fourth ELSE company.quarters) =>
                 \A v \in QuarterValue(Facts(company, known), y, item, q) : IsTrueOf(company, known, y.start + q, v)
           /\ QuarterValue(Facts(company, known), y, item, q) = {} =>
                 q > 1 /\ \E r \in 1 .. known, s \in 1 .. known : company.tags[r] # company.tags[s]
<1> DEFINE facts == Facts(company, known)
           end == y.start + q
           value == QuarterValue(facts, y, item, q)
           own == Pick(facts, item, end - 1, end)
<1>1. /\ FirstFiling(end) \in 1 .. known /\ IsIn(end, FirstFiling(end))
      /\ y.start = Begin(end) /\ q \in 1 .. 4 /\ end \in -3 .. 8 /\ y.start \in {-4, 0, 4}
  BY QuarterIsFiled, YearIs
<1>2. ASSUME NEW v \in own PROVE IsTrueOf(company, known, end, v)
  <2>1. PICK r \in 1 .. known : IsIn(end, r) /\ v = Says(company, r, end - 1, end)
    BY FlowShown
  <2> DEFINE again == IsAgain(company, r, end)
  <2>2. Truth(company.tags[r], again, end) \in Int
    <3>1. r \in 1 .. 8
      OBVIOUS
    <3> HIDE DEF end
    <3>2. QED BY <1>1, <3>1, TruthsAreNumbers
  <2>3. again \in BOOLEAN
    BY Zenon DEF IsAgain, IsReporting
  <2>4. v = Earned(company.tags[r], again, Interval(end - 1, end))
    BY <2>1 DEF Says
  <2> HIDE DEF again, end
  <2>5. v = Truth(company.tags[r], again, end)
    BY <1>1, <2>2, <2>4, EarnedInQuarter
  <2>6. QED BY <2>3, <2>5 DEF IsTrueOf
<1>3. CASE item = "income" /\ own # {}
  <2>1. value = own
    BY <1>3 DEF QuarterValue
  <2>2. QED BY <1>2, <1>3, <2>1
<1>4. CASE ~(item = "income" /\ own # {}) /\ q = 1
  <2>1. y.start = end - 1
    BY <1>1, <1>4
  <2>2. value = own
    BY <1>4, <2>1 DEF QuarterValue
  <2>3. own # {}
    <3>1. Starts(company, item, end - 1, end)
      BY <1>1, <2>1 DEF Starts
    <3>2. QED BY <1>1, <3>1, FlowIsPicked
  <2>4. QED BY <1>2, <2>2, <2>3
<1>5. CASE ~(item = "income" /\ own # {}) /\ q # 1
  <2> DEFINE before == end - 1
  <2>1. value = Diff(facts, item, y.start, end, end - 1)
    BY <1>5, Zenon DEF QuarterValue
  <2>2. q \in 2 .. 4 /\ before = y.start + q - 1
    BY <1>1, <1>5
  <2>3. \A v \in value : IsTrueOf(company, known, end, v) \/ Mixed(company, known, end)
    <3> HIDE DEF facts
    <3> QED BY <1>1, <2>1, <2>2, DiffShown DEF facts
  <2>4. ASSUME value = {} PROVE \E r \in 1 .. known, s \in 1 .. known : company.tags[r] # company.tags[s]
    <3>1. /\ FirstFiling(before) \in 1 .. known /\ IsIn(before, FirstFiling(before))
          /\ y.start = Begin(before)
      <4>1. y.start = 4 => known >= 5
        BY YearIs
      <4>2. q - 1 \in 1 .. Count(known, y) /\ y.start + (q - 1) = before
        BY <2>2, YearIs
      <4>3. QED BY <4>2, QuarterIsFiled
    <3>2. Starts(company, item, y.start, end) /\ Starts(company, item, y.start, before)
      BY <1>1, <3>1 DEF Starts
    <3> HIDE DEF before, end
    <3>3. company.tags[FirstFiling(end)] # company.tags[FirstFiling(before)]
      BY <1>1, <2>1, <2>4, <3>1, <3>2, DiffIsThere DEF before
    <3>4. QED BY <1>1, <3>1, <3>3
  <2>5. ASSUME item = "income", IF q = 4 THEN company.fourth ELSE company.quarters PROVE FALSE
    <3>1. q = 4 <=> end \in {0, 4, 8}
      BY <1>1
    <3>2. IsAlone(company, item, end)
      BY <2>5, <3>1 DEF IsAlone
    <3>3. Starts(company, item, end - 1, end)
      BY <3>2 DEF Starts
    <3> HIDE DEF end
    <3>4. own # {}
      BY <1>1, <3>3, FlowIsPicked
    <3>5. QED BY <1>5, <2>5, <3>4
  <2>6. QED BY <2>2, <2>3, <2>4, <2>5
<1>6. QED BY <1>3, <1>4, <1>5

(* The periods that are shown.                                             *)
QuarterPeriod(facts, y, q) ==
    [label |-> y.label, quarter |-> q, end |-> y.start + q, filing |-> Filing(facts, y, q),
     income |-> QuarterValue(facts, y, "income", q), cash |-> QuarterValue(facts, y, "cash", q),
     outflow |-> Outflow(QuarterValue(facts, y, "cash", q))]
YearPeriod(facts, y) ==
    [label |-> y.label, end |-> y.start + 4, filing |-> Filing(facts, y, 4),
     income |-> Pick(facts, "income", y.start, y.start + 4)]

LEMMA QuartersAre ==
    ASSUME NEW company, NEW known \in 0 .. 8, IsReporting(company)
    PROVE  \A p : p \in quarter_periods(Facts(company, known)) <=>
              \E y \in fiscal_years(Facts(company, known)) : \E q \in 1 .. Count(known, y) :
                 p = QuarterPeriod(Facts(company, known), y, q)
<1> DEFINE facts == Facts(company, known)
           of(y) == {[label |-> y.label, quarter |-> q, end |-> y.start + q, filing |-> Filing(facts, y, q),
                      income |-> QuarterValue(facts, y, "income", q), cash |-> QuarterValue(facts, y, "cash", q),
                      outflow |-> Outflow(QuarterValue(facts, y, "cash", q))] :
                        q \in ShownQuarters(facts, y)}
<1>1. quarter_periods(facts) = UNION {of(y) : y \in fiscal_years(facts)}
  BY DEF quarter_periods
<1>2. ASSUME NEW y \in fiscal_years(facts), NEW p
      PROVE  p \in of(y) <=> \E q \in 1 .. Count(known, y) : p = QuarterPeriod(facts, y, q)
  <2>1. ShownQuarters(facts, y) = 1 .. Count(known, y)
    BY ShownAre
  <2> HIDE DEF facts
  <2>2. QED BY <2>1 DEF QuarterPeriod
<1> HIDE DEF of, facts
<1>3. QED BY <1>1, <1>2 DEF facts

LEMMA AllValuesTrue ==
    ASSUME NEW company \in Companies, NEW known \in 0 .. 8
    PROVE  ValueIsTrue(company, known)
<1> DEFINE facts == Facts(company, known)
           true(end) == {Truth(company.tags[r], restated, end) : r \in 1 .. known, restated \in BOOLEAN}
           tags == {company.tags[r] : r \in 1 .. known}
<1>1. IsReporting(company)
  BY CalculationsAssumption
<1>2. \A end, v : IsTrueOf(company, known, end, v) => v \in true(end)
  BY DEF IsTrueOf
<1>3. ASSUME NEW r \in 1 .. known, NEW s \in 1 .. known, company.tags[r] # company.tags[s]
      PROVE  Cardinality(tags) > 1
  <2>1. {company.tags[r], company.tags[s]} \subseteq tags
    OBVIOUS
  <2>2. IsFiniteSet(tags)
    <3>1. IsFiniteSet(1 .. known)
      BY FS_Interval
    <3> DEFINE f == [i \in 1 .. known |-> company.tags[i]]
    <3>2. f \in Surjection(1 .. known, tags)
      BY DEF Surjection
    <3> HIDE DEF f, tags
    <3>3. QED BY <3>1, <3>2, FS_Surjection DEF ExistsSurjection
  <2>3. Cardinality({company.tags[r], company.tags[s]}) <= Cardinality(tags)
    <3> HIDE DEF tags
    <3> QED BY <2>1, <2>2, FS_Subset
  <2>4. Cardinality({company.tags[r], company.tags[s]}) = 2
    <3> DEFINE one == {company.tags[r]}
               other == company.tags[s]
    <3>1. IsFiniteSet(one) /\ Cardinality(one) = 1
      BY FS_Singleton
    <3>2. other \notin one
      BY <1>3
    <3>3. Cardinality(one \union {other}) = 2
      <4> HIDE DEF one, other
      <4> QED BY <3>1, <3>2, FS_AddElement
    <3>4. one \union {other} = {company.tags[r], company.tags[s]}
      OBVIOUS
    <3>5. QED BY <3>3, <3>4
  <2>5. Cardinality(tags) \in Nat
    BY <2>2, FS_CardinalityType
  <2> HIDE DEF tags
  <2>6. QED BY <2>3, <2>4, <2>5
<1> DEFINE alone(p) == IF p.quarter = 4 THEN company.fourth ELSE company.quarters
<1>4. ASSUME NEW p \in quarter_periods(facts)
      PROVE  /\ p.income \subseteq true(p.end) \/ (~alone(p) /\ Mixed(company, known, p.end))
             /\ p.cash \subseteq true(p.end) \/ Mixed(company, known, p.end)
             /\ p.outflow \subseteq Outflow(true(p.end)) \/ Mixed(company, known, p.end)
             /\ p.income = {} \/ p.cash = {} => p.quarter > 1 /\ Cardinality(tags) > 1
  <2>1. PICK y \in fiscal_years(facts) : \E q \in 1 .. Count(known, y) : p = QuarterPeriod(facts, y, q)
    BY <1>1, QuartersAre
  <2>2. PICK q \in 1 .. Count(known, y) : p = QuarterPeriod(facts, y, q)
    BY <2>1
  <2>3. /\ p.quarter = q /\ p.end = y.start + q
        /\ p.income = QuarterValue(facts, y, "income", q) /\ p.cash = QuarterValue(facts, y, "cash", q)
        /\ p.outflow = Outflow(p.cash)
    BY <2>2 DEF QuarterPeriod
  <2> DEFINE end == y.start + q
  <2> HIDE DEF facts, true, tags
  <2>4. /\ \A v \in p.income : v \in true(end) \/ Mixed(company, known, end)
        /\ alone(p) => \A v \in p.income : v \in true(end)
        /\ p.income = {} => q > 1 /\ Cardinality(tags) > 1
    BY <1>1, <1>2, <1>3, <2>3, ValueIs DEF facts
  <2>5. /\ \A v \in p.cash : v \in true(end) \/ Mixed(company, known, end)
        /\ p.cash = {} => q > 1 /\ Cardinality(tags) > 1
    BY <1>1, <1>2, <1>3, <2>3, ValueIs DEF facts
  <2>6. p.cash \subseteq true(end) => p.outflow \subseteq Outflow(true(end))
    BY <2>3 DEF Outflow
  <2> HIDE DEF alone
  <2>7. QED BY <2>3, <2>4, <2>5, <2>6
<1>5. ValueIsTrue(company, known) <=>
         \A p \in quarter_periods(facts) :
            /\ p.income \subseteq true(p.end) \/ (~alone(p) /\ Mixed(company, known, p.end))
            /\ p.cash \subseteq true(p.end) \/ Mixed(company, known, p.end)
            /\ p.outflow \subseteq Outflow(true(p.end)) \/ Mixed(company, known, p.end)
            /\ p.income = {} \/ p.cash = {} => p.quarter > 1 /\ Cardinality(tags) > 1
  BY DEF ValueIsTrue
<1> HIDE DEF facts, true, tags, alone
<1>6. QED BY <1>4, <1>5, Zenon

LEMMA YearsAre ==
    ASSUME NEW company, NEW known \in 0 .. 8, IsReporting(company)
    PROVE  \A p : p \in annual_periods(Facts(company, known)) <=>
              \E y \in fiscal_years(Facts(company, known)) : Over(known, y) /\ p = YearPeriod(Facts(company, known), y)
<1> DEFINE facts == Facts(company, known)
           over == {y \in fiscal_years(facts) : y.over}
<1>1. annual_periods(facts) = {YearPeriod(facts, y) : y \in over}
  BY DEF annual_periods, YearPeriod
<1>2. \A y : y \in over <=> y \in fiscal_years(facts) /\ Over(known, y)
  BY YearIs
<1> HIDE DEF over, facts
<1>3. QED BY <1>1, <1>2 DEF facts

LEMMA AllReportsShown ==
    ASSUME NEW company \in Companies, NEW known \in 0 .. 8
    PROVE  EveryReportShown(company, known)
<1> DEFINE facts == Facts(company, known)
           quarters == quarter_periods(facts)
           years == annual_periods(facts)
<1>1. IsReporting(company)
  BY CalculationsAssumption
<1>2. SUFFICES ASSUME known >= 4
      PROVE  /\ \A report \in 1 .. known : \E p \in quarters :
                   p.label = YearOf(report) /\ p.quarter = QuarterOf(report) /\ p.end = report
             /\ \A p \in quarters \union years : p.filing = {FirstFiling(p.end)}
             /\ \A p \in quarters : p.end > 0 => p.label = YearOf(p.end) /\ p.quarter = QuarterOf(p.end)
             /\ {p.end : p \in years} = {end \in {0, 4, 8} : end <= known}
             /\ \A p \in years : p.end > 0 => p.label = YearOf(p.end)
  BY Zenon DEF EveryReportShown, FirstFiling
<1>3. /\ FirstYear \in fiscal_years(facts) /\ YearBefore \in fiscal_years(facts)
      /\ known \in 5 .. 7 => YearInProgress \in fiscal_years(facts)
      /\ known = 8 => SecondYear \in fiscal_years(facts)
  BY <1>1, <1>2, FiscalYearsAre DEF IsFiscal
<1>4. ASSUME NEW p \in quarters
      PROVE  /\ p.filing = {FirstFiling(p.end)}
             /\ p.end > 0 => p.label = YearOf(p.end) /\ p.quarter = QuarterOf(p.end)
  <2>1. PICK y \in fiscal_years(facts) : \E q \in 1 .. Count(known, y) : p = QuarterPeriod(facts, y, q)
    BY <1>1, QuartersAre
  <2>2. PICK q \in 1 .. Count(known, y) : p = QuarterPeriod(facts, y, q)
    BY <2>1
  <2>3. p.label = y.label /\ p.quarter = q /\ p.end = y.start + q /\ p.filing = Filing(facts, y, q)
    BY <2>2 DEF QuarterPeriod
  <2>4. p.filing = {FirstFiling(p.end)}
    BY <1>1, <2>3, FilingIs
  <2>5. q \in 1 .. 4 /\ y.start \in {-4, 0, 4} /\ y.label = IF y.start = 4 THEN 1 ELSE 0
    BY <1>1, QuarterIsFiled, YearIs
  <2> HIDE DEF facts
  <2>6. QED BY <2>3, <2>4, <2>5 DEF YearOf, QuarterOf
<1>5. ASSUME NEW p \in years
      PROVE  \E y \in fiscal_years(facts) :
                /\ Over(known, y) /\ p.end = y.start + 4 /\ p.filing = {FirstFiling(p.end)}
                /\ p.end > 0 => p.label = YearOf(p.end)
  <2>1. PICK y \in fiscal_years(facts) : Over(known, y) /\ p = YearPeriod(facts, y)
    BY <1>1, YearsAre
  <2>2. p.label = y.label /\ p.end = y.start + 4 /\ p.filing = Filing(facts, y, 4)
    BY <2>1 DEF YearPeriod
  <2>3. Count(known, y) = 4 /\ y.start \in {-4, 0, 4} /\ y.label = IF y.start = 4 THEN 1 ELSE 0
    BY <1>1, <2>1, YearIs
  <2>4. p.filing = {FirstFiling(p.end)}
    BY <1>1, <2>2, <2>3, FilingIs
  <2>5. p.end > 0 => p.label = YearOf(p.end)
    BY <2>2, <2>3 DEF YearOf
  <2>6. QED BY <2>1, <2>2, <2>4, <2>5
<1>6. ASSUME NEW report \in 1 .. known
      PROVE  \E p \in quarters : p.label = YearOf(report) /\ p.quarter = QuarterOf(report) /\ p.end = report
  <2>1. PICK y \in fiscal_years(facts) : y.start = IF report <= 4 THEN 0 ELSE 4
    BY <1>3, YearFields
  <2> DEFINE q == report - y.start
             p == QuarterPeriod(facts, y, q)
  <2>2. q \in 1 .. Count(known, y) /\ y.start + q = report /\ q = QuarterOf(report) /\ y.label = YearOf(report)
    BY <1>1, <2>1, YearIs DEF Count, QuarterOf, YearOf
  <2> HIDE DEF q
  <2>3. p \in quarters
    BY <1>1, <2>2, QuartersAre
  <2>4. p.label = y.label /\ p.quarter = q /\ p.end = y.start + q
    BY DEF QuarterPeriod
  <2> HIDE DEF p, quarters
  <2>5. QED BY <2>2, <2>3, <2>4
<1>7. ASSUME NEW end \in {0, 4, 8}, end <= known
      PROVE  \E p \in years : p.end = end
  <2>1. PICK y \in fiscal_years(facts) : y.start = end - 4 /\ Over(known, y)
    BY <1>3, <1>7, YearFields DEF Over
  <2> DEFINE p == YearPeriod(facts, y)
  <2>2. p \in years
    BY <1>1, <2>1, YearsAre
  <2>3. p.end = end
    BY <2>1 DEF YearPeriod
  <2> HIDE DEF p, years
  <2>4. QED BY <2>2, <2>3
<1>8. ASSUME NEW p \in years PROVE p.end \in {0, 4, 8} /\ p.end <= known
  BY <1>1, <1>2, <1>5, YearIs DEF Over
<1> HIDE DEF facts, quarters, years
<1>9. {p.end : p \in years} = {end \in {0, 4, 8} : end <= known}
  BY <1>7, <1>8
<1>10. QED BY <1>4, <1>5, <1>6, <1>9

----------------------------------------------------------------------------
(* The inputs.                                                             *)

IsNames(i) ==
    \E script \in DOMAIN Changes : \E change \in Changes[script] :
        i = [of |-> "names", script |-> script, old |-> change[1], new |-> change[2]]
IsSearch(i) ==
    \E company \in Listed, summary \in Summaries, opening \in Openings :
        i = [of |-> "search", company |-> company, summary |-> summary, opening |-> opening]
IsMoment(i) ==
    \E market \in Markets, summer \in BOOLEAN, now \in Moments :
        i = [of |-> "moment", market |-> market, summer |-> summer, now |-> now]
IsReports(i) ==
    \E truths \in Truths, published \in [1 .. 4 -> SUBSET Bases] :
        i = [of |-> "reports", truths |-> truths, published |-> published]
IsWindow(i) ==
    \E limit \in Limits, now \in 0 .. 12, shift \in 0 .. 11, late \in Delays :
        i = [of |-> "window", limit |-> limit, now |-> now, shift |-> shift, late |-> late]
IsDates(i) ==
    \E shift \in 0 .. 11, listed \in SUBSET {2, 4} : i = [of |-> "dates", shift |-> shift, listed |-> listed]
IsCompany(i) ==
    \E company \in Companies, known \in 0 .. 8 : i = [of |-> "company", company |-> company, filed |-> known]

(* An input is none yet or one that the constants have.                    *)
InputInv ==
    /\ input.of = "names"   => IsNames(input)
    /\ input.of = "search"  => IsSearch(input)
    /\ input.of = "moment"  => IsMoment(input)
    /\ input.of = "table"   => \E table \in Tables : input = [of |-> "table", table |-> table]
    /\ input.of = "reports" => IsReports(input)
    /\ input.of = "window"  => IsWindow(input)
    /\ input.of = "dates"   => IsDates(input)
    /\ input.of = "company" => IsCompany(input)

LEMMA InputStep == InputInv /\ [PickInput]_input => InputInv'
<1> SUFFICES ASSUME InputInv, [PickInput]_input PROVE InputInv'
  OBVIOUS
<1>1. CASE UNCHANGED input
  BY <1>1 DEF InputInv, IsNames, IsSearch, IsMoment, IsReports, IsWindow, IsDates, IsCompany
<1>2. CASE PickNames
  <2>1. input'.of = "names" /\ IsNames(input)'
    BY <1>2 DEF PickNames, IsNames
  <2>2. QED BY <2>1 DEF InputInv
<1>3. CASE PickSearch
  <2>1. input'.of = "search" /\ IsSearch(input)'
    BY <1>3 DEF PickSearch, IsSearch
  <2>2. QED BY <2>1 DEF InputInv
<1>4. CASE PickMoment
  <2>1. input'.of = "moment"
    BY <1>4 DEF PickMoment
  <2>2. IsMoment(input)'
    BY <1>4, Zenon DEF PickMoment, IsMoment, Markets
  <2>3. QED BY <2>1, <2>2 DEF InputInv
<1>5. CASE PickTable
  BY <1>5 DEF PickTable, InputInv
<1>6. CASE PickReports
  <2>1. input'.of = "reports" /\ IsReports(input)'
    BY <1>6 DEF PickReports, IsReports
  <2>2. QED BY <2>1 DEF InputInv
<1>7. CASE PickWindow
  <2>1. input'.of = "window"
    BY <1>7 DEF PickWindow
  <2>2. IsWindow(input)'
    BY <1>7, Zenon DEF PickWindow, IsWindow
  <2>3. QED BY <2>1, <2>2 DEF InputInv
<1>8. CASE PickDates
  <2>1. input'.of = "dates"
    BY <1>8 DEF PickDates
  <2>2. IsDates(input)'
    BY <1>8, Zenon DEF PickDates, IsDates
  <2>3. QED BY <2>1, <2>2 DEF InputInv
<1>9. CASE PickCompany
  <2>1. input'.of = "company" /\ IsCompany(input)'
    BY <1>9 DEF PickCompany, IsCompany
  <2>2. QED BY <2>1 DEF InputInv
<1>10. QED BY <1>1, <1>2, <1>3, <1>4, <1>5, <1>6, <1>7, <1>8, <1>9 DEF PickInput

LEMMA SpecInputInv == CalculationsSpec => []InputInv
<1>1. NoInput => InputInv
  BY DEF NoInput, InputInv
<1>2. QED BY <1>1, InputStep, PTL DEF CalculationsSpec

(* SymbolDirectory.changes_since, Ingestor.retag_changed: whatever the two *)
(* directories and the text are, a text whose tags change is one of the    *)
(* candidates of the change.  _text_clause, _symbol_rows and               *)
(* text_matches_symbol: whatever the names of a company and the columns of *)
(* an article are, the search returns every article the rules accept.      *)
THEOREM SpecCandidatesSuffice == CalculationsSpec => []CandidatesSuffice
<1>1. ASSUME InputInv, input.of = "names", NEW text \in Texts[input.script]
      PROVE  SelectsAll(input.old, input.new, text)
  <2>1. PICK script \in DOMAIN Changes : \E change \in Changes[script] :
           input = [of |-> "names", script |-> script, old |-> change[1], new |-> change[2]]
    BY <1>1 DEF InputInv, IsNames
  <2> PICK change \in Changes[script] :
           input = [of |-> "names", script |-> script, old |-> change[1], new |-> change[2]]
    BY <2>1
  <2>2. input.script = script /\ input.old = change[1] /\ input.new = change[2]
    OBVIOUS
  <2>3. \A n \in change[1] \union change[2] : IsName(n)
    BY CalculationsAssumption
  <2>4. Named(input.old) /\ Named(input.new)
    BY <2>2, <2>3 DEF Named
  <2>5. IsText(text)
    BY <1>1, <2>2, CalculationsAssumption
  <2>6. QED BY <2>4, <2>5, CandidatesAreAll
<1>2. ASSUME InputInv, input.of = "search", NEW line \in Lines, NEW include \in BOOLEAN
      PROVE  SearchLosesNothing(input.company, build_search_terms(input.company), Headline(line), include)
  <2>1. PICK company \in Listed, summary \in Summaries, opening \in Openings :
           input = [of |-> "search", company |-> company, summary |-> summary, opening |-> opening]
    BY <1>2 DEF InputInv, IsSearch
  <2>2. input.company = company /\ input.summary = summary /\ input.opening = opening
    BY <2>1
  <2>3. IsListed(company)
    BY CalculationsAssumption
  <2>4. summary \in Seq(DOMAIN Lower) /\ opening \o line \in Seq(DOMAIN Lower)
    <3>1. summary \in Seq(DOMAIN Lower) /\ opening \in Seq(DOMAIN Lower) /\ line \in Seq(DOMAIN Lower)
      BY CalculationsAssumption
    <3>2. QED BY <3>1
  <2>5. Headline(line).title \in Seq(DOMAIN Lower) /\ Headline(line).summary \in Seq(DOMAIN Lower)
    BY <2>2, <2>4 DEF Headline
  <2>6. SearchLosesNothing(company, build_search_terms(company), Headline(line), include)
    BY <2>3, <2>5, SearchesSuffice, Zenon DEF IsListed
  <2>7. QED BY <2>2, <2>6
<1>3. InputInv => CandidatesSuffice
  BY <1>1, <1>2, Zenon DEF CandidatesSuffice
<1>4. QED BY <1>3, SpecInputInv, PTL

(* ticker_needs_exact_case, text_matches_symbol: for every company, named  *)
(* like its ticker or not, and every article, in whatever capitals, the    *)
(* article is the company's if and only if its ticker stands in it as it   *)
(* is written, or a term that is not its ticker is found; only a company   *)
(* whose name begins with its ticker in other capitals is found by the     *)
(* word.                                                                   *)
THEOREM SpecWordsAreNoTickers == CalculationsSpec => []WordsAreNoTickers
<1>1. ASSUME InputInv, input.of = "search", NEW line \in Lines
      PROVE  WordIsNoTicker(input.company, build_search_terms(input.company), Headline(line))
  <2>1. PICK company \in Listed, summary \in Summaries, opening \in Openings :
           input = [of |-> "search", company |-> company, summary |-> summary, opening |-> opening]
    BY <1>1 DEF InputInv, IsSearch
  <2>2. input.company = company /\ input.summary = summary /\ input.opening = opening
    BY <2>1
  <2>3. IsListed(company)
    BY CalculationsAssumption
  <2>4. summary \in Seq(DOMAIN Lower) /\ opening \in Seq(DOMAIN Lower) /\ line \in Seq(DOMAIN Lower)
    BY CalculationsAssumption
  <2>5. Headline(line).title \in Seq(DOMAIN Lower) /\ Headline(line).summary \in Seq(DOMAIN Lower)
    BY <2>2, <2>4 DEF Headline
  <2>6. WordIsNoTicker(company, build_search_terms(company), Headline(line))
    BY <2>3, <2>5, TickersAreNoWords, Zenon DEF IsListed
  <2>7. QED BY <2>2, <2>6
<1>2. InputInv => WordsAreNoTickers
  BY <1>1, Zenon DEF WordsAreNoTickers
<1>3. QED BY <1>2, SpecInputInv, PTL

(* symbol_interval_sec: at every minute, for all intervals and any number  *)
(* of failures, a symbol is polled again before a session that opens while *)
(* it waits has gone on for longer than the interval of the session or the *)
(* longest backoff.                                                        *)
THEOREM SpecNoOpeningSlept == CalculationsSpec => []NoOpeningSlept
<1>1. InputInv => NoOpeningSlept
  <2> SUFFICES ASSUME InputInv, input.of = "moment", NEW fails \in Failures
               PROVE  OpeningPolled(Intervals, input.market, input.now, input.summer, fails)
    BY DEF NoOpeningSlept
  <2>1. input.market \in Markets /\ input.now \in Moments
    BY DEF InputInv, IsMoment
  <2>2. /\ Intervals \in [{"open", "extended", "closed"} -> Nat \ {0}]
        /\ input.now \in Nat /\ fails \in Nat
    BY <2>1, CalculationsAssumption
  <2>3. QED BY <2>1, <2>2, OpeningsArePolled
<1>2. QED BY <1>1, SpecInputInv, PTL

(* QueryService.headlines: on every page, for every table and query, a     *)
(* match that is left out is beyond a cap, repeats a title, or comes after *)
(* a full page and the cursor given with it.                               *)
THEOREM SpecPagesComplete == CalculationsSpec => []PagesComplete
<1>1. InputInv => PagesComplete
  <2> SUFFICES ASSUME InputInv, input.of = "table", NEW q \in Queries
               PROVE  PageIsComplete(input.table, q)
    BY DEF PagesComplete
  <2>1. input.table \in Tables
    BY DEF InputInv
  <2>2. IsTable(input.table) /\ IsQuery(q)
    BY <2>1, CalculationsAssumption
  <2>3. QED BY <2>2, PagesAreComplete
<1>2. QED BY <1>1, SpecInputInv, PTL

(* _quarter and _annual: whatever was earned and in whichever reports it   *)
(* is, a quarter shows what was earned in it on the basis of its report,   *)
(* and four known quarters add up to the amount of the year.               *)
THEOREM SpecDartQuartersTrue == CalculationsSpec => []DartQuartersTrue
<1>1. InputInv => DartQuartersTrue
  <2> SUFFICES ASSUME InputInv, input.of = "reports", NEW kind \in Kinds, NEW basis \in {"consolidated", "separate"}
               PROVE  LET reports == Reports(input.truths, input.published, kind, basis) IN
                      /\ \A q \in 1 .. 4 : QuarterIsTrue(input.truths, reports, kind, q)
                      /\ QuartersMakeYear(input.truths, reports, kind)
    BY Zenon DEF DartQuartersTrue, Kinds
  <2> DEFINE reports == Reports(input.truths, input.published, kind, basis)
  <2>1. input.truths \in Truths /\ input.published \in [1 .. 4 -> SUBSET Bases]
    BY DEF InputInv, IsReports
  <2>2. input.truths \in [Bases -> [1 .. 4 -> Int]]
    BY <2>1, CalculationsAssumption
  <2>3. IsYear(input.truths, reports, kind)
    <3> HIDE DEF reports
    <3> QED BY <2>1, <2>2, ReportOfQuarter DEF IsYear, reports
  <2> HIDE DEF reports
  <2>4. QED BY <2>3, QuartersAreTrue, YearAddsUp DEF reports
<1>2. QED BY <1>1, SpecInputInv, PTL

(* periods, _period_start and _apply_shares: in every year, whatever month *)
(* it begins in and whichever half-year and annual reports list their      *)
(* dates, every quarter is dated right or as many months too early as the  *)
(* fiscal year ends after the calendar year, so that the gap or overlap    *)
(* between two quarters is known; and however late reports are filed, as   *)
(* many periods are built as are asked for, but for one for every three    *)
(* months that a report comes later than three months after the calendar   *)
(* quarter it is named for, and the years whose report is not filed.       *)
THEOREM SpecDartPeriodsFollow == CalculationsSpec => []DartPeriodsFollow
<1>1. InputInv => DartPeriodsFollow
  <2>1. ASSUME InputInv, input.of = "dates", NEW year \in Years
        PROVE  QuartersFollow(input.shift, input.listed, year)
    <3>1. input.shift \in 0 .. 11 /\ input.listed \in SUBSET (1 .. 4)
      <4>1. IsDates(input)
        BY <2>1 DEF InputInv
      <4>2. PICK shift \in 0 .. 11, listed \in SUBSET {2, 4} :
               input = [of |-> "dates", shift |-> shift, listed |-> listed]
        BY <4>1, Zenon DEF IsDates
      <4>3. input.shift = shift /\ input.listed = listed
        BY <4>2
      <4>4. listed \in SUBSET (1 .. 4)
        OBVIOUS
      <4>5. QED BY <4>3, <4>4
    <3>2. year \in Int
      BY CalculationsAssumption
    <3>3. QED BY <3>1, <3>2, PeriodsFollow
  <2>2. ASSUME InputInv, input.of = "window"
        PROVE  EnoughPeriods(input.limit, input.now, input.shift, input.late)
    <3>1. PICK limit \in Limits, now \in 0 .. 12, shift \in 0 .. 11, late \in Delays :
             input = [of |-> "window", limit |-> limit, now |-> now, shift |-> shift, late |-> late]
      BY <2>2 DEF InputInv, IsWindow
    <3>2. limit \in Nat \ {0} /\ late \in Nat /\ shift \in Nat
      BY CalculationsAssumption
    <3>3. EnoughPeriods(limit, now, shift, late)
      BY <3>2, PeriodsAreEnough
    <3>4. QED BY <3>1, <3>3
  <2>3. QED BY <2>1, <2>2 DEF DartPeriodsFollow
<1>2. QED BY <1>1, SpecInputInv, PTL

(* quarter_periods, annual_periods and _stocks: whatever tags a company    *)
(* goes through, whatever it restates and however many reports are in, a   *)
(* quarter from EDGAR is the amount one tag has for it, and an outflow the *)
(* size of it, but where a restated amount is taken with one that is not   *)
(* (Mixed); it is missing only when the tag changed; no report is left out *)
(* or mislabelled, and balances add up but beside an old total (_stocks).  *)
THEOREM SpecSecStatementsTrue == CalculationsSpec => []SecStatementsTrue
<1>1. InputInv => SecStatementsTrue
  <2> SUFFICES ASSUME InputInv, input.of = "company"
               PROVE  /\ ValueIsTrue(input.company, input.filed)
                      /\ EveryReportShown(input.company, input.filed)
                      /\ BalancesAddUp(input.company, input.filed)
    BY DEF SecStatementsTrue
  <2>1. PICK company \in Companies, known \in 0 .. 8 :
           input = [of |-> "company", company |-> company, filed |-> known]
    BY DEF InputInv, IsCompany
  <2>2. input.company = company /\ input.filed = known
    BY <2>1
  <2>3. QED BY <2>2, AllValuesTrue, AllReportsShown, BalancesAgree
<1>2. QED BY <1>1, SpecInputInv, PTL

----------------------------------------------------------------------------
(* The disclosure collector, for every page size, page limit and number of *)
(* filings: what is skipped as seen has been stored, has been lost by an   *)
(* ingest that failed, or is being ingested, and below a number that has   *)
(* been seen nothing was overlooked.                                       *)

Typed ==
    /\ day \in 1 .. LastDay
    /\ filed \in [1 .. LastDay -> Nat]
    /\ seenDay \in 0 .. LastDay
    /\ seen \subseteq Nat
    /\ run \in [phase : {"idle", "page", "ingest"}, today : 0 .. LastDay, page : Nat,
                items : SUBSET Nat, listed : Nat]

(* A run works on the day whose numbers are seen, on numbers listed.       *)
Current ==
    /\ seen # {} => seenDay \in 1 .. LastDay /\ seen \subseteq 1 .. filed[seenDay]
    /\ run.phase # "idle" =>
          /\ run.today = seenDay /\ seenDay \in 1 .. LastDay
          /\ run.page \in Nat \ {0} /\ run.items \subseteq 1 .. filed[seenDay]

Accounted(n) == n \in seen \/ <<seenDay, n>> \in beyond

(* While the list is read: below a number found and above the top of the   *)
(* page that comes next everything is accounted for or found.  Filings     *)
(* only move that top up, so they open no gap.                             *)
FoundWithoutGap ==
    run.phase = "page" =>
        \A n \in run.items : \A m \in 1 .. n :
            m > filed[seenDay] - (run.page - 1) * PageCount => Accounted(m) \/ m \in run.items

IInv == Typed /\ Current /\ FoundWithoutGap /\ SeenIsStored

----------------------------------------------------------------------------
(* Pages.                                                                  *)

LEMMA PageRange ==
    ASSUME NEW x \in Nat, NEW q \in Nat
    PROVE  x \div PageCount = q <=> q * PageCount <= x /\ x < (q + 1) * PageCount
BY ConstantsAssumption

(* A page holds a range of numbers, down from the ones before it.          *)
LEMMA PageIsRange ==
    ASSUME NEW d, filed[d] \in Nat, NEW p \in Nat \ {0}, NEW n \in 1 .. filed[d]
    PROVE  n \in Page(d, p) <=>
              /\ n <= filed[d] - (p - 1) * PageCount
              /\ n > filed[d] - p * PageCount
<1>1. filed[d] - n \in Nat /\ p - 1 \in Nat /\ (p - 1) + 1 = p
  OBVIOUS
<1>2. (filed[d] - n) \div PageCount = p - 1 <=>
         (p - 1) * PageCount <= filed[d] - n /\ filed[d] - n < p * PageCount
  BY <1>1, PageRange
<1>3. p * PageCount \in Nat /\ (p - 1) * PageCount \in Nat
  BY <1>1, ConstantsAssumption
<1>4. QED BY <1>2, <1>3 DEF Page

(* Below the last page there is nothing.                                   *)
LEMMA LastPage ==
    ASSUME NEW d, filed[d] \in Nat, NEW p \in Nat \ {0}, p >= TotalPage(d)
    PROVE  filed[d] - p * PageCount <= 0
<1> DEFINE x == filed[d] + PageCount - 1
           q == x \div PageCount
<1>1. x \in Nat /\ q \in Nat
  BY ConstantsAssumption
<1>2. x < (q + 1) * PageCount
  BY <1>1, PageRange
<1>3. q <= p
  BY DEF TotalPage
<1>4. q * PageCount <= p * PageCount /\ (q + 1) * PageCount = q * PageCount + PageCount
  BY <1>1, <1>3, ConstantsAssumption
<1>5. q * PageCount \in Nat /\ p * PageCount \in Nat
  BY <1>1, ConstantsAssumption
<1>6. QED BY <1>1, <1>2, <1>4, <1>5, ConstantsAssumption

----------------------------------------------------------------------------
(* The parts of SeenIsStored.                                              *)

InIngest == IF run.phase = "ingest" THEN Numbered(run.today, run.items) ELSE {}

SeenKept    == Numbered(seenDay, seen) \subseteq stored \union lost \union InIngest
NothingBelow == \A n \in seen : \A m \in 1 .. n : Accounted(m)

LEMMA Parts == SeenIsStored <=> SeenKept /\ NothingBelow
BY DEF SeenIsStored, SeenKept, NothingBelow, InIngest, Accounted

LEMMA InitIInv == Init => IInv
<1> SUFFICES ASSUME Init PROVE IInv
  OBVIOUS
<1>1. Typed /\ Current /\ FoundWithoutGap
  BY ConstantsAssumption DEF Init, NoRun, Typed, Current, FoundWithoutGap
<1>2. SeenIsStored
  BY DEF Init, NoRun, SeenIsStored, Numbered
<1>3. QED BY <1>1, <1>2 DEF IInv

(* Filings move the top of the next page up and the rest nowhere.          *)
LEMMA FileStep == ASSUME IInv, File PROVE IInv'
<1> USE DEF IInv
<1>1. /\ filed' \in [1 .. LastDay -> Nat] /\ \A d \in 1 .. LastDay : filed'[d] >= filed[d]
      /\ UNCHANGED <<day, seenDay, seen, run, stored, failures, lost, beyond>>
  BY DEF File, Typed
<1>2. Typed'
  BY <1>1 DEF Typed
<1>3. Current'
  BY <1>1 DEF Current, Typed
<1>4. FoundWithoutGap'
  <2> SUFFICES ASSUME run.phase = "page", NEW n \in run.items, NEW m \in 1 .. n,
                      m > filed'[seenDay] - (run.page - 1) * PageCount
               PROVE  Accounted(m) \/ m \in run.items
    BY <1>1 DEF FoundWithoutGap, Accounted
  <2>1. seenDay \in 1 .. LastDay /\ run.page - 1 \in Nat /\ filed[seenDay] \in Nat /\ filed'[seenDay] \in Nat
    BY <1>1 DEF Current, Typed
  <2>2. (run.page - 1) * PageCount \in Nat
    BY <2>1, ConstantsAssumption
  <2>3. n \in Nat
    BY <2>1 DEF Current
  <2>4. m > filed[seenDay] - (run.page - 1) * PageCount
    BY <1>1, <2>1, <2>2, <2>3
  <2>5. QED BY <2>4 DEF FoundWithoutGap
<1>5. SeenIsStored'
  BY <1>1 DEF SeenIsStored, Numbered
<1>6. QED BY <1>2, <1>3, <1>4, <1>5

(* A new day forgets what was seen; nothing has been found yet.            *)
LEMMA StartStep == ASSUME IInv, StartFetch PROVE IInv'
<1> USE DEF IInv
<1>1. /\ run.phase = "idle" /\ seenDay' = day /\ day \in 1 .. LastDay
      /\ run' = [phase |-> "page", today |-> day, page |-> 1, items |-> {}, listed |-> filed[day]]
      /\ UNCHANGED <<day, filed, stored, failures, lost, beyond>>
      /\ seen' = {} \/ (seen' = seen /\ seenDay' = seenDay)
  BY DEF StartFetch, NoRun, Typed
<1>2. Typed'
  <2>1. /\ filed[day] \in Nat /\ day \in 0 .. LastDay
        /\ seen' \subseteq Nat
    <3>1. filed[day] \in Nat /\ day \in 0 .. LastDay
      BY <1>1, ConstantsAssumption DEF Typed
    <3>2. seen' \subseteq Nat
      BY <1>1 DEF Typed
    <3>3. QED BY <3>1, <3>2
  <2>2. run' \in [phase : {"idle", "page", "ingest"}, today : 0 .. LastDay, page : Nat,
                  items : SUBSET Nat, listed : Nat]
    BY <1>1, <2>1
  <2>3. QED BY <1>1, <2>1, <2>2 DEF Typed
<1>3. Current' /\ FoundWithoutGap'
  BY <1>1 DEF Current, FoundWithoutGap
<1>4. SeenIsStored'
  <2>1. SeenKept' /\ NothingBelow'
    BY <1>1, Parts DEF SeenKept, NothingBelow, Accounted, InIngest, Numbered
  <2>2. QED BY <2>1 DEF SeenIsStored, SeenKept, NothingBelow, InIngest, Accounted
<1>5. QED BY <1>2, <1>3, <1>4

(* One page.                                                               *)
LEMMA PageStep == ASSUME IInv, RequestPage PROVE IInv'
<1> USE DEF IInv
<1> DEFINE p     == run.page
           F     == filed[seenDay]
           page  == Page(seenDay, p)
           items == run.items \union New(page)
           last  == Ends(page) \/ p = MaxPages
<1>1. /\ run.phase = "page" /\ run.today = seenDay /\ seenDay \in 1 .. LastDay
      /\ p \in Nat \ {0} /\ F \in Nat /\ run.items \subseteq 1 .. F /\ seen \subseteq 1 .. F
  BY DEF RequestPage, Current, Typed
<1>2. /\ run' = [run EXCEPT !.items = items, !.page = p + 1, !.phase = IF last THEN "ingest" ELSE "page"]
      /\ seen' = IF last THEN seen \union items ELSE seen
      /\ beyond' = IF last /\ ~Ends(page)
                   THEN beyond \union Numbered(seenDay, (1 .. F) \ (seen \union items))
                   ELSE beyond
      /\ UNCHANGED <<day, filed, seenDay, stored, failures, lost>>
  BY <1>1 DEF RequestPage, SeenAfter
<1>3. page \subseteq 1 .. F /\ items \subseteq 1 .. F
  BY <1>1 DEF Page, New
<1>4. /\ run'.phase = (IF last THEN "ingest" ELSE "page") /\ run'.today = seenDay
      /\ run'.page = p + 1 /\ run'.items = items
  BY <1>1, <1>2 DEF Typed
<1>5. Typed'
  <2>1. items \subseteq Nat /\ p + 1 \in Nat /\ seen' \subseteq Nat
    BY <1>1, <1>2, <1>3 DEF Typed
  <2>2. run' \in [phase : {"idle", "page", "ingest"}, today : 0 .. LastDay, page : Nat,
                  items : SUBSET Nat, listed : Nat]
    BY <1>2, <2>1 DEF Typed
  <2>3. QED BY <1>2, <2>1, <2>2 DEF Typed
<1>6. Current'
  BY <1>1, <1>2, <1>3, <1>4 DEF Current
<1>7. (p - 1) * PageCount \in Nat /\ p * PageCount \in Nat /\ p * PageCount = (p - 1) * PageCount + PageCount
  BY <1>1, ConstantsAssumption
(* Below a number found, down to the end of this page, nothing is missing. *)
<1>8. ASSUME NEW n \in items, NEW m \in 1 .. n, m > F - p * PageCount
      PROVE  Accounted(m) \/ m \in items
  <2>1. n \in 1 .. F /\ m \in 1 .. F
    BY <1>1, <1>3
  <2>2. CASE m <= F - (p - 1) * PageCount
    <3>1. m \in page
      BY <1>1, <1>8, <2>1, <2>2, PageIsRange
    <3>2. QED BY <3>1 DEF New, Accounted
  <2>3. CASE ~(m <= F - (p - 1) * PageCount)
    <3>1. m > F - (p - 1) * PageCount
      BY <1>1, <1>7, <2>1, <2>3
    <3>2. n \notin page
      BY <1>1, <1>7, <2>1, <3>1, PageIsRange
    <3>3. n \in run.items
      BY <3>2 DEF New
    <3>4. QED BY <1>1, <3>1, <3>3 DEF FoundWithoutGap
  <2>4. QED BY <2>2, <2>3
<1>9. FoundWithoutGap'
  <2> SUFFICES ASSUME ~last, NEW n \in items, NEW m \in 1 .. n, m > F - p * PageCount
               PROVE  Accounted(m) \/ m \in items
    BY <1>1, <1>2, <1>4 DEF FoundWithoutGap, Accounted
  <2>1. QED BY <1>8
<1>10. NothingBelow'
  <2>1. CASE ~last
    BY <2>1, <1>2, Parts DEF NothingBelow, Accounted
  <2>2. CASE last
    <3> SUFFICES ASSUME NEW n \in seen \union items, NEW m \in 1 .. n
                 PROVE  m \in seen \union items \/ <<seenDay, m>> \in beyond'
      BY <2>2, <1>2 DEF NothingBelow, Accounted
    <3>1. n \in 1 .. F /\ m \in 1 .. F /\ beyond \subseteq beyond'
      BY <1>1, <1>2, <1>3
    <3>2. CASE ~Ends(page)
      BY <3>1, <3>2, <2>2, <1>2 DEF Numbered
    <3>3. CASE n \in seen
      BY <3>1, <3>3, Parts DEF NothingBelow, Accounted
    <3>4. CASE n \in items /\ m > F - p * PageCount
      BY <3>1, <3>4, <1>8 DEF Accounted
    <3>5. CASE n \in items /\ ~(m > F - p * PageCount) /\ Ends(page)
      <4>1. m <= F - p * PageCount
        BY <3>1, <3>5, <1>1, <1>7
      <4>2. ~(p >= TotalPage(seenDay))
        BY <4>1, <3>1, <1>1, <1>7, LastPage
      <4>3. page \subseteq seen
        BY <4>2, <3>5, <1>1 DEF Ends, New
      <4> DEFINE top == F - (p - 1) * PageCount
      <4>4. top \in 1 .. F /\ m < top /\ top > F - p * PageCount
        BY <4>1, <3>1, <1>1, <1>7, ConstantsAssumption
      <4>5. top \in seen
        BY <4>3, <4>4, <1>1, PageIsRange
      <4>6. m \in 1 .. top
        BY <4>4, <3>1
      <4>7. Accounted(m)
        BY <4>5, <4>6, Parts DEF NothingBelow
      <4>8. QED BY <4>7, <3>1 DEF Accounted
    <3>6. QED BY <3>2, <3>3, <3>4, <3>5
  <2>3. QED BY <2>1, <2>2
<1>11. SeenKept'
  BY <1>1, <1>2, <1>4, Parts DEF SeenKept, InIngest, Numbered
<1>12. SeenIsStored'
  BY <1>10, <1>11 DEF SeenIsStored, SeenKept, NothingBelow, InIngest, Accounted
<1>13. QED BY <1>5, <1>6, <1>9, <1>12

(* The end of a fetch or of an ingest, a restart and a new day.            *)
LEMMA EndStep ==
    ASSUME IInv, Midnight \/ RequestFails \/ IngestItems \/ IngestFails \/ Restart \/ UNCHANGED vars
    PROVE  IInv'
<1> USE DEF IInv
<1>1. /\ filed' = filed /\ beyond' = beyond /\ stored \subseteq stored' /\ lost \subseteq lost'
      /\ day' \in 1 .. LastDay
      /\ run' = NoRun \/ (run' = run /\ seenDay' = seenDay /\ seen' = seen)
      /\ \/ seenDay' = seenDay /\ seen' = seen
         \/ seenDay' = 0 /\ seen' = {} /\ run' = NoRun
  <2>1. day' \in 1 .. LastDay
    BY ConstantsAssumption DEF Midnight, RequestFails, IngestItems, IngestFails, Restart, vars, Typed
  <2>2. QED BY <2>1 DEF Midnight, RequestFails, IngestItems, IngestFails, Restart, vars
<1>2. Typed'
  <2>1. NoRun \in [phase : {"idle", "page", "ingest"}, today : 0 .. LastDay, page : Nat,
                   items : SUBSET Nat, listed : Nat]
    BY ConstantsAssumption DEF NoRun
  <2>2. run' \in [phase : {"idle", "page", "ingest"}, today : 0 .. LastDay, page : Nat,
                  items : SUBSET Nat, listed : Nat]
    BY <1>1, <2>1 DEF Typed
  <2>3. seenDay' \in 0 .. LastDay /\ seen' \subseteq Nat
    <3>1. CASE seenDay' = seenDay /\ seen' = seen
      BY <3>1 DEF Typed
    <3>2. CASE seenDay' = 0 /\ seen' = {}
      BY <3>2, ConstantsAssumption
    <3>3. QED BY <1>1, <3>1, <3>2
  <2>4. QED BY <1>1, <2>2, <2>3 DEF Typed
<1>3. Current' /\ FoundWithoutGap'
  BY <1>1 DEF Current, FoundWithoutGap, Accounted, NoRun
<1>4. SeenKept'
  BY Parts DEF SeenKept, InIngest, NoRun, Midnight, RequestFails, IngestItems, IngestFails, Restart, vars,
               Numbered
<1>5. NothingBelow'
  BY <1>1, Parts DEF NothingBelow, Accounted
<1>6. SeenIsStored'
  BY <1>4, <1>5 DEF SeenIsStored, SeenKept, NothingBelow, InIngest, Accounted
<1>7. QED BY <1>2, <1>3, <1>6

LEMMA StepIInv == IInv /\ [Next]_vars => IInv'
BY FileStep, StartStep, PageStep, EndStep DEF Next

(* DartCollector.fetch: a receipt number in _seen has been stored, lost by *)
(* an ingest that failed or is being ingested, and nothing below it was    *)
(* overlooked but for the page limit.                                      *)
THEOREM SpecSeenIsStored == Spec => []SeenIsStored
<1>1. IInv => SeenIsStored
  BY DEF IInv
<1>2. QED BY <1>1, InitIInv, StepIInv, PTL DEF Spec
=============================================================================
