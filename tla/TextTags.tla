------------------------------ MODULE TextTags ------------------------------
(***************************************************************************)
(* Dictionary tagging of newsserver/symbols.py: how the names of listed    *)
(* companies become an index, how they are found in a text, and which      *)
(* articles pipeline.py looks at again when the index has changed.         *)
(*                                                                         *)
(* A directory is a set of names: [key, words, hangul, curated, korean,    *)
(* caps, rank], stripped of parentheses and legal forms; caps means that   *)
(* it is written in capitals, rank places key in the order of listings.    *)
(* The words of a hangul name are its letters.  A text has the hangul      *)
(* tokens and explicit references ($NVDA, (005930)) of both parts, and for *)
(* each part its words [word, form, joined], joined when only a space      *)
(* parts it from the word before; a number has the form Title.             *)
(***************************************************************************)
EXTENDS Naturals, SequencesExt, FiniteSetsExt

CONSTANTS
    StopNames,      \* names never used
    Common,         \* words of the English word list
    Digits,         \* words that are numbers
    Length,         \* the length of a word
    MaxNameWords,   \* MAX_NAME_WORDS
    Particles,      \* suffixes that may follow a hangul name, as sequences of letters
    Latin           \* letters of hangul tokens that are not hangul

ASSUME TextTagsAssumption == MaxNameWords \in Nat /\ \A p \in Particles : Len(p) > 0

----------------------------------------------------------------------------
(* The index.                                                              *)

(* The length of a name with its spaces.                                   *)
JoinedLength(words) == FoldLeft(LAMBDA n, w : n + Length[w], Len(words) - 1, words)

(* A Korean one-word name in capitals must be found as written, and so     *)
(* must a short curated one.                                               *)
Exact(n) ==
    /\ ~n.hangul /\ n.caps
    /\ IF n.curated THEN JoinedLength(n.words) <= 5
       ELSE n.korean /\ Len(n.words) = 1 /\ JoinedLength(n.words) \in 3 .. 5

(* _index_name: what is too short or too common to be a name of its own,   *)
(* or only consists of numbers.                                            *)
Indexable(n) ==
    /\ n.words \notin StopNames
    /\ IF n.hangul
       THEN n.curated \/ Len(n.words) >= 3
       ELSE /\ Len(n.words) \in 1 .. MaxNameWords
            /\ \/ n.curated \/ Len(n.words) > 1 \/ Exact(n)
               \/ Length[n.words[1]] >= 4 /\ n.words[1] \notin Common
            /\ n.curated \/ ~(ToSet(n.words) \subseteq Digits)

(* _rebuild: of the companies that share a collected ASCII name the first  *)
(* of the order keeps it.                                                  *)
Index(directory) ==
    LET names == {n \in directory : Indexable(n)} IN
    {n \in names : \/ n.hangul \/ n.curated
                   \/ \A o \in names : o.words = n.words /\ ~o.curated => n.rank <= o.rank}

Keys(directory) == {n.key : n \in directory}

----------------------------------------------------------------------------
(* tag.                                                                    *)

(* _is_title_case.                                                         *)
IsTitleCase(part) ==
    LET long    == {i \in DOMAIN part : Length[part[i].word] >= 4 /\ part[i].word \notin Digits}
        capital == {i \in long : part[i].form # "lower"} IN
    Cardinality(long) >= 3 /\ 100 * Cardinality(capital) >= 85 * Cardinality(long)

(* The n words from i on, when they can be one name.                       *)
Span(part, i, n) == [k \in 1 .. n |-> part[i + k - 1].word]
IsSpan(part, i, n) == \A k \in i + 1 .. i + n - 1 : part[k].joined

(* A name fits the words it is spelled with when these are in capitals     *)
(* where they have to be.                                                  *)
Fits(name, part, i) ==
    LET n == Len(name.words) IN
    /\ i + n - 1 <= Len(part)
    /\ IsSpan(part, i, n) /\ name.words = Span(part, i, n)
    /\ \A k \in i .. i + n - 1 : part[k].form \in IF Exact(name) THEN {"UPPER"} ELSE {"Title", "UPPER"}
    /\ (IsTitleCase(part) /\ n = 1) => name.curated \/ Exact(name)

(* The names found at each word, by length and company.                    *)
FitsAt(index, part) ==
    [i \in DOMAIN part |-> {<<Len(n.words), n.key>> : n \in {m \in index : ~m.hangul /\ Fits(m, part, i)}}]

(* At each word the longest name, then on behind it.                       *)
LongestFirst(fits) ==
    LET from[i \in 1 .. Len(fits) + MaxNameWords] ==
            LET longest == Max({f[1] : f \in fits[i]}) IN
            IF i > Len(fits) THEN {}
            ELSE IF fits[i] = {} THEN from[i + 1]
            ELSE {f[2] : f \in {g \in fits[i] : g[1] = longest}} \union from[i + longest]
    IN from[1]

(* _tag_ascii.                                                             *)
TagAscii(index, part) == LongestFirst(FitsAt(index, part))

(* hangul_suffix_ok: of the hangul that follows a name, one letter is      *)
(* taken for a particle, after a short name only if it is one.             *)
LeadingHangul(rest) ==
    SubSeq(rest, 1, Min({i \in DOMAIN rest : rest[i] \in Latin} \union {Len(rest) + 1}) - 1)
SuffixOk(rest, strict) ==
    LET run == LeadingHangul(rest) IN
    run = << >> \/ (Len(run) = 1 /\ ~strict) \/ run \in Particles

(* _tag_hangul: the longest beginning of a token that is a name.           *)
TagHangul(index, token) ==
    LET fits == {n \in index : /\ n.hangul /\ Len(n.words) >= 2 /\ IsPrefix(n.words, token)
                               /\ SuffixOk(SubSeq(token, Len(n.words) + 1, Len(token)), Len(n.words) <= 2)}
    IN {n.key : n \in {m \in fits : \A o \in fits : Len(o.words) <= Len(m.words)}}

(* tag: a symbol is tagged once, explicit references first.                *)
Tags(directory, text) ==
    LET index == Index(directory)
        refs  == text.refs \cap Keys(directory)
        found == TagAscii(index, text.title) \union TagAscii(index, text.summary)
                 \union UNION {TagHangul(index, token) : token \in text.tokens} IN
    (refs \X {"ref"}) \union ((found \ refs) \X {"dict"})

----------------------------------------------------------------------------
(* Retagging by change.                                                    *)

(* Mutant: the snapshot leaves out how a name has to be written.           *)
Snapshot_KeysOnly(directory) == {<<n.words, n.key>> : n \in Index(directory)}

(* snapshot: what decides about the tags of a name.                        *)
Snapshot(directory) ==
    LET index == Index(directory) IN
    {<<n.words, n.key>> : n \in {m \in index : m.hangul}}
    \union {<<n.words, n.key, n.caps, Exact(n), n.curated>> : n \in {m \in index : ~m.hangul}}

(* changes_since.                                                          *)
ChangedNames(old, new) ==
    LET a == Snapshot(old) b == Snapshot(new) IN {entry[1] : entry \in (a \ b) \union (b \ a)}
ChangedCodes(old, new) ==
    LET a == Keys(old) b == Keys(new) IN (a \ b) \union (b \ a)

(* _candidate_terms: the longest word of an ASCII name.                    *)
LongestWord(words) ==
    words[Min({i \in DOMAIN words : \A k \in DOMAIN words : Length[words[k]] <= Length[words[i]]})]

(* What the full text search finds: the letters of a hangul name anywhere  *)
(* in a token, the word of an ASCII name; the codes as references or as    *)
(* tags the article has.                                                   *)
IsCandidate(old, new, text) ==
    LET names == ChangedNames(old, new)
        codes == ChangedCodes(old, new)
        words == {text.title[i].word : i \in DOMAIN text.title}
                 \union {text.summary[i].word : i \in DOMAIN text.summary} IN
    \/ \E name \in names :
          IF name[1] \in DOMAIN Length THEN LongestWord(name) \in words
          ELSE \E token \in text.tokens : \E i \in DOMAIN token : IsPrefix(name, SubSeq(token, i, Len(token)))
    \/ codes \cap text.refs # {}
    \/ codes \cap {t[1] : t \in Tags(old, text)} # {}

(* The docstring of retag_changed: looking at the candidates only gives    *)
(* the same result as tagging every article again, though names overlap,   *)
(* hide one another and are shared.                                        *)
SelectsAll(old, new, text) == Tags(old, text) # Tags(new, text) => IsCandidate(old, new, text)
=============================================================================
