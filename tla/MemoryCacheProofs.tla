-------------------------- MODULE MemoryCacheProofs --------------------------
(***************************************************************************)
(* The cache of upstream answers implements a single-flight cache and      *)
(* never answers with what has outlived its lifetime, for every set of     *)
(* callers and keys, all lifetimes and every size.                         *)
(***************************************************************************)
EXTENDS MemoryCache, SequenceTheorems, TLAPS

Entry == [key: Keys, value: Values, expires: 0 .. MaxTick + TTL]

Unique(d) == \A i, j \in DOMAIN d : d[i].key = d[j].key => i = j

IsCache(d) == d \in Seq(Entry) /\ Unique(d) /\ Len(d) <= MaxEntries

(* An entry that can be in a cache at all outlives neither its last load   *)
(* nor, if it is a missing report, the shorter lifetime of these.          *)
Fresh(e, loads, clock) ==
    /\ Lifetime(e.value) > 0
    /\ \E t \in 0 .. clock : <<e.value, t>> \in loads /\ e.expires <= t + Lifetime(e.value)

EntriesFresh == \A e \in Range(data) : Fresh(e, loaded[e.key], now)

IInv == TypeOK /\ EntriesFresh

----------------------------------------------------------------------------
(* Sequences of entries, seen as sets.                                     *)

LEMMA RemovedAt ==
    ASSUME NEW S, NEW d \in Seq(S), NEW i \in 1 .. Len(d)
    PROVE  /\ RemoveAt(d, i) \in Seq(S) /\ Len(RemoveAt(d, i)) = Len(d) - 1
           /\ \A j \in 1 .. Len(d) - 1 : RemoveAt(d, i)[j] = IF j < i THEN d[j] ELSE d[j + 1]
<1> DEFINE a == SubSeq(d, 1, i - 1)
           b == SubSeq(d, i + 1, Len(d))
<1>1. a \in Seq(S) /\ Len(a) = i - 1 /\ \A j \in 1 .. i - 1 : a[j] = d[j]
  BY SubSeqProperties
<1>2. b \in Seq(S) /\ Len(b) = Len(d) - i /\ \A j \in 1 .. Len(d) - i : b[j] = d[i + j]
  BY SubSeqProperties
<1>3. RemoveAt(d, i) = a \o b
  BY DEF RemoveAt
<1> HIDE DEF a, b
<1>4. a \o b \in Seq(S) /\ Len(a \o b) = Len(a) + Len(b)
  BY <1>1, <1>2, ConcatProperties
<1>5. \A j \in 1 .. Len(d) - 1 : (a \o b)[j] = IF j < i THEN d[j] ELSE d[j + 1]
  BY <1>1, <1>2
<1>6. Len(a) + Len(b) = Len(d) - 1
  BY <1>1, <1>2
<1>7. QED BY <1>3, <1>4, <1>5, <1>6

LEMMA WithoutKey ==
    ASSUME NEW d \in Seq(Entry), Unique(d), NEW k
    PROVE  LET r == Without(d, k) IN
           /\ r \in Seq(Entry) /\ Unique(r)
           /\ Range(r) = {e \in Range(d) : e.key # k}
           /\ Len(r) = IF \E e \in Range(d) : e.key = k THEN Len(d) - 1 ELSE Len(d)
<1> DEFINE places == {i \in DOMAIN d : d[i].key = k}
           r == Without(d, k)
<1>1. CASE places = {}
  BY <1>1 DEF Without, Range
<1>2. CASE places # {}
  <2> DEFINE i == TheOnly(places)
  <2>1. i \in places
    BY <1>2 DEF TheOnly
  <2>2. r = RemoveAt(d, i)
    BY <1>2 DEF Without
  <2> HIDE DEF r, i
  <2>3. i \in 1 .. Len(d) /\ d[i].key = k /\ \A j \in 1 .. Len(d) : j # i => d[j].key # k
    BY <2>1 DEF Unique
  <2>4. /\ r \in Seq(Entry) /\ Len(r) = Len(d) - 1
        /\ \A j \in 1 .. Len(d) - 1 : r[j] = IF j < i THEN d[j] ELSE d[j + 1]
    BY <2>2, <2>3, RemovedAt
  <2>5. \A j \in DOMAIN r : \E l \in DOMAIN d \ {i} : r[j] = d[l]
    BY <2>3, <2>4
  <2>6. \A l \in DOMAIN d \ {i} : \E j \in DOMAIN r : r[j] = d[l]
    <3> SUFFICES ASSUME NEW l \in 1 .. Len(d), l # i PROVE \E j \in DOMAIN r : r[j] = d[l]
      OBVIOUS
    <3>1. CASE l < i
      BY <2>3, <2>4, <3>1
    <3>2. CASE l > i
      <4>1. l - 1 \in 1 .. Len(d) - 1 /\ ~ (l - 1 < i)
        BY <2>3, <3>2
      <4>2. r[l - 1] = d[l]
        BY <2>4, <4>1
      <4>3. QED BY <2>4, <4>1, <4>2
    <3>3. QED BY <2>3, <3>1, <3>2
  <2>7. Unique(r)
    <3> SUFFICES ASSUME NEW j \in 1 .. Len(d) - 1, NEW l \in 1 .. Len(d) - 1, r[j].key = r[l].key
                 PROVE  j = l
      BY <2>4 DEF Unique
    <3> DEFINE from(m) == IF m < i THEN m ELSE m + 1
    <3>1. from(j) \in 1 .. Len(d) /\ from(l) \in 1 .. Len(d)
      BY <2>3
    <3>2. r[j] = d[from(j)] /\ r[l] = d[from(l)]
      BY <2>4
    <3>3. from(j) = from(l)
      <4> HIDE DEF from
      <4>1. QED BY <3>1, <3>2 DEF Unique
    <3>4. QED BY <2>3, <3>3
  <2>8. Range(r) = {e \in Range(d) : e.key # k}
    BY <2>3, <2>5, <2>6 DEF Range
  <2>9. \E e \in Range(d) : e.key = k
    BY <2>3 DEF Range
  <2>10. QED BY <2>4, <2>7, <2>8, <2>9 DEF r
<1>3. QED BY <1>1, <1>2

LEMMA Appended ==
    ASSUME NEW d \in Seq(Entry), Unique(d), NEW e \in Entry, \A x \in Range(d) : x.key # e.key
    PROVE  LET r == Append(d, e) IN
           r \in Seq(Entry) /\ Unique(r) /\ Range(r) = Range(d) \union {e} /\ Len(r) = Len(d) + 1
<1> DEFINE r == Append(d, e)
<1>1. /\ r \in Seq(Entry) /\ Len(r) = Len(d) + 1 /\ r[Len(d) + 1] = e
      /\ \A i \in 1 .. Len(d) : r[i] = d[i]
  OBVIOUS
<1> HIDE DEF r
<1>2. \A i \in 1 .. Len(d) : d[i].key # e.key
  BY DEF Range
<1>3. Unique(r)
  BY <1>1, <1>2 DEF Unique
<1>4. Range(r) = Range(d) \union {e}
  BY <1>1 DEF Range
<1>5. QED BY <1>1, <1>3, <1>4 DEF r

LEMMA Suffix ==
    ASSUME NEW d \in Seq(Entry), Unique(d), NEW m \in 1 .. Len(d) + 1
    PROVE  LET r == SubSeq(d, m, Len(d)) IN
           r \in Seq(Entry) /\ Unique(r) /\ Range(r) \subseteq Range(d) /\ Len(r) = Len(d) - m + 1
<1> DEFINE r == SubSeq(d, m, Len(d))
<1>1. r \in Seq(Entry) /\ Len(r) = Len(d) - m + 1 /\ \A i \in 1 .. Len(r) : r[i] = d[m + i - 1]
  BY SubSeqProperties
<1> HIDE DEF r
<1>2. \A i \in 1 .. Len(r) : m + i - 1 \in 1 .. Len(d)
  BY <1>1
<1>3. Unique(r)
  <2> SUFFICES ASSUME NEW i \in 1 .. Len(r), NEW j \in 1 .. Len(r), r[i].key = r[j].key
               PROVE  i = j
    <3>1. DOMAIN r = 1 .. Len(r)
      BY <1>1
    <3>2. QED BY <3>1 DEF Unique
  <2>1. d[m + i - 1].key = d[m + j - 1].key
    BY <1>1
  <2>2. m + i - 1 \in DOMAIN d /\ m + j - 1 \in DOMAIN d
    BY <1>2
  <2>3. m + i - 1 = m + j - 1
    BY ONLY <2>1, <2>2, Unique(d) DEF Unique
  <2>4. i \in Int /\ j \in Int
    BY <1>1
  <2>5. QED BY <2>3, <2>4
<1>4. Range(r) \subseteq Range(d)
  BY <1>1, <1>2 DEF Range
<1>5. QED BY <1>1, <1>3, <1>4 DEF r

----------------------------------------------------------------------------
(* _get and _set.                                                          *)

LEMMA OnlyOne == ASSUME NEW d, Unique(d), NEW e \in Range(d), NEW f \in Range(d), e.key = f.key
                 PROVE  e = f
BY DEF Unique, Range

(* A hit moves the entry to the end; only what has expired goes.           *)
LEMMA GetKeeps ==
    ASSUME IsCache(data), NEW k \in Keys
    PROVE  /\ IsCache(_get(k))
           /\ Range(_get(k)) \subseteq Range(data)
           /\ \A e \in Range(data) \ Range(_get(k)) : ~Alive(e)
           /\ Live(k) # {} => TheOnly(Live(k)) \in Live(k)
<1> DEFINE r == Without(data, k)
<1>1. /\ r \in Seq(Entry) /\ Unique(r)
      /\ Range(r) = {e \in Range(data) : e.key # k}
      /\ Len(r) = IF \E e \in Range(data) : e.key = k THEN Len(data) - 1 ELSE Len(data)
  BY WithoutKey DEF IsCache
<1>2. Len(data) \in Nat /\ Len(data) <= MaxEntries /\ MaxEntries \in Nat /\ Len(r) <= Len(data)
  BY <1>1, ConstantsAssumption DEF IsCache
<1> HIDE DEF r
<1>3. CASE Live(k) = {}
  <2>1. _get(k) = r
    BY <1>3 DEF _get, r
  <2>2. \A e \in Range(data) \ Range(r) : ~Alive(e)
    BY <1>1, <1>3 DEF Live, Entries
  <2>3. Len(r) <= MaxEntries /\ Range(r) \subseteq Range(data)
    BY <1>1, <1>2
  <2>4. QED BY <1>1, <1>3, <2>1, <2>2, <2>3 DEF IsCache
<1>4. CASE Live(k) # {}
  <2> DEFINE e == TheOnly(Live(k))
  <2>1. e \in Live(k)
    BY <1>4 DEF TheOnly
  <2>2. e \in Range(data) /\ e.key = k /\ Alive(e)
    BY <2>1 DEF Live, Entries
  <2>3. e \in Entry
    BY <2>2 DEF IsCache, Range
  <2>4. _get(k) = Append(r, e)
    BY <1>4 DEF _get, r
  <2> HIDE DEF e
  <2>5. \A x \in Range(r) : x.key # e.key
    BY <1>1, <2>2
  <2>6. /\ _get(k) \in Seq(Entry) /\ Unique(_get(k))
        /\ Range(_get(k)) = Range(r) \union {e} /\ Len(_get(k)) = Len(r) + 1
    BY <1>1, <2>3, <2>4, <2>5, Appended
  <2>7. Range(_get(k)) = Range(data)
    <3>1. \A x \in Range(data) : x.key = k => x = e
      BY <2>2, OnlyOne DEF IsCache
    <3>2. QED BY <1>1, <2>2, <2>6, <3>1
  <2>8. Len(r) = Len(data) - 1
    BY <1>1, <2>2
  <2>9. Len(_get(k)) <= MaxEntries
    BY <1>2, <2>6, <2>8
  <2>10. QED BY <2>1, <2>6, <2>7, <2>9 DEF IsCache, e
<1>5. QED BY <1>3, <1>4

(* A value that is stored replaces what there was of its key.              *)
LEMMA SetKeeps ==
    ASSUME IsCache(data), now \in 0 .. MaxTick, NEW k \in Keys, NEW v \in Values
    PROVE  LET new == [key |-> k, value |-> v, expires |-> now + Lifetime(v)] IN
           /\ IsCache(_set(k, v))
           /\ Lifetime(v) \in 0 .. TTL
           /\ Range(_set(k, v)) \subseteq Range(data) \union {new}
           /\ \A e \in Range(_set(k, v)) :
                 e.key = k => (e = new /\ Lifetime(v) > 0) \/ (e \in Range(data) /\ Lifetime(v) = 0)
<1> DEFINE ttl   == IF v = Missing THEN MissingTTL ELSE TTL
           new   == [key |-> k, value |-> v, expires |-> now + Lifetime(v)]
           r     == Without(data, k)
           added == Append(r, new)
           m     == Max({1, Len(added) - MaxEntries + 1})
<1>1. ttl = Lifetime(v) /\ ttl \in 0 .. TTL /\ TTL \in Nat /\ MaxTick \in Nat /\ MaxEntries \in Nat
  BY ConstantsAssumption DEF Lifetime
<1>2. CASE ttl = 0 \/ MaxEntries = 0
  <2>1. _set(k, v) = data
    BY <1>2 DEF _set
  <2>2. MaxEntries = 0 => Range(data) = {}
    <3>1. Len(data) \in Nat /\ DOMAIN data = 1 .. Len(data) /\ Len(data) <= MaxEntries
      BY DEF IsCache
    <3>2. MaxEntries = 0 => DOMAIN data = {}
      BY <3>1
    <3>3. QED BY <3>2 DEF Range
  <2>3. QED BY <1>1, <1>2, <2>1, <2>2
<1>3. CASE ttl # 0 /\ MaxEntries # 0
  <2>1. _set(k, v) = SubSeq(added, m, Len(added))
    BY <1>1, <1>3 DEF _set
  <2>2. new \in Entry /\ new.key = k
    BY <1>1 DEF Entry
  <2>3. /\ r \in Seq(Entry) /\ Unique(r)
        /\ Range(r) = {e \in Range(data) : e.key # k}
        /\ Len(r) <= Len(data)
    <3>1. Len(data) \in Nat
      BY DEF IsCache
    <3>2. QED BY <3>1, WithoutKey DEF IsCache
  <2> HIDE DEF new, r
  <2>4. added \in Seq(Entry) /\ Unique(added) /\ Range(added) = Range(r) \union {new}
        /\ Len(added) = Len(r) + 1
    BY <2>2, <2>3, Appended
  <2>5. Len(r) \in Nat /\ Len(r) <= MaxEntries
    <3>1. Len(data) \in Nat /\ Len(data) <= MaxEntries /\ Len(r) \in Nat
      BY <2>3 DEF IsCache
    <3>2. QED BY <1>1, <2>3, <3>1
  <2> HIDE DEF added
  <2>6. m \in {1, Len(added) - MaxEntries + 1} /\ m >= 1 /\ m >= Len(added) - MaxEntries + 1
    <3> DEFINE S == {1, Len(added) - MaxEntries + 1}
    <3>1. \E x \in S : \A y \in S : x >= y
      BY <1>1, <2>4, <2>5
    <3>2. QED BY <3>1 DEF Max
  <2>7. m \in 1 .. Len(added) + 1
    BY <1>1, <1>3, <2>4, <2>5, <2>6
  <2> HIDE DEF m
  <2>8. /\ _set(k, v) \in Seq(Entry) /\ Unique(_set(k, v)) /\ Range(_set(k, v)) \subseteq Range(added)
        /\ Len(_set(k, v)) = Len(added) - m + 1
    BY <2>1, <2>4, <2>7, Suffix
  <2>9. Len(_set(k, v)) <= MaxEntries
    BY <1>1, <2>4, <2>5, <2>6, <2>7, <2>8
  <2>10. Range(_set(k, v)) \subseteq {e \in Range(data) : e.key # k} \union {new}
    BY <2>3, <2>4, <2>8
  <2>11. QED BY <1>1, <1>3, <2>8, <2>9, <2>10 DEF IsCache, new
<1>4. QED BY <1>2, <1>3

----------------------------------------------------------------------------
(* The inductive invariant.                                                *)

LEMMA Calls ==
    /\ Idle \in Call /\ Idle.phase = "idle"
    /\ \A k \in Keys : /\ Leading(k) \in Call /\ Waiting(k) \in Call
                       /\ \A r \in Values \union Errors : Answered(k, r) \in Call
    /\ \A k, l : /\ Leading(k).phase = "leading" /\ Waiting(k).phase = "waiting"
                 /\ Leading(k) = Leading(l) => k = l
    /\ \A k, r : /\ Answered(k, r).phase = "answered"
                 /\ Answered(k, r).key = k /\ Answered(k, r).result = r
<1>1. /\ Idle \in Call
      /\ \A k \in Keys : /\ Leading(k) \in Call /\ Waiting(k) \in Call
                         /\ \A r \in Values \union Errors : Answered(k, r) \in Call
  BY DEF Call
<1>2. Idle.phase = "idle" /\ \A k : Leading(k).phase = "leading" /\ Waiting(k).phase = "waiting"
  BY DEF Idle, Leading, Waiting
<1>3. \A k : Leading(k).key = k
  BY DEF Leading
<1>4. \A k, l : Leading(k) = Leading(l) => k = l
  <2> SUFFICES ASSUME NEW k, NEW l, Leading(k) = Leading(l) PROVE k = l
    OBVIOUS
  <2>1. Leading(k).key = k /\ Leading(l).key = l
    BY <1>3
  <2>2. QED BY <2>1
<1>5. \A k, r : /\ Answered(k, r).phase = "answered"
                /\ Answered(k, r).key = k /\ Answered(k, r).result = r
  BY DEF Answered
<1>6. QED BY <1>1, <1>2, <1>4, <1>5

LEMMA CacheTyped == TypeOK => IsCache(data)
BY DEF TypeOK, IsCache, Entry, Unique

LEMMA EntryTyped == ASSUME TypeOK, NEW e \in Range(data)
                    PROVE  e \in Entry /\ e.key \in Keys /\ e.value \in Values
<1>1. data \in Seq(Entry)
  BY DEF TypeOK, Entry
<1>2. e \in Entry
  BY <1>1 DEF Range
<1>3. QED BY <1>2 DEF Entry

LEMMA InitIInv == Init => IInv
<1> SUFFICES ASSUME Init PROVE IInv
  OBVIOUS
<1>1. TypeOK
  <2>1. \A k \in Keys, c \in Callers : inflight[k] = c <=> call[c] = Leading(k)
    BY Calls, ConstantsAssumption DEF Init
  <2>2. QED BY <2>1, Calls, ConstantsAssumption DEF Init, TypeOK
<1>2. EntriesFresh
  BY DEF Init, EntriesFresh, Range
<1>3. QED BY <1>1, <1>2 DEF IInv

LEMMA GetOrLoadStep ==
    ASSUME IInv, NEW c \in Callers, NEW k \in Keys, get_or_load(c, k) PROVE IInv'
<1>1. IsCache(data) /\ call[c] = Idle /\ data' = _get(k) /\ UNCHANGED <<now, loaded>>
  BY CacheTyped DEF IInv, get_or_load
<1>2. /\ IsCache(data') /\ Range(data') \subseteq Range(data)
      /\ Live(k) # {} => TheOnly(Live(k)) \in Live(k)
  BY <1>1, GetKeeps
<1>3. EntriesFresh'
  BY <1>1, <1>2 DEF IInv, EntriesFresh
<1>4. /\ inflight \in [Keys -> Callers \union {NoCaller}] /\ call \in [Callers -> Call]
      /\ \A l \in Keys, d \in Callers : inflight[l] = d <=> call[d] = Leading(l)
      /\ \A l \in Keys : inflight[l] # c
      /\ NoCaller \notin Callers
  BY <1>1, Calls, ConstantsAssumption DEF IInv, TypeOK
<1>5. /\ inflight' \in [Keys -> Callers \union {NoCaller}] /\ call' \in [Callers -> Call]
      /\ \A l \in Keys, d \in Callers : inflight'[l] = d <=> call'[d] = Leading(l)
  <2>1. CASE Live(k) # {} /\ call' = [call EXCEPT ![c] = Answered(k, TheOnly(Live(k)).value)] /\ UNCHANGED inflight
    <3> DEFINE v == TheOnly(Live(k)).value
    <3>1. v \in Values
      BY <1>2, <2>1, EntryTyped DEF IInv, Live, Entries
    <3> HIDE DEF v
    <3>2. Answered(k, v) \in Call /\ \A l : Answered(k, v) # Leading(l)
      BY <3>1, Calls
    <3>3. call' = [call EXCEPT ![c] = Answered(k, v)]
      BY <2>1 DEF v
    <3>4. QED BY <1>4, <2>1, <3>2, <3>3
  <2>2. CASE call' = [call EXCEPT ![c] = Waiting(k)] /\ UNCHANGED inflight
    <3>1. Waiting(k) \in Call /\ \A l : Waiting(k) # Leading(l)
      BY Calls
    <3>2. QED BY <1>4, <2>2, <3>1
  <2>3. CASE /\ inflight[k] = NoCaller /\ inflight' = [inflight EXCEPT ![k] = c]
             /\ call' = [call EXCEPT ![c] = Leading(k)]
    <3>1. Leading(k) \in Call /\ \A l : Leading(k) = Leading(l) => k = l
      BY Calls
    <3>2. QED BY <1>4, <2>3, <3>1
  <2>4. QED BY <2>1, <2>2, <2>3 DEF get_or_load
<1>6. TypeOK'
  BY <1>1, <1>2, <1>5 DEF IInv, TypeOK, IsCache, Entry, Unique
<1>7. QED BY <1>3, <1>6 DEF IInv

(* The answers that the end of a load hands out.                           *)
LEMMA ResolveStep ==
    ASSUME TypeOK, NEW k \in Keys, NEW r \in Values \union Errors, Resolve(k, r)
    PROVE  /\ inflight' \in [Keys -> Callers \union {NoCaller}] /\ call' \in [Callers -> Call]
           /\ \A l \in Keys, d \in Callers : inflight'[l] = d <=> call'[d] = Leading(l)
<1>1. /\ inflight' = [inflight EXCEPT ![k] = NoCaller]
      /\ call' = [c \in Callers |-> IF call[c] \in {Leading(k), Waiting(k)}
                                    THEN Answered(k, r) ELSE call[c]]
  BY DEF Resolve
<1>2. /\ inflight \in [Keys -> Callers \union {NoCaller}] /\ call \in [Callers -> Call]
      /\ \A l \in Keys, d \in Callers : inflight[l] = d <=> call[d] = Leading(l)
      /\ NoCaller \notin Callers
  BY ConstantsAssumption DEF TypeOK
<1>3. /\ Answered(k, r) \in Call /\ \A l : Answered(k, r) # Leading(l)
      /\ \A l : Waiting(k) # Leading(l) /\ (Leading(k) = Leading(l) => k = l)
  BY Calls
<1>4. QED BY <1>1, <1>2, <1>3

LEMMA LoadedStep ==
    ASSUME IInv, NEW k \in Keys, NEW v \in Values, Loaded(k, v) PROVE IInv'
<1> DEFINE new == [key |-> k, value |-> v, expires |-> now + Lifetime(v)]
           loads == {l \in loaded[k] : l[1] # v} \union {<<v, now>>}
<1>1. /\ IsCache(data) /\ now \in 0 .. MaxTick /\ loaded \in [Keys -> SUBSET (Values \X (0 .. MaxTick))]
      /\ data' = _set(k, v) /\ Resolve(k, v)
      /\ loaded' = [loaded EXCEPT ![k] = loads] /\ UNCHANGED now
  BY CacheTyped DEF IInv, TypeOK, Loaded
<1>2. /\ IsCache(data') /\ Lifetime(v) \in Nat
      /\ Range(data') \subseteq Range(data) \union {new}
      /\ \A e \in Range(data') :
            e.key = k => (e = new /\ Lifetime(v) > 0) \/ (e \in Range(data) /\ Lifetime(v) = 0)
  BY <1>1, SetKeeps, ConstantsAssumption
<1>3. /\ loaded' \in [Keys -> SUBSET (Values \X (0 .. MaxTick))]
      /\ loaded'[k] = loads /\ \A l \in Keys \ {k} : loaded'[l] = loaded[l]
  <2>1. loads \in SUBSET (Values \X (0 .. MaxTick))
    BY <1>1
  <2> HIDE DEF loads
  <2>2. QED BY <1>1, <2>1
<1>4. EntriesFresh'
  <2> SUFFICES ASSUME NEW e \in Range(data') PROVE Fresh(e, loaded'[e.key], now)
    BY <1>1 DEF EntriesFresh
  <2>1. CASE e.key = k /\ e = new /\ Lifetime(v) > 0
    <3>1. e.value = v /\ e.expires = now + Lifetime(v) /\ <<v, now>> \in loaded'[e.key] /\ now \in 0 .. now
      BY <1>1, <1>3, <2>1
    <3>2. e.expires <= now + Lifetime(v)
      BY <1>1, <1>2, <3>1
    <3>3. QED BY <2>1, <3>1, <3>2 DEF Fresh
  <2>2. CASE e.key = k /\ e \in Range(data) /\ Lifetime(v) = 0
    <3>1. Fresh(e, loaded[k], now)
      BY <2>2 DEF IInv, EntriesFresh
    <3>2. PICK t \in 0 .. now : <<e.value, t>> \in loaded[k] /\ e.expires <= t + Lifetime(e.value)
      BY <3>1 DEF Fresh
    <3>3. e.value # v
      BY <2>2, <3>1 DEF Fresh
    <3>4. <<e.value, t>> \in loads
      BY <3>2, <3>3
    <3>5. QED BY <1>3, <2>2, <3>1, <3>2, <3>4 DEF Fresh
  <2>3. CASE e.key # k
    <3>1. e \in Range(data)
      BY <1>2, <2>3
    <3>2. loaded'[e.key] = loaded[e.key]
      BY <1>3, <2>3, <3>1, EntryTyped DEF IInv
    <3>3. QED BY <3>1, <3>2 DEF IInv, EntriesFresh
  <2>4. QED BY <1>2, <2>1, <2>2, <2>3
<1>5. TypeOK'
  BY <1>1, <1>2, <1>3, ResolveStep DEF IInv, TypeOK, IsCache, Entry, Unique
<1>6. QED BY <1>4, <1>5 DEF IInv

LEMMA LoadFailsStep ==
    ASSUME IInv, NEW k \in Keys, NEW r \in Errors, LoadFails(k, r) PROVE IInv'
<1>1. Resolve(k, r) /\ UNCHANGED <<now, data, loaded>>
  BY DEF LoadFails
<1>2. EntriesFresh'
  BY <1>1 DEF IInv, EntriesFresh
<1>3. TypeOK'
  BY <1>1, ResolveStep DEF IInv, TypeOK
<1>4. QED BY <1>2, <1>3 DEF IInv

LEMMA EndStep ==
    ASSUME IInv, NEW c \in Callers, Return(c) \/ GiveUp(c) PROVE IInv'
<1>1. /\ call[c].phase \in {"answered", "waiting"} /\ call' = [call EXCEPT ![c] = Idle]
      /\ UNCHANGED <<now, data, inflight, loaded>>
  BY DEF Return, GiveUp
<1>2. EntriesFresh'
  BY <1>1 DEF IInv, EntriesFresh
<1>3. Idle \in Call /\ \A k : Idle # Leading(k) /\ call[c] # Leading(k)
  BY <1>1, Calls
<1>4. TypeOK'
  BY <1>1, <1>3 DEF IInv, TypeOK
<1>5. QED BY <1>2, <1>4 DEF IInv

LEMMA TickStep == ASSUME IInv, Tick PROVE IInv'
<1>1. now \in Nat /\ now' = now + 1 /\ now' \in 0 .. MaxTick /\ UNCHANGED <<data, inflight, call, loaded>>
  BY ConstantsAssumption DEF Tick, IInv, TypeOK
<1>2. EntriesFresh'
  BY <1>1 DEF IInv, EntriesFresh, Fresh
<1>3. TypeOK'
  BY <1>1 DEF IInv, TypeOK
<1>4. QED BY <1>2, <1>3 DEF IInv

LEMMA StepIInv == IInv /\ [Next]_vars => IInv'
<1> SUFFICES ASSUME IInv, [Next]_vars PROVE IInv'
  OBVIOUS
<1>1. CASE UNCHANGED vars
  BY <1>1 DEF vars, IInv, TypeOK, EntriesFresh
<1>2. CASE Next
  BY <1>2, GetOrLoadStep, LoadedStep, LoadFailsStep, EndStep, TickStep DEF Next
<1>3. QED BY <1>1, <1>2

THEOREM SpecIInv == Spec => []IInv
BY InitIInv, StepIInv, PTL DEF Spec

(* The cache stays within its bound with one entry per key, and a future   *)
(* is registered just while its owner loads.                               *)
THEOREM SpecTypeOK == Spec => []TypeOK
<1>1. IInv => TypeOK
  BY DEF IInv
<1>2. QED BY <1>1, SpecIInv, PTL

----------------------------------------------------------------------------
(* Answers.                                                                *)

(* get_or_load: what a caller gets was loaded for its key no longer ago    *)
(* than the lifetime of such a value, however often it has been asked for. *)
THEOREM SpecAnswersFresh == Spec => AnswersFresh
<1> DEFINE FreshAnswers ==
        \A c \in Callers :
           call'[c] # call[c] /\ call'[c].phase = "answered" /\ call'[c].result \in Values =>
               LET v == call'[c].result IN
               \E t \in 0 .. now : t + Lifetime(v) >= now /\ <<v, t>> \in loaded'[call'[c].key]
<1>1. ASSUME IInv, [Next]_vars PROVE FreshAnswers
  <2> SUFFICES ASSUME NEW c \in Callers, call'[c] # call[c],
                      call'[c].phase = "answered", call'[c].result \in Values
               PROVE  \E t \in 0 .. now : /\ t + Lifetime(call'[c].result) >= now
                                          /\ <<call'[c].result, t>> \in loaded'[call'[c].key]
    OBVIOUS
  <2>1. now \in 0 .. MaxTick /\ call \in [Callers -> Call] /\ loaded \in [Keys -> SUBSET (Values \X (0 .. MaxTick))]
    BY <1>1 DEF IInv, TypeOK
  <2>2. ASSUME NEW v \in Values PROVE Lifetime(v) \in Nat
    BY ConstantsAssumption DEF Lifetime
  <2>3. ASSUME NEW d \in Callers, NEW k \in Keys, get_or_load(d, k)
        PROVE  \E t \in 0 .. now : /\ t + Lifetime(call'[c].result) >= now
                                   /\ <<call'[c].result, t>> \in loaded'[call'[c].key]
    <3> DEFINE e == TheOnly(Live(k))
    <3>1. d = c /\ Live(k) # {} /\ call'[c] = Answered(k, e.value) /\ loaded' = loaded
      BY <2>1, <2>3, Calls DEF get_or_load
    <3>2. e \in Live(k)
      BY <3>1 DEF TheOnly
    <3> HIDE DEF e
    <3>3. e \in Range(data) /\ e.key = k /\ e.expires >= now
      BY <3>2 DEF Live, Entries, Alive
    <3>4. call'[c].key = k /\ call'[c].result = e.value
      BY <3>1, Calls
    <3>5. PICK t \in 0 .. now : <<e.value, t>> \in loaded[k] /\ e.expires <= t + Lifetime(e.value)
      BY <1>1, <3>3 DEF IInv, EntriesFresh, Fresh
    <3>6. e \in Entry /\ Lifetime(e.value) \in Nat /\ e.expires \in Nat
      BY <1>1, <2>2, <3>3, EntryTyped, ConstantsAssumption DEF IInv, Entry
    <3>7. t + Lifetime(e.value) >= now
      BY <2>1, <3>3, <3>5, <3>6
    <3>8. QED BY <3>1, <3>4, <3>5, <3>7
  <2>4. ASSUME NEW k \in Keys, NEW v \in Values, Loaded(k, v)
        PROVE  \E t \in 0 .. now : /\ t + Lifetime(call'[c].result) >= now
                                   /\ <<call'[c].result, t>> \in loaded'[call'[c].key]
    <3>1. call'[c] = Answered(k, v)
      BY <2>4 DEF Loaded, Resolve
    <3>2. call'[c].key = k /\ call'[c].result = v
      BY <3>1, Calls
    <3>3. <<v, now>> \in loaded'[k]
      BY <2>1, <2>4 DEF Loaded
    <3>4. now \in 0 .. now /\ now + Lifetime(v) >= now
      BY <2>1, <2>2
    <3>5. QED BY <3>2, <3>3, <3>4
  <2>5. ~ (\E k \in Keys, r \in Errors : LoadFails(k, r))
    <3> SUFFICES ASSUME NEW k \in Keys, NEW r \in Errors, LoadFails(k, r) PROVE FALSE
      OBVIOUS
    <3>1. call'[c] = Answered(k, r)
      BY DEF LoadFails, Resolve
    <3>2. call'[c].result = r
      BY <3>1, Calls
    <3>3. QED BY <3>2, ConstantsAssumption DEF Errors
  <2>6. ASSUME NEW d \in Callers PROVE ~ (Return(d) \/ GiveUp(d))
    <3> SUFFICES ASSUME Return(d) \/ GiveUp(d) PROVE FALSE
      OBVIOUS
    <3>1. call'[c] = Idle
      BY <2>1 DEF Return, GiveUp
    <3>2. QED BY <3>1, Calls
  <2>7. ~ (Tick \/ UNCHANGED vars)
    BY DEF Tick, vars
  <2>8. QED BY <1>1, <2>3, <2>4, <2>5, <2>6, <2>7 DEF Next
<1>2. QED BY <1>1, SpecIInv, PTL DEF Spec, AnswersFresh

----------------------------------------------------------------------------
(* The refinement.                                                         *)

(* Remembered as a function of the cache and of the clock.                 *)
LiveIn(d, t, k) == {e \in Range(d) : e.key = k /\ e.expires >= t}
RememberedIn(d, t) ==
    [k \in Keys |-> IF LiveIn(d, t, k) = {} THEN Nothing ELSE TheOnly(LiveIn(d, t, k)).value]

LEMMA RememberedIs ==
    /\ Remembered = RememberedIn(data, now)
    /\ \A k : Live(k) = LiveIn(data, now, k)
BY DEF Remembered, RememberedIn, Live, Entries, Alive, LiveIn

LEMMA RememberedNext == Remembered' = RememberedIn(data', now')
BY DEF Remembered, RememberedIn, Live, Entries, Alive, LiveIn

(* What is remembered of a key is the value of its live entry.             *)
LEMMA RememberedValue ==
    ASSUME NEW d, IsCache(d), NEW t, NEW k \in Keys
    PROVE  /\ RememberedIn(d, t)[k] \in Values \union {Nothing}
           /\ LiveIn(d, t, k) = {} <=> RememberedIn(d, t)[k] = Nothing
           /\ \A e \in LiveIn(d, t, k) : RememberedIn(d, t)[k] = e.value
<1>1. \A e \in Range(d) : e \in Entry
  BY DEF IsCache, Range
<1>2. \A e \in LiveIn(d, t, k) : e \in Range(d) /\ e.key = k /\ e.value \in Values
  BY <1>1 DEF LiveIn, Entry
<1>3. \A e, f \in LiveIn(d, t, k) : e = f
  BY <1>2, OnlyOne DEF IsCache
<1>4. Nothing \notin Values
  BY ConstantsAssumption
<1>5. CASE LiveIn(d, t, k) = {}
  BY <1>5 DEF RememberedIn
<1>6. CASE LiveIn(d, t, k) # {}
  <2>1. TheOnly(LiveIn(d, t, k)) \in LiveIn(d, t, k)
    BY <1>6 DEF TheOnly
  <2>2. RememberedIn(d, t)[k] = TheOnly(LiveIn(d, t, k)).value
    BY <1>6 DEF RememberedIn
  <2>3. QED BY <1>2, <1>3, <1>4, <1>6, <2>1, <2>2
<1>7. QED BY <1>5, <1>6

LEMMA RememberedTyped ==
    ASSUME NEW d, IsCache(d), NEW t
    PROVE  RememberedIn(d, t) \in [Keys -> Values \union {Nothing}]
<1>1. \A k \in Keys : RememberedIn(d, t)[k] \in Values \union {Nothing}
  BY RememberedValue
<1>2. RememberedIn(d, t) = [k \in Keys |-> RememberedIn(d, t)[k]]
  BY DEF RememberedIn
<1> HIDE DEF RememberedIn
<1>3. QED BY <1>1, <1>2

(* From one cache to the next, what is remembered of a key stays, goes, or *)
(* is the value of a new live entry.                                       *)
LEMMA RememberedChanges ==
    ASSUME NEW d, IsCache(d), NEW e, IsCache(e), NEW t \in Nat, NEW u \in Nat, t <= u,
           NEW k \in Keys, \A x \in Range(e) : x.key = k => x \in Range(d)
    PROVE  RememberedIn(e, u)[k] \in {RememberedIn(d, t)[k], Nothing}
<1>1. CASE LiveIn(e, u, k) = {}
  BY <1>1, RememberedValue
<1>2. CASE LiveIn(e, u, k) # {}
  <2>1. PICK x \in LiveIn(e, u, k) : TRUE
    BY <1>2
  <2>2. x \in Range(d) /\ x.key = k /\ x.expires >= u
    BY <2>1 DEF LiveIn
  <2>3. x.expires \in Int
    <3>1. x \in Entry
      BY <2>2 DEF IsCache, Range
    <3>2. QED BY <3>1, ConstantsAssumption DEF Entry
  <2>4. x \in LiveIn(d, t, k)
    BY <2>2, <2>3 DEF LiveIn
  <2>5. QED BY <2>1, <2>4, RememberedValue
<1>3. QED BY <1>1, <1>2

(* A call of get_or_load forgets nothing that is live: it hits, leads the  *)
(* load of its key, or joins it.                                           *)
LEMMA CallRefined ==
    ASSUME IInv, NEW c \in Callers, NEW k \in Keys, get_or_load(c, k)
    PROVE  Flight!Hit(c, k) \/ Flight!Lead(c, k) \/ Flight!Join(c, k)
<1>1. IsCache(data) /\ call[c] = Idle /\ data' = _get(k) /\ now' = now
  BY CacheTyped DEF IInv, get_or_load
<1>2. /\ Range(data') \subseteq Range(data) /\ \A e \in Range(data) \ Range(data') : ~Alive(e)
      /\ Live(k) # {} => TheOnly(Live(k)) \in Live(k)
  BY <1>1, GetKeeps
<1>3. Remembered' = Remembered
  <2>1. \A l : LiveIn(data', now', l) = LiveIn(data, now, l)
    BY <1>1, <1>2 DEF LiveIn, Alive
  <2>2. RememberedIn(data', now') = RememberedIn(data, now)
    BY <2>1 DEF RememberedIn
  <2>3. QED BY <2>2, RememberedIs, RememberedNext
<1>4. /\ Live(k) = {} <=> Remembered[k] = Nothing
      /\ \A e \in Live(k) : Remembered[k] = e.value
  BY <1>1, RememberedIs, RememberedValue
<1>5. CASE Live(k) # {} /\ call' = [call EXCEPT ![c] = Answered(k, TheOnly(Live(k)).value)] /\ UNCHANGED inflight
  <2>1. Remembered[k] = TheOnly(Live(k)).value
    BY <1>2, <1>4, <1>5
  <2>2. call' = [call EXCEPT ![c] = Answered(k, Remembered[k])]
    BY <1>5, <2>1
  <2>3. QED BY <1>1, <1>3, <1>4, <1>5, <2>2 DEF Flight!Hit, Flight!Idle, Idle, Flight!Answered, Answered
<1>6. CASE /\ Live(k) = {} /\ inflight[k] # NoCaller
           /\ call' = [call EXCEPT ![c] = Waiting(k)] /\ UNCHANGED inflight
  BY <1>1, <1>3, <1>4, <1>6 DEF Flight!Join, Flight!Idle, Idle, Flight!Waiting, Waiting
<1>7. CASE /\ Live(k) = {} /\ inflight[k] = NoCaller
           /\ inflight' = [inflight EXCEPT ![k] = c] /\ call' = [call EXCEPT ![c] = Leading(k)]
  BY <1>1, <1>3, <1>4, <1>7 DEF Flight!Lead, Flight!Idle, Idle, Flight!Leading, Leading
<1>8. QED BY <1>5, <1>6, <1>7 DEF get_or_load

(* A load ends for all that wait for it, whatever is stored or evicted.    *)
LEMMA LoadRefined ==
    ASSUME IInv, NEW k \in Keys, NEW r \in Values \union Errors,
           (Loaded(k, r) /\ r \in Values) \/ (LoadFails(k, r) /\ r \in Errors)
    PROVE  Flight!LoadEnds(k, r)
<1>1. inflight[k] # NoCaller /\ Resolve(k, r) /\ now' = now /\ IsCache(data) /\ now \in Nat
  BY CacheTyped DEF Loaded, LoadFails, IInv, TypeOK
<1>2. IsCache(data')
  <2>1. CASE Loaded(k, r) /\ r \in Values
    <3>1. data' = _set(k, r) /\ now \in 0 .. MaxTick
      BY <2>1 DEF Loaded, IInv, TypeOK
    <3>2. QED BY <1>1, <2>1, <3>1, SetKeeps
  <2>2. CASE LoadFails(k, r) /\ r \in Errors
    BY <1>1, <2>2 DEF LoadFails
  <2>3. QED BY <2>1, <2>2
<1> DEFINE new == [key |-> k, value |-> r, expires |-> now + Lifetime(r)]
<1>3. /\ \A x \in Range(data') : x \in Range(data) \/ x = new
      /\ r \in Errors => data' = data
  <2>1. CASE Loaded(k, r) /\ r \in Values
    <3>1. data' = _set(k, r) /\ now \in 0 .. MaxTick /\ r \notin Errors
      BY <2>1, ConstantsAssumption DEF Loaded, IInv, TypeOK, Errors
    <3>2. Range(data') \subseteq Range(data) \union {new}
      BY <1>1, <2>1, <3>1, SetKeeps
    <3>3. QED BY <3>1, <3>2
  <2>2. CASE LoadFails(k, r) /\ r \in Errors
    BY <2>2 DEF LoadFails
  <2>3. QED BY <2>1, <2>2
<1>4. new.key = k /\ new.value = r
  OBVIOUS
<1> HIDE DEF new
<1>5. \A l \in Keys : RememberedIn(data', now')[l]
          \in {RememberedIn(data, now)[l], Nothing} \union (IF l = k THEN {r} ELSE {})
  <2> SUFFICES ASSUME NEW l \in Keys
               PROVE  RememberedIn(data', now')[l]
                          \in {RememberedIn(data, now)[l], Nothing} \union (IF l = k THEN {r} ELSE {})
    OBVIOUS
  <2>1. CASE new \in LiveIn(data', now', l)
    <3>1. l = k /\ RememberedIn(data', now')[l] = r
      BY <1>2, <1>4, <2>1, RememberedValue DEF LiveIn
    <3>2. QED BY <3>1
  <2>2. CASE new \notin LiveIn(data', now', l)
    <3>1. CASE LiveIn(data', now', l) = {}
      BY <1>2, <3>1, RememberedValue
    <3>2. CASE LiveIn(data', now', l) # {}
      <4>1. PICK x \in LiveIn(data', now', l) : x # new
        BY <2>2, <3>2
      <4>2. x \in LiveIn(data, now, l)
        BY <1>1, <1>3, <4>1 DEF LiveIn
      <4>3. QED BY <1>1, <1>2, <4>1, <4>2, RememberedValue
    <3>3. QED BY <3>1, <3>2
  <2>3. QED BY <2>1, <2>2
<1>6. RememberedIn(data', now') \in [Keys -> Values \union {Nothing}]
  BY <1>2, RememberedTyped
<1>7. /\ Remembered' \in [Keys -> Values \union {Nothing}]
      /\ \A l \in Keys : Remembered'[l] \in {Remembered[l], Nothing} \union (IF l = k THEN {r} ELSE {})
  BY <1>5, <1>6, RememberedIs, RememberedNext
<1>8. QED
  BY <1>1, <1>7 DEF Flight!LoadEnds, Resolve, Flight!Leading, Leading, Flight!Waiting, Waiting,
                    Flight!Answered, Answered

LEMMA StepRefined == IInv /\ [Next]_vars => [Flight!Next]_(Flight!vars)
<1> SUFFICES ASSUME IInv, [Next]_vars PROVE [Flight!Next]_(Flight!vars)
  OBVIOUS
<1>1. CASE \E c \in Callers, k \in Keys : get_or_load(c, k)
  BY <1>1, CallRefined DEF Flight!Next
<1>2. CASE \/ \E k \in Keys, v \in Values : Loaded(k, v)
           \/ \E k \in Keys, r \in Errors : LoadFails(k, r)
  <2>1. PICK k \in Keys, r \in Values \union Errors :
                (Loaded(k, r) /\ r \in Values) \/ (LoadFails(k, r) /\ r \in Errors)
    BY <1>2
  <2>2. Flight!LoadEnds(k, r)
    BY <2>1, LoadRefined
  <2>3. QED BY <2>2 DEF Flight!Next
<1>3. CASE \E c \in Callers : Return(c) \/ GiveUp(c)
  <2>1. Remembered' = Remembered
    BY <1>3, RememberedIs, RememberedNext DEF Return, GiveUp
  <2>2. QED BY <1>3, <2>1 DEF Return, GiveUp, Flight!Next, Flight!Return, Flight!Idle, Idle
<1>4. CASE Tick
  <2>1. /\ IsCache(data) /\ data' = data /\ now \in Nat /\ now' = now + 1
        /\ UNCHANGED <<inflight, call>>
    BY <1>4, CacheTyped DEF Tick, IInv, TypeOK
  <2>2. \A k \in Keys : RememberedIn(data, now + 1)[k] \in {RememberedIn(data, now)[k], Nothing}
    <3>1. now + 1 \in Nat /\ now <= now + 1
      BY <2>1
    <3>2. QED BY <2>1, <3>1, RememberedChanges
  <2>3. RememberedIn(data, now + 1) \in [Keys -> Values \union {Nothing}]
    BY <2>1, RememberedTyped
  <2>4. Remembered = RememberedIn(data, now) /\ Remembered' = RememberedIn(data, now + 1)
    BY <2>1, RememberedIs, RememberedNext
  <2>5. QED BY <2>1, <2>2, <2>3, <2>4 DEF Flight!Next, Flight!Forget
<1>5. CASE UNCHANGED vars
  <2>1. Remembered' = Remembered
    BY <1>5, RememberedIs, RememberedNext DEF vars
  <2>2. QED BY <1>5, <2>1 DEF vars, Flight!vars
<1>6. QED BY <1>1, <1>2, <1>3, <1>4, <1>5 DEF Next

LEMMA InitRefined == Init => Flight!Init
<1> SUFFICES ASSUME Init PROVE Flight!Init
  OBVIOUS
<1>1. \A k : Live(k) = {}
  BY DEF Init, Live, Entries, Range
<1>2. Remembered = [k \in Keys |-> Nothing]
  BY <1>1 DEF Remembered
<1>3. QED BY <1>2 DEF Init, Flight!Init, Flight!Idle, Idle

(* The cache is a single-flight cache: one load of a key at a time, whose  *)
(* outcome all who ask meanwhile share, and nothing is answered that was   *)
(* not loaded.                                                             *)
THEOREM SpecImplementsSingleFlight == Spec => ImplementsSingleFlight
BY InitRefined, StepRefined, SpecIInv, PTL DEF Spec, ImplementsSingleFlight, Flight!Spec
=============================================================================
