---------------------------- MODULE MemoryCache -----------------------------
(***************************************************************************)
(* newsserver/financials/cache.py: the in-memory cache of upstream answers *)
(* with a time to live, a shorter one for "no such report", a bound on the *)
(* number of entries (least recently used first) and single flight.        *)
(* Between two awaits a coroutine runs alone, so get_or_load is two steps: *)
(* up to the await of the loader or of the shared future, and after it.    *)
(*                                                                         *)
(* Abstractions: time is a small counter; a loader may come back with any  *)
(* value, "no such report" (None) among them, or fail.                     *)
(***************************************************************************)
EXTENDS Naturals, SequencesExt, FiniteSetsExt

CONSTANTS
    Callers,    \* the coroutines that call get_or_load
    Keys,       \* cache keys
    NoCaller,   \* nobody
    NoKey,      \* the key of a caller that asks for nothing
    Nothing,    \* no value
    Values,     \* what a loader returns
    Missing,    \* the one of them that is None
    Failed,     \* a loader's exception
    Cancelled,  \* the cancellation of the caller that loads
    TTL,        \* ttl_sec
    MissingTTL, \* missing_ttl
    MaxEntries, \* max_entries
    MaxTick     \* bound: the clock

ASSUME ConstantsAssumption ==
    /\ NoCaller \notin Callers /\ NoKey \notin Keys
    /\ Missing \in Values /\ {Nothing, Failed, Cancelled} \intersect Values = {}
    /\ TTL \in Nat /\ MissingTTL \in 0 .. TTL
    /\ MaxEntries \in Nat /\ MaxTick \in Nat

VARIABLES
    now,        \* time.monotonic()
    data,       \* MemoryCache._data, the least recently used entry first
    inflight,   \* MemoryCache._inflight: the caller that owns the future
    call,       \* the calls of get_or_load
    loaded      \* history: when a value was last loaded for a key

vars == <<now, data, inflight, call, loaded>>

Errors == {Failed, Cancelled}

Idle           == [phase |-> "idle", key |-> NoKey, result |-> Nothing]
Leading(k)     == [phase |-> "leading", key |-> k, result |-> Nothing]
Waiting(k)     == [phase |-> "waiting", key |-> k, result |-> Nothing]
Answered(k, r) == [phase |-> "answered", key |-> k, result |-> r]

Call ==
    {Idle} \union {Leading(k) : k \in Keys} \union {Waiting(k) : k \in Keys}
           \union {Answered(k, r) : k \in Keys, r \in Values \union Errors}

(* The cache stays within its bound with one entry per key, and a future   *)
(* is registered just while its owner loads.                               *)
TypeOK ==
    /\ now \in 0 .. MaxTick
    /\ data \in Seq([key: Keys, value: Values, expires: 0 .. MaxTick + TTL])
    /\ Len(data) <= MaxEntries
    /\ \A i, j \in DOMAIN data : data[i].key = data[j].key => i = j
    /\ inflight \in [Keys -> Callers \union {NoCaller}]
    /\ call \in [Callers -> Call]
    /\ loaded \in [Keys -> SUBSET (Values \X (0 .. MaxTick))]
    /\ \A k \in Keys, c \in Callers : inflight[k] = c <=> call[c] = Leading(k)

Init ==
    /\ now = 0
    /\ data = << >>
    /\ inflight = [k \in Keys |-> NoCaller]
    /\ call = [c \in Callers |-> Idle]
    /\ loaded = [k \in Keys |-> {}]

----------------------------------------------------------------------------
Entries(k) == {e \in Range(data) : e.key = k}
Alive(e)   == e.expires >= now
Live(k)    == {e \in Entries(k) : Alive(e)}
TheOnly(S) == CHOOSE e \in S : TRUE

Without(d, k) ==
    LET places == {i \in DOMAIN d : d[i].key = k} IN
    IF places = {} THEN d ELSE RemoveAt(d, TheOnly(places))

(* Mutant: a hit renews the entry.                                         *)
_get_Renews(k) ==
    IF Live(k) = {} THEN Without(data, k)
    ELSE Append(Without(data, k), [TheOnly(Live(k)) EXCEPT !.expires = now + TTL])

(* _get: an expired entry is removed, a live one becomes the last to be    *)
(* evicted.                                                                *)
_get(k) ==
    IF Live(k) = {} THEN Without(data, k)
    ELSE Append(Without(data, k), TheOnly(Live(k)))

(* Mutant: the oldest entry is evicted before the new one is added.        *)
_set_EvictsTooEarly(k, v) ==
    LET ttl     == IF v = Missing THEN MissingTTL ELSE TTL
        trimmed == IF Len(data) > MaxEntries THEN Tail(data) ELSE data IN
    IF ttl = 0 \/ MaxEntries = 0 THEN data
    ELSE Append(Without(trimmed, k), [key |-> k, value |-> v, expires |-> now + ttl])

(* _set: a lifetime of zero stores nothing; the oldest entries go first.   *)
_set(k, v) ==
    LET ttl   == IF v = Missing THEN MissingTTL ELSE TTL
        added == Append(Without(data, k), [key |-> k, value |-> v, expires |-> now + ttl]) IN
    IF ttl = 0 \/ MaxEntries = 0 THEN data
    ELSE SubSeq(added, Max({1, Len(added) - MaxEntries + 1}), Len(added))

(* Mutant: calls during a load start another one.                          *)
get_or_load_NoSharing(c, k) ==
    /\ call[c] = Idle
    /\ data' = _get(k)
    /\ \/ /\ Live(k) # {}
          /\ call' = [call EXCEPT ![c] = Answered(k, TheOnly(Live(k)).value)]
          /\ UNCHANGED inflight
       \/ /\ Live(k) = {}
          /\ inflight' = [inflight EXCEPT ![k] = c]
          /\ call' = [call EXCEPT ![c] = Leading(k)]
    /\ UNCHANGED <<now, loaded>>

(* get_or_load up to its await.                                            *)
get_or_load(c, k) ==
    /\ call[c] = Idle
    /\ data' = _get(k)
    /\ \/ /\ Live(k) # {}
          /\ call' = [call EXCEPT ![c] = Answered(k, TheOnly(Live(k)).value)]
          /\ UNCHANGED inflight
       \/ /\ Live(k) = {} /\ inflight[k] # NoCaller
          /\ call' = [call EXCEPT ![c] = Waiting(k)]
          /\ UNCHANGED inflight
       \/ /\ Live(k) = {} /\ inflight[k] = NoCaller
          /\ inflight' = [inflight EXCEPT ![k] = c]
          /\ call' = [call EXCEPT ![c] = Leading(k)]
    /\ UNCHANGED <<now, loaded>>

(* The future is resolved: its owner and all who wait have their answer.   *)
Resolve(k, r) ==
    /\ inflight' = [inflight EXCEPT ![k] = NoCaller]
    /\ call' = [c \in Callers |-> IF call[c] \in {Leading(k), Waiting(k)}
                                  THEN Answered(k, r) ELSE call[c]]

(* The loader returns: the value is stored for its lifetime.               *)
Loaded(k, v) ==
    /\ inflight[k] # NoCaller
    /\ data' = _set(k, v)
    /\ Resolve(k, v)
    /\ loaded' = [loaded EXCEPT ![k] = {l \in @ : l[1] # v} \union {<<v, now>>}]
    /\ UNCHANGED now

(* Mutant: "except Exception" does not see the cancellation of the owner.  *)
LoadFails_NotCancelled(k, r) ==
    /\ inflight[k] # NoCaller
    /\ IF r = Failed THEN Resolve(k, r)
       ELSE /\ inflight' = [inflight EXCEPT ![k] = NoCaller]
            /\ call' = [c \in Callers |-> IF call[c] = Leading(k) THEN Answered(k, r) ELSE call[c]]
    /\ UNCHANGED <<now, data, loaded>>

(* The loader raises or its owner is cancelled: everyone gets the          *)
(* exception, nothing is stored.                                           *)
LoadFails(k, r) ==
    /\ inflight[k] # NoCaller
    /\ Resolve(k, r)
    /\ UNCHANGED <<now, data, loaded>>

(* A caller resumes with its answer.                                       *)
Return(c) ==
    /\ call[c].phase = "answered"
    /\ call' = [call EXCEPT ![c] = Idle]
    /\ UNCHANGED <<now, data, inflight, loaded>>

(* A waiting caller is cancelled: the shield keeps the load running.       *)
GiveUp(c) ==
    /\ call[c].phase = "waiting"
    /\ call' = [call EXCEPT ![c] = Idle]
    /\ UNCHANGED <<now, data, inflight, loaded>>

Tick ==
    /\ now < MaxTick
    /\ now' = now + 1
    /\ UNCHANGED <<data, inflight, call, loaded>>

Next ==
    \/ \E c \in Callers, k \in Keys : get_or_load(c, k)
    \/ \E k \in Keys, v \in Values : Loaded(k, v)
    \/ \E k \in Keys, r \in Errors : LoadFails(k, r)
    \/ \E c \in Callers : Return(c) \/ GiveUp(c)
    \/ Tick

Spec == Init /\ [][Next]_vars

----------------------------------------------------------------------------
Lifetime(v) == IF v = Missing THEN MissingTTL ELSE TTL

(* An answer is never older than its lifetime: what a caller gets was      *)
(* loaded for its key at most TTL ago, or, for a missing report, at most   *)
(* MissingTTL ago, however often it is asked for and whoever loaded it.    *)
AnswersFresh ==
    [][\A c \in Callers :
          call'[c] # call[c] /\ call'[c].phase = "answered" /\ call'[c].result \in Values =>
              LET v == call'[c].result IN
              \E t \in 0 .. now : t + Lifetime(v) >= now /\ <<v, t>> \in loaded'[call'[c].key]]_vars

(* The cache is a single-flight cache: a key is remembered while it has a  *)
(* live entry.                                                             *)
Remembered == [k \in Keys |-> IF Live(k) = {} THEN Nothing ELSE TheOnly(Live(k)).value]
Flight     == INSTANCE SingleFlight
                  WITH remembered <- Remembered, leader <- inflight
ImplementsSingleFlight == Flight!Spec

(* Loads end, in whatever way, and coroutines resume.                      *)
Fairness ==
    /\ \A k \in Keys : WF_vars((\E v \in Values : Loaded(k, v)) \/ \E r \in Errors : LoadFails(k, r))
    /\ \A c \in Callers : WF_vars(Return(c))

FairSpec == Spec /\ Fairness

(* Nobody waits for ever for a load that somebody else has begun, even if  *)
(* that caller fails or is cancelled.                                      *)
EveryCallEnds == \A c \in Callers : call[c].phase # "idle" ~> call[c].phase = "idle"
=============================================================================
