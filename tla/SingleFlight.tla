---------------------------- MODULE SingleFlight ----------------------------
(***************************************************************************)
(* What newsserver/financials/cache.py promises to the callers of          *)
(* get_or_load: a key is loaded by one caller at a time, who asks while    *)
(* nothing is remembered for it; callers that come during a load share its *)
(* outcome; only what was loaded is remembered, errors never are; what is  *)
(* remembered may be forgotten at any time.                                *)
(***************************************************************************)
EXTENDS Functions

CONSTANTS
    Callers,    \* the coroutines that call get_or_load
    Keys,       \* cache keys
    Values,     \* what a load can return, "no such report" included
    Nothing,    \* no value: nothing is remembered, no answer yet
    NoCaller,   \* nobody
    NoKey,      \* the key of a caller that asks for nothing
    Errors      \* how a load can fail

VARIABLES
    remembered, \* of every key a value or Nothing
    leader,     \* of every key the caller that loads it
    call        \* the calls

vars == <<remembered, leader, call>>

Idle           == [phase |-> "idle", key |-> NoKey, result |-> Nothing]
Leading(k)     == [phase |-> "leading", key |-> k, result |-> Nothing]
Waiting(k)     == [phase |-> "waiting", key |-> k, result |-> Nothing]
Answered(k, r) == [phase |-> "answered", key |-> k, result |-> r]

Init ==
    /\ remembered = [k \in Keys |-> Nothing]
    /\ leader = [k \in Keys |-> NoCaller]
    /\ call = [c \in Callers |-> Idle]

Hit(c, k) ==
    /\ call[c] = Idle
    /\ remembered[k] # Nothing
    /\ call' = [call EXCEPT ![c] = Answered(k, remembered[k])]
    /\ UNCHANGED <<remembered, leader>>

Lead(c, k) ==
    /\ call[c] = Idle
    /\ remembered[k] = Nothing
    /\ leader[k] = NoCaller
    /\ leader' = [leader EXCEPT ![k] = c]
    /\ call' = [call EXCEPT ![c] = Leading(k)]
    /\ UNCHANGED remembered

Join(c, k) ==
    /\ call[c] = Idle
    /\ remembered[k] = Nothing
    /\ leader[k] # NoCaller
    /\ call' = [call EXCEPT ![c] = Waiting(k)]
    /\ UNCHANGED <<remembered, leader>>

(* The load of k ends for its leader and for everyone who waits.           *)
LoadEnds(k, r) ==
    /\ leader[k] # NoCaller
    /\ leader' = [leader EXCEPT ![k] = NoCaller]
    /\ call' = [c \in Callers |-> IF call[c] \in {Leading(k), Waiting(k)}
                                  THEN Answered(k, r) ELSE call[c]]
    /\ remembered' \in [Keys -> Values \union {Nothing}]
    /\ \A l \in Keys : remembered'[l] \in {remembered[l], Nothing} \union (IF l = k THEN {r} ELSE {})

(* The caller takes its answer, or gives up waiting.                       *)
Return(c) ==
    /\ call[c].phase \in {"answered", "waiting"}
    /\ call' = [call EXCEPT ![c] = Idle]
    /\ UNCHANGED <<remembered, leader>>

Forget ==
    /\ remembered' \in [Keys -> Values \union {Nothing}]
    /\ \A k \in Keys : remembered'[k] \in {remembered[k], Nothing}
    /\ UNCHANGED <<leader, call>>

Next ==
    \/ \E c \in Callers, k \in Keys : Hit(c, k) \/ Lead(c, k) \/ Join(c, k)
    \/ \E k \in Keys, r \in Values \union Errors : LoadEnds(k, r)
    \/ \E c \in Callers : Return(c)
    \/ Forget

Spec == Init /\ [][Next]_vars
=============================================================================
