------------------------- MODULE WatchTargetsProofs -------------------------
(***************************************************************************)
(* Inductive is an invariant of WatchTargets, for any clients, symbols and *)
(* callers.                                                                *)
(***************************************************************************)
EXTENDS WatchTargets, TLAPS

(* Whatever the clients have stored is a set of symbols.                   *)
LEMMA WatchedIsSymbols ==
    ASSUME rows \in [Clients -> SUBSET Symbols]
    PROVE  Watched \in SUBSET Symbols
BY DEF Watched

(* The initial states satisfy the invariant.                               *)
LEMMA InitInductive == Init => Inductive
<1> SUFFICES ASSUME Init PROVE Inductive
    OBVIOUS
<1>1. TypeOK
  <2>1. NoCall \in Call BY DEF NoCall, Call
  <2>2. call \in [Callers -> Call] BY <2>1 DEF Init
  <2>3. 0 \in 0 .. MaxNames /\ 0 \in 0 .. MaxPuts /\ 0 \in 0 .. MaxRestarts
    BY ConstantsAssumption
  <2>4. Empty \in [symbols: SUBSET Symbols, names: 0 .. MaxNames] BY <2>3 DEF Empty
  <2> QED BY <2>2, <2>3, <2>4 DEF Init, TypeOK
<1> QED BY <1>1 DEF Init, Inductive, NamesCurrent, StaleOnlyByOverlap, LoadsFresh, NoCall

(* A PUT is committed: until it is marked nothing is claimed of the rows.  *)
LEMMA CommitPutInductive ==
    ASSUME Inductive, NEW c \in Clients, NEW symbols \in SUBSET Symbols, CommitPut(c, symbols)
    PROVE  Inductive'
<1> USE DEF Inductive, CommitPut
<1>1. TypeOK' BY ConstantsAssumption DEF TypeOK
<1>2. committing' # NoClient BY ConstantsAssumption
<1> QED BY <1>1, <1>2 DEF NamesCurrent, StaleOnlyByOverlap, LoadsFresh

(* A mark sets the flag; either a load is in flight and the mark counts as *)
(* missed, or no load has rows that could be old.                          *)
LEMMA MarkInductive ==
    ASSUME Inductive, mark_targets_dirty
    PROVE  Inductive'
<1> USE DEF Inductive, mark_targets_dirty
<1>1. TypeOK' BY DEF TypeOK
<1>2. LoadsFresh' BY DEF LoadsFresh
<1> QED BY <1>1, <1>2 DEF NamesCurrent, StaleOnlyByOverlap

(* The same for the mark that follows a rebuilt directory.                 *)
LEMMA LoadNamesInductive ==
    ASSUME Inductive, NEW changed \in BOOLEAN, LoadNames(changed)
    PROVE  Inductive'
<1> USE DEF Inductive, LoadNames
<1>1. names' \in 0 .. MaxNames BY ConstantsAssumption DEF TypeOK
<1>2. TypeOK' BY <1>1 DEF TypeOK
<1>3. LoadsFresh' BY DEF LoadsFresh, Watched
<1> QED BY <1>2, <1>3 DEF NamesCurrent, StaleOnlyByOverlap

(* The three phases of targets().                                          *)
LEMMA StartLoadInductive ==
    ASSUME Inductive, NEW l \in Callers, StartLoad(l)
    PROVE  Inductive'
<1> USE DEF Inductive, StartLoad
<1>1. TypeOK' BY DEF TypeOK, Call
<1>2. LoadsFresh' BY DEF LoadsFresh, TypeOK, Watched
<1> QED BY <1>1, <1>2 DEF NamesCurrent, StaleOnlyByOverlap, Watched

LEMMA SelectRowsInductive ==
    ASSUME Inductive, NEW l \in Callers, SelectRows(l)
    PROVE  Inductive'
<1> USE DEF Inductive, SelectRows
<1>1. TypeOK' BY WatchedIsSymbols DEF TypeOK, Call
<1>2. LoadsFresh'
  <2>1. Watched' = Watched BY DEF Watched
  <2>2. call'[l].found = Watched BY DEF TypeOK
  <2>3. \A m \in Callers : m # l => call'[m] = call[m] BY DEF TypeOK
  <2>4. CASE committing # NoClient \/ missed BY <2>4 DEF LoadsFresh
  <2>5. CASE \A m \in Callers : call[m].phase = "merge" => call[m].found = Watched
    <3>1. ASSUME NEW m \in Callers, call'[m].phase = "merge"
          PROVE  call'[m].found = Watched'
      <4>1. CASE m = l BY <4>1, <2>1, <2>2
      <4>2. CASE m # l BY <4>2, <3>1, <2>1, <2>3, <2>5
      <4> QED BY <4>1, <4>2
    <3> QED BY <3>1 DEF LoadsFresh
  <2> QED BY <2>4, <2>5 DEF LoadsFresh
<1> QED BY <1>1, <1>2 DEF NamesCurrent, StaleOnlyByOverlap, Watched

LEMMA MergeInductive ==
    ASSUME Inductive, NEW l \in Callers, Merge(l)
    PROVE  Inductive'
<1> USE DEF Inductive, Merge
<1>1. TypeOK' BY DEF TypeOK, Call, NoCall
<1>2. NamesCurrent' BY DEF NamesCurrent
<1>3. StaleOnlyByOverlap'
  <2>1. CASE committing # NoClient \/ missed BY <2>1 DEF StaleOnlyByOverlap
  <2>2. CASE committing = NoClient /\ ~missed
    <3>1. call[l].found = Watched BY <2>2 DEF LoadsFresh
    <3> QED BY <3>1 DEF StaleOnlyByOverlap, Watched
  <2> QED BY <2>1, <2>2
<1>4. LoadsFresh' BY DEF LoadsFresh, TypeOK, Watched, NoCall
<1> QED BY <1>1, <1>2, <1>3, <1>4

(* A restart forgets the targets and asks for a load.                      *)
LEMMA RestartInductive ==
    ASSUME Inductive, Restart
    PROVE  Inductive'
<1> USE DEF Inductive, Restart
<1>1. TypeOK'
  <2>1. NoCall \in Call BY DEF NoCall, Call
  <2>2. Empty \in [symbols: SUBSET Symbols, names: 0 .. MaxNames]
    BY ConstantsAssumption DEF Empty
  <2>3. restarts' \in 0 .. MaxRestarts BY ConstantsAssumption DEF TypeOK
  <2> QED BY <2>1, <2>2, <2>3 DEF TypeOK
<1>2. \A l \in Callers : call'[l].phase # "merge" BY DEF NoCall
<1>3. LoadsFresh' BY <1>2 DEF LoadsFresh
<1> QED BY <1>1, <1>3 DEF NamesCurrent, StaleOnlyByOverlap

LEMMA NextInductive ==
    ASSUME Inductive, [Next]_vars
    PROVE  Inductive'
<1>1. CASE \E c \in Clients, symbols \in SUBSET Symbols : CommitPut(c, symbols)
    BY <1>1, CommitPutInductive
<1>2. CASE mark_targets_dirty BY <1>2, MarkInductive
<1>3. CASE \E changed \in BOOLEAN : LoadNames(changed) BY <1>3, LoadNamesInductive
<1>4. CASE \E l \in Callers : StartLoad(l) \/ SelectRows(l) \/ Merge(l)
    BY <1>4, StartLoadInductive, SelectRowsInductive, MergeInductive
<1>5. CASE Restart BY <1>5, RestartInductive
<1>6. CASE UNCHANGED vars
    BY <1>6 DEF vars, Inductive, TypeOK, NamesCurrent, StaleOnlyByOverlap, LoadsFresh, Watched
<1> QED BY <1>1, <1>2, <1>3, <1>4, <1>5, <1>6 DEF Next

(* The strengthened invariant holds in every reachable state.              *)
THEOREM SpecInductive == Spec => []Inductive
<1>1. Init => Inductive BY InitInductive
<1>2. Inductive /\ [Next]_vars => Inductive' BY NextInductive
<1> QED BY <1>1, <1>2, PTL DEF Spec

(* The cache, the flag and the loads in flight are well typed.             *)
THEOREM SpecTypeOK == Spec => []TypeOK
<1>1. Inductive => TypeOK BY DEF Inductive
<1> QED BY <1>1, SpecInductive, PTL

(* The names of the directory never go stale unnoticed in the targets.     *)
THEOREM SpecNamesCurrent == Spec => []NamesCurrent
<1>1. Inductive => NamesCurrent BY DEF Inductive
<1> QED BY <1>1, SpecInductive, PTL

(* A registered watchlist is only missed when the last mark fell between   *)
(* the SELECT of some load and its assignment.                             *)
THEOREM SpecStaleOnlyByOverlap == Spec => []StaleOnlyByOverlap
<1>1. Inductive => StaleOnlyByOverlap BY DEF Inductive
<1> QED BY <1>1, SpecInductive, PTL
=============================================================================
