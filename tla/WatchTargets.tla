---------------------------- MODULE WatchTargets ----------------------------
(***************************************************************************)
(* The cached union of the watchlists: put_watchlist / delete_watchlist    *)
(* of newsserver/api/v1/watchlists.py, and targets(), _load_targets() and  *)
(* mark_targets_dirty() of newsserver/scheduler.py, which every            *)
(* _symbol_loop and GET /watchlists call.  A target is a symbol with its   *)
(* names; the names of the directory come from memory when the rows are    *)
(* merged, the rows from a SELECT that was awaited before.                 *)
(*                                                                         *)
(* Abstractions: a row is its symbol (an item's own name and aliases       *)
(* travel with it); the directory's names are a version number.            *)
(***************************************************************************)
EXTENDS Naturals

CONSTANTS
    Clients,    \* clients of the watchlist API
    Symbols,    \* (market, symbol) pairs
    Callers,    \* the callers of targets(): symbol loops and GET /watchlists
    NoClient,   \* nobody
    MaxPuts,    \* bound: PUT and DELETE requests
    MaxNames,   \* bound: changes of the directory
    MaxRestarts \* bound: restarts of the process

ASSUME ConstantsAssumption ==
    /\ NoClient \notin Clients
    /\ MaxPuts \in Nat /\ MaxNames \in Nat /\ MaxRestarts \in Nat

VARIABLES
    rows,       \* table watchlists: the symbols of every client
    committing, \* the client whose PUT is committed and not yet resumed
    names,      \* the directory in memory
    targets,    \* Scheduler._targets
    dirty,      \* Scheduler._targets_dirty
    call,       \* the calls of targets()
    missed,     \* history: the last mark fell into a load
    puts, restarts

vars == <<rows, committing, names, targets, dirty, call, missed, puts, restarts>>

Watched == UNION {rows[c] : c \in Clients}

Call   == [phase: {"idle", "select", "merge"}, found: SUBSET Symbols]
NoCall == [phase |-> "idle", found |-> {}]
Empty  == [symbols |-> {}, names |-> 0]

TypeOK ==
    /\ rows \in [Clients -> SUBSET Symbols]
    /\ committing \in Clients \union {NoClient}
    /\ names \in 0 .. MaxNames
    /\ targets \in [symbols: SUBSET Symbols, names: 0 .. MaxNames]
    /\ dirty \in BOOLEAN
    /\ call \in [Callers -> Call]
    /\ missed \in BOOLEAN
    /\ puts \in 0 .. MaxPuts
    /\ restarts \in 0 .. MaxRestarts

Init ==
    /\ rows \in [Clients -> SUBSET Symbols]
    /\ committing = NoClient
    /\ names = 0
    /\ targets = Empty
    /\ dirty = TRUE
    /\ call = [l \in Callers |-> NoCall]
    /\ missed = FALSE
    /\ puts = 0
    /\ restarts = 0

----------------------------------------------------------------------------
(* put_watchlist replaces the client's rows, delete_watchlist removes      *)
(* them, in one transaction: it is committed while the handler waits, and  *)
(* until the handler resumes it keeps the write lock.                      *)
CommitPut(c, symbols) ==
    /\ committing = NoClient
    /\ puts < MaxPuts
    /\ puts' = puts + 1
    /\ rows' = [rows EXCEPT ![c] = symbols]
    /\ committing' = c
    /\ UNCHANGED <<names, targets, dirty, call, missed, restarts>>

(* Mutant: the flag is set only when the list is not empty.                *)
mark_targets_dirty_NotOnDelete ==
    /\ committing # NoClient
    /\ committing' = NoClient
    /\ dirty' = (dirty \/ rows[committing] # {})
    /\ missed' = \E l \in Callers : call[l].phase = "merge"
    /\ UNCHANGED <<rows, names, targets, call, puts, restarts>>

(* The handler resumes: the write lock is released and the flag set.       *)
mark_targets_dirty ==
    /\ committing # NoClient
    /\ committing' = NoClient
    /\ dirty' = TRUE
    /\ missed' = \E l \in Callers : call[l].phase = "merge"
    /\ UNCHANGED <<rows, names, targets, call, puts, restarts>>

(* Mutant: the directory changes without a mark.                           *)
LoadNames_Unmarked(changed) ==
    /\ changed => names < MaxNames
    /\ names' = IF changed THEN names + 1 ELSE names
    /\ UNCHANGED <<dirty, missed, rows, committing, targets, call, puts, restarts>>

(* put_aliases and refresh_symbols end in directory.load, which rebuilds   *)
(* the names and returns into the mark without an await.                   *)
LoadNames(changed) ==
    /\ changed => names < MaxNames
    /\ names' = IF changed THEN names + 1 ELSE names
    /\ dirty' = TRUE
    /\ missed' = \E l \in Callers : call[l].phase = "merge"
    /\ UNCHANGED <<rows, committing, targets, call, puts, restarts>>

----------------------------------------------------------------------------
(* targets(): a call that finds the flag clear answers at once.            *)
StartLoad(l) ==
    /\ call[l].phase = "idle"
    /\ dirty
    /\ call' = [call EXCEPT ![l].phase = "select"]
    /\ UNCHANGED <<rows, committing, names, targets, dirty, missed, puts, restarts>>

(* The rows are read on one of the reader connections.                     *)
SelectRows(l) ==
    /\ call[l].phase = "select"
    /\ call' = [call EXCEPT ![l] = [phase |-> "merge", found |-> Watched]]
    /\ UNCHANGED <<rows, committing, names, targets, dirty, missed, puts, restarts>>

(* From the resumption after the SELECT to the answer there is no await:   *)
(* names_for is asked, _targets assigned and the flag cleared, whatever    *)
(* was marked since the SELECT.                                            *)
Merge(l) ==
    /\ call[l].phase = "merge"
    /\ targets' = [symbols |-> call[l].found, names |-> names]
    /\ dirty' = FALSE
    /\ call' = [call EXCEPT ![l] = NoCall]
    /\ UNCHANGED <<rows, committing, names, missed, puts, restarts>>

(* Memory is lost; a committed transaction is not.                         *)
Restart ==
    /\ restarts < MaxRestarts
    /\ restarts' = restarts + 1
    /\ committing' = NoClient
    /\ targets' = Empty
    /\ dirty' = TRUE
    /\ call' = [l \in Callers |-> NoCall]
    /\ missed' = FALSE
    /\ UNCHANGED <<rows, names, puts>>

Next ==
    \/ \E c \in Clients, symbols \in SUBSET Symbols : CommitPut(c, symbols)
    \/ mark_targets_dirty
    \/ \E changed \in BOOLEAN : LoadNames(changed)
    \/ \E l \in Callers : StartLoad(l) \/ SelectRows(l) \/ Merge(l)
    \/ Restart

Spec == Init /\ [][Next]_vars

----------------------------------------------------------------------------
(* Names are never stale: whatever loads overlap, the cached targets carry *)
(* the names of the directory in memory, or the flag asks for a new load.  *)
NamesCurrent == dirty \/ targets.names = names

(* Once a PUT has been answered and the flag is clear, the cached targets  *)
(* are the watchlists, unless a load was waiting for its rows when the     *)
(* last mark was set.                                                      *)
StaleOnlyByOverlap ==
    dirty \/ committing # NoClient \/ missed \/ targets.symbols = Watched

(* A load that waits to be merged has the watchlists as they are, unless a *)
(* PUT is about to be marked or the last mark fell into a load.            *)
LoadsFresh ==
    \/ committing # NoClient
    \/ missed
    \/ \A l \in Callers : call[l].phase = "merge" => call[l].found = Watched

(* The inductive invariant.                                                *)
Inductive == TypeOK /\ NamesCurrent /\ StaleOnlyByOverlap /\ LoadsFresh

(* Handlers resume and queries end; every symbol loop asks for the targets *)
(* on each turn; the directory is refreshed every symbol_refresh_days.     *)
Fairness ==
    /\ WF_vars(mark_targets_dirty)
    /\ WF_vars(LoadNames(FALSE))
    /\ \A l \in Callers : WF_vars(StartLoad(l)) /\ WF_vars(SelectRows(l)) /\ WF_vars(Merge(l))

FairSpec == Spec /\ Fairness

(* A lost mark is made up for by a refresh of the directory: when the      *)
(* users have stopped changing the lists, the targets become right again   *)
(* and again and a wrong list never stays for good.                        *)
RegisteredInTheEnd == []<>(targets.symbols = Watched)
=============================================================================
