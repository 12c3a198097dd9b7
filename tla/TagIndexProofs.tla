--------------------------- MODULE TagIndexProofs ---------------------------
(***************************************************************************)
(* Theorems about TagIndex for every set of names, texts, editors and      *)
(* tasks and every bound: the index follows the table, and a stale tag is  *)
(* always on the way of a task that renews it, unless a known race has     *)
(* spoiled its article.                                                    *)
(***************************************************************************)
EXTENDS TagIndex, FiniteSetTheorems, WellFoundedInduction, TLAPS

----------------------------------------------------------------------------
(* The directory: what an edit or refresh knows, and who will load what    *)
(* the table holds.                                                        *)
Snapped == {"remote", "manual", "select", "rebuild"}
Edit    == [phase: Snapped \union {"idle", "snapshot"}, before: SUBSET Names, rows: SUBSET Names,
            overlapped: BOOLEAN]

DirectoryTyped ==
    /\ table \subseteq Names /\ index \subseteq Names
    /\ edit \in [Editors -> Edit]

(* Unless another load came between, the index is still as in the snapshot.*)
SnapshotsCurrent ==
    \A e \in Editors : edit[e].phase \in Snapped /\ ~edit[e].overlapped => edit[e].before = index

WillLoad(e) ==
    \/ edit[e].phase \in {"snapshot", "remote", "manual", "select"}
    \/ edit[e].phase = "rebuild" /\ edit[e].rows = Indexed(table)

(* What a load has selected is the table, unless somebody else is about to *)
(* load that, or it is known that nobody is.                               *)
LoadsCurrent ==
    \A e \in Editors :
        edit[e].phase = "rebuild" /\ ~edit[e].overlapped =>
            \/ edit[e].rows = Indexed(table)
            \/ behind
            \/ \E f \in Editors \ {e} : WillLoad(f)

DirectoryInv == DirectoryTyped /\ SnapshotsCurrent /\ LoadsCurrent /\ IndexFollowsTable

----------------------------------------------------------------------------
(* The articles, the retags and the write lock.                            *)
IsRow(a) == a \in [text: SUBSET Names, short: {a.short}, fixed: SUBSET Names,
                   derived: SUBSET Names, given: SUBSET Names]
IsJob(j) == j \in [phase: {"idle", "wait", "open"}, target: {j.target}, item: {j.item},
                   seen: {j.seen}, row: {j.row}]
IsTask(r) == r \in [phase: {"idle", "select", "read", "wait"}, changes: {r.changes}, all: BOOLEAN,
                    last: Nat, todo: SUBSET Nat, batch: {r.batch}, rules: BOOLEAN]

Ids == 1 .. nextId - 1

Once(q)         == \A i, j \in DOMAIN q : q[i] = q[j] => i = j
InQueue(q, w)   == \E i \in DOMAIN q : q[i] = w
Behind(q, u, t) == \E i, j \in DOMAIN q : i < j /\ q[i] = t /\ q[j] = u

Waits(w) == IF w = Ingest THEN job.phase # "idle" ELSE retag[w].phase = "wait"

(* The lock is waited for once by each who waits for it.                   *)
QueueSound ==
    /\ queue \in Seq(Tasks \union {Ingest})
    /\ Once(queue)
    /\ \A w \in Tasks \union {Ingest} : Waits(w) <=> InQueue(queue, w)

(* A task has a batch just while it waits, of ids that were handed out.    *)
TasksSound ==
    /\ DOMAIN retag = Tasks
    /\ \A t \in Tasks :
        /\ IsTask(retag[t])
        /\ retag[t].phase = "select" => ~retag[t].all
        /\ ~retag[t].all => retag[t].todo \subseteq Ids
        /\ retag[t].phase # "wait" => DOMAIN retag[t].batch = {}
        /\ \A i \in DOMAIN retag[t].batch : i \in Ids /\ retag[t].batch[i] \subseteq Names

EnrichedWith(a, item, seen) ==
    LET fixed == a.fixed \union (IF Fills(a, item) THEN item.fixed ELSE item.fixed \ a.derived)
        text  == IF Fills(a, item) THEN a.text \union item.text ELSE a.text IN
    [text |-> text, short |-> a.short /\ ~item.summary, fixed |-> fixed,
     derived |-> IF Fills(a, item) THEN (text \cap seen) \ fixed ELSE a.derived,
     given |-> a.given \union item.fixed]

(* What an open transaction will commit.                                   *)
JobSound ==
    /\ IsJob(job)
    /\ job.phase # "idle" => job.item \in Items
    /\ InTransaction =>
           /\ Holds(Ingest)
           /\ job.row = IF job.target \in DOMAIN article
                        THEN EnrichedWith(article[job.target], job.item, job.seen)
                        ELSE Inserted(job.item, job.seen)

Typed ==
    /\ nextId \in Nat \ {0}
    /\ DOMAIN article \subseteq Ids
    /\ \A i \in DOMAIN article : IsRow(article[i])
    /\ QueueSound /\ TasksSound /\ JobSound

(* A task will still read the article i for the name n, in the state r of  *)
(* the task and with the articles S; its batch has it right.               *)
LeftOf(r, S)       == IF r.all THEN {i \in S : i > r.last} ELSE r.todo
Coming(r, S, i, n) == \/ r.phase = "select" /\ n \in r.changes
                      \/ r.phase \in {"read", "wait"} /\ i \in LeftOf(r, S)
HasRight(r, i, n, names) == i \in DOMAIN r.batch /\ (n \in r.batch[i] <=> n \in names)
HasWrong(r, i, n, names) == i \in DOMAIN r.batch /\ ~(n \in r.batch[i] <=> n \in names)

(* The tags of the article i are right at n, or a task will put them right.*)
Settles(i, n) ==
    \/ n \in article[i].derived <=> n \in index
    \/ \E t \in Tasks : Coming(retag[t], DOMAIN article, i, n) \/ HasRight(retag[t], i, n, index)

(* A batch that is wrong at n by now is followed by another task.          *)
IsFollowed(t, i, n) ==
    HasWrong(retag[t], i, n, index) =>
        \E u \in Tasks : \/ Coming(retag[u], DOMAIN article, i, n)
                         \/ HasRight(retag[u], i, n, index) /\ Behind(queue, u, t)

TagsSettle ==
    \A i \in DOMAIN article \ spoiled : \A n \in article[i].text \ article[i].fixed :
        Settles(i, n) /\ \A t \in Tasks : IsFollowed(t, i, n)

StoreInv == Typed /\ TagsSettle
IInv     == DirectoryInv /\ StoreInv

----------------------------------------------------------------------------
(* Numbers: least and greatest elements.                                   *)

LEMMA LeastElement ==
    ASSUME NEW S \in SUBSET Nat, S # {}
    PROVE  Min(S) \in S /\ \A m \in S : Min(S) <= m
<1>1. \E x \in S : \A y \in S : ~ (<<y, x>> \in OpToRel(<, Nat))
  BY NatLessThanWellFounded, WFMin
<1>2. \E x \in S : \A y \in S : ~ (y < x)
  BY <1>1 DEF OpToRel
<1>3. \E x \in S : \A y \in S : x <= y
  BY <1>2
<1>4. QED BY <1>3 DEF Min

LEMMA GreatestElement ==
    ASSUME NEW b \in Nat, NEW S \in SUBSET (0 .. b), S # {}
    PROVE  Max(S) \in S /\ \A m \in S : m <= Max(S)
<1> DEFINE U == {u \in Nat : \A m \in S : m <= u}
           x == Min(U)
<1>1. b \in U
  OBVIOUS
<1>2. x \in U /\ \A u \in U : x <= u
  <2> HIDE DEF U
  <2>1. U \in SUBSET Nat
    BY DEF U
  <2>2. QED BY <1>1, <2>1, LeastElement
<1>3. x \in S
  <2> SUFFICES ASSUME x \notin S PROVE FALSE
    OBVIOUS
  <2> HIDE DEF x
  <2>1. x \in Nat /\ \A m \in S : m \in Nat /\ m < x
    BY <1>2
  <2>2. x # 0
    <3>1. PICK m \in S : TRUE
      OBVIOUS
    <3>2. QED BY <2>1, <3>1
  <2>3. x - 1 \in U
    BY <2>1, <2>2
  <2>4. QED BY <2>1, <2>2, <2>3, <1>2
<1>4. \E n \in S : \A m \in S : n >= m
  <2> HIDE DEF x
  <2> QED BY <1>2, <1>3
<1>5. QED BY <1>4 DEF Max

----------------------------------------------------------------------------
(* The directory.                                                          *)

LEMMA IndexedTyped == ASSUME NEW S \in SUBSET Names PROVE Indexed(S) \subseteq Names
BY DEF Indexed

LEMMA NoEditTyped == NoEdit \in Edit /\ NoEdit.phase = "idle" /\ NoEdit.overlapped = FALSE
BY DEF NoEdit, Edit, Snapped

(* Whoever is about to load the table still is when only others move on.   *)
LEMMA StillWillLoad ==
    ASSUME UNCHANGED <<table, stop>>, NEW f, WillLoad(f), edit'[f].phase = edit[f].phase,
           edit'[f].rows = edit[f].rows
    PROVE  WillLoad(f)'
BY DEF WillLoad, Indexed

(* A change of the table by somebody who is about to load it.              *)
LEMMA TableChanged ==
    ASSUME DirectoryInv, NEW e \in Editors, NEW r,
           edit' = [edit EXCEPT ![e] = r], r \in Edit,
           r.phase \in {"snapshot", "remote", "manual", "select"},
           r.phase # "snapshot" /\ ~r.overlapped => r.before = index,
           table' \subseteq Names, UNCHANGED index
    PROVE  DirectoryInv'
<1>1. edit' \in [Editors -> Edit] /\ edit'[e] = r /\ \A f \in Editors \ {e} : edit'[f] = edit[f]
  BY DEF DirectoryInv, DirectoryTyped
<1>2. WillLoad(e)'
  BY <1>1 DEF WillLoad
<1>3. DirectoryTyped' /\ SnapshotsCurrent'
  BY <1>1 DEF DirectoryInv, DirectoryTyped, SnapshotsCurrent, Snapped
<1>4. LoadsCurrent'
  BY <1>1, <1>2 DEF LoadsCurrent
<1>5. IndexFollowsTable'
  BY <1>1 DEF IndexFollowsTable
<1>6. QED BY <1>3, <1>4, <1>5 DEF DirectoryInv

LEMMA PutAliasesDirectory ==
    ASSUME DirectoryInv, NEW p \in Puts, NEW alias \in Aliases, NEW present \in BOOLEAN,
           PutAliases(p, alias, present)
    PROVE  DirectoryInv'
<1> DEFINE r == [edit[p] EXCEPT !.phase = "snapshot"]
<1>1. p \in Editors /\ edit[p] \in Edit /\ table \subseteq Names
  BY DEF Editors, DirectoryInv, DirectoryTyped
<1>2. r \in Edit /\ r.phase = "snapshot" /\ edit' = [edit EXCEPT ![p] = r]
  BY <1>1 DEF Edit, PutAliases
<1>3. table' \subseteq Names /\ UNCHANGED index
  BY <1>1, ConstantsAssumption DEF PutAliases, ChangeTable
<1> HIDE DEF r
<1>4. QED BY <1>1, <1>2, <1>3, TableChanged

LEMMA TakeSnapshotDirectory ==
    ASSUME DirectoryInv, NEW e \in Editors, TakeSnapshot(e) PROVE DirectoryInv'
<1> DEFINE r == [NoEdit EXCEPT !.before = index, !.phase = IF e \in Puts THEN "select" ELSE "remote"]
<1>1. r \in Edit /\ r.phase \in {"remote", "select"} /\ r.before = index
  BY DEF NoEdit, Edit, Snapped, DirectoryInv, DirectoryTyped
<1>2. edit' = [edit EXCEPT ![e] = r] /\ UNCHANGED <<table, index>> /\ table \subseteq Names
  BY DEF TakeSnapshot, DirectoryInv, DirectoryTyped
<1> HIDE DEF r
<1>3. QED BY <1>1, <1>2, TableChanged

LEMMA RefreshRemoteDirectory ==
    ASSUME DirectoryInv, NEW r \in Refreshes, NEW listed \in SUBSET (Names \ Aliases),
           RefreshRemote(r, listed)
    PROVE  DirectoryInv'
<1> DEFINE new == [edit[r] EXCEPT !.phase = "manual"]
<1>1. /\ r \in Editors /\ edit[r] \in Edit /\ table \subseteq Names
      /\ edit[r].phase = "remote" /\ (~edit[r].overlapped => edit[r].before = index)
  BY DEF Editors, DirectoryInv, DirectoryTyped, SnapshotsCurrent, Snapped, RefreshRemote
<1>2. /\ new \in Edit /\ new.phase = "manual" /\ edit' = [edit EXCEPT ![r] = new]
      /\ new.before = edit[r].before /\ new.overlapped = edit[r].overlapped
  BY <1>1 DEF Edit, Snapped, RefreshRemote
<1>3. table' \subseteq Names /\ UNCHANGED index
  BY <1>1, ConstantsAssumption DEF RefreshRemote, ChangeTable
<1> HIDE DEF new
<1>4. QED BY <1>1, <1>2, <1>3, TableChanged

(* A refresh that fails leaves the index behind, or what others load.      *)
LEMMA ApplyManualDirectory ==
    ASSUME DirectoryInv, NEW r \in Refreshes, NEW ok \in BOOLEAN, ApplyManual(r, ok)
    PROVE  DirectoryInv'
<1>1. /\ r \in Editors /\ edit[r] \in Edit /\ table \subseteq Names /\ UNCHANGED <<stop, index>>
      /\ edit[r].phase = "manual" /\ (~edit[r].overlapped => edit[r].before = index)
  BY DEF Editors, DirectoryInv, DirectoryTyped, SnapshotsCurrent, Snapped, ApplyManual
<1>2. CASE ok
  <2> DEFINE new == [edit[r] EXCEPT !.phase = "select"]
  <2>1. /\ new \in Edit /\ new.phase = "select" /\ edit' = [edit EXCEPT ![r] = new]
        /\ new.before = edit[r].before /\ new.overlapped = edit[r].overlapped
    BY <1>1, <1>2 DEF Edit, Snapped, ApplyManual
  <2>2. table' \subseteq Names
    BY <1>1, <1>2, ConstantsAssumption DEF ApplyManual
  <2> HIDE DEF new
  <2>3. QED BY <1>1, <2>1, <2>2, TableChanged
<1>3. CASE ~ok
  <2>1. /\ edit' = [edit EXCEPT ![r] = NoEdit] /\ UNCHANGED table
        /\ behind' = (behind \/ index # Indexed(table) \/ \E e \in Editors : ~Fresh(e))
    BY <1>3 DEF ApplyManual
  <2>2. /\ edit' \in [Editors -> Edit] /\ edit'[r] = NoEdit
        /\ \A f \in Editors \ {r} : edit'[f] = edit[f]
    <3>1. edit \in [Editors -> Edit] /\ NoEdit \in Edit
      BY NoEditTyped DEF DirectoryInv, DirectoryTyped
    <3>2. QED BY ONLY <1>1, <2>1, <3>1
  <2>3. DirectoryTyped' /\ SnapshotsCurrent'
    BY <1>1, <2>1, <2>2, NoEditTyped DEF DirectoryInv, DirectoryTyped, SnapshotsCurrent, Snapped
  <2>4. Indexed(table)' = Indexed(table)
    BY <1>1, <2>1 DEF Indexed
  <2>5. LoadsCurrent'
    <3> SUFFICES ASSUME NEW e \in Editors, edit'[e].phase = "rebuild", ~edit'[e].overlapped,
                        edit'[e].rows # Indexed(table)'
                 PROVE  behind'
      BY DEF LoadsCurrent
    <3>1. e # r /\ ~Fresh(e)
      BY <2>2, <2>4, NoEditTyped DEF Fresh
    <3>2. QED BY <2>1, <3>1
  <2>6. IndexFollowsTable'
    BY <1>1, <2>1, <2>4 DEF IndexFollowsTable
  <2>7. QED BY <2>3, <2>5, <2>6 DEF DirectoryInv
<1>4. QED BY <1>2, <1>3

LEMMA SelectNamesDirectory ==
    ASSUME DirectoryInv, NEW e \in Editors, SelectNames(e) PROVE DirectoryInv'
<1> DEFINE new == [edit[e] EXCEPT !.phase = "rebuild", !.rows = Indexed(table)]
<1>1. /\ edit[e] \in Edit /\ table \subseteq Names /\ UNCHANGED <<table, stop, index, behind>>
      /\ edit[e].phase = "select" /\ (~edit[e].overlapped => edit[e].before = index)
      /\ edit' = [edit EXCEPT ![e] = new]
  BY DEF DirectoryInv, DirectoryTyped, SnapshotsCurrent, Snapped, SelectNames
<1>2. /\ new \in Edit /\ new.phase = "rebuild" /\ new.rows = Indexed(table)
      /\ new.before = edit[e].before /\ new.overlapped = edit[e].overlapped
  BY <1>1, IndexedTyped DEF Edit, Snapped
<1> HIDE DEF new
<1>3. edit' \in [Editors -> Edit] /\ edit'[e] = new /\ \A f \in Editors \ {e} : edit'[f] = edit[f]
  BY <1>1, <1>2 DEF DirectoryInv, DirectoryTyped
<1>4. Indexed(table)' = Indexed(table)
  BY <1>1 DEF Indexed
<1>5. DirectoryTyped' /\ SnapshotsCurrent'
  BY <1>1, <1>2, <1>3 DEF DirectoryInv, DirectoryTyped, SnapshotsCurrent, Snapped
<1>6. \A f \in Editors : WillLoad(f) => WillLoad(f)'
  BY <1>1, <1>2, <1>3, <1>4 DEF WillLoad
<1>7. LoadsCurrent'
  BY <1>1, <1>2, <1>3, <1>4, <1>6 DEF DirectoryInv, LoadsCurrent
<1>8. IndexFollowsTable'
  BY <1>1, <1>2, <1>3, <1>4 DEF DirectoryInv, IndexFollowsTable
<1>9. QED BY <1>5, <1>7, <1>8 DEF DirectoryInv

(* A load puts the index right, or it was overtaken, or another follows.   *)
LEMMA RebuildDirectory ==
    ASSUME DirectoryInv, NEW e \in Editors, NEW t \in Tasks, Rebuild(e, t) PROVE DirectoryInv'
<1> DEFINE rows == edit[e].rows
           marked(f) == [edit[f] EXCEPT !.overlapped = @ \/ edit[f].phase \notin {"idle", "snapshot"}]
<1>1. /\ edit[e] \in Edit /\ UNCHANGED <<table, stop>> /\ edit[e].phase = "rebuild"
      /\ index' = rows /\ rows \subseteq Names /\ table \subseteq Names
      /\ edit' = [f \in Editors |-> IF f = e THEN NoEdit ELSE marked(f)]
      /\ behind' = (rows # Indexed(table) /\ (behind \/ edit[e].overlapped))
  BY DEF DirectoryInv, DirectoryTyped, Edit, Rebuild
<1>2. ASSUME NEW f \in Editors
      PROVE  /\ marked(f) \in Edit
             /\ marked(f).phase = edit[f].phase /\ marked(f).rows = edit[f].rows
             /\ marked(f).phase \in Snapped => marked(f).overlapped
  BY DEF DirectoryInv, DirectoryTyped, Edit, Snapped
<1> HIDE DEF marked, rows
<1>3. /\ edit' \in [Editors -> Edit] /\ edit'[e] = NoEdit
      /\ \A f \in Editors \ {e} : edit'[f] = marked(f)
  BY <1>1, <1>2, NoEditTyped
<1>4. Indexed(table)' = Indexed(table)
  BY <1>1 DEF Indexed
<1>5. DirectoryTyped' /\ SnapshotsCurrent'
  BY <1>1, <1>2, <1>3, NoEditTyped DEF DirectoryTyped, SnapshotsCurrent, Snapped
<1>6. LoadsCurrent'
  BY <1>2, <1>3, NoEditTyped DEF LoadsCurrent, Snapped
<1>7. IndexFollowsTable'
  <2>1. CASE rows = Indexed(table)
    BY <1>1, <1>4, <2>1 DEF IndexFollowsTable
  <2>2. CASE rows # Indexed(table) /\ (behind \/ edit[e].overlapped)
    BY <1>1, <2>2 DEF IndexFollowsTable
  <2>3. CASE rows # Indexed(table) /\ ~behind /\ ~edit[e].overlapped
    <3>1. PICK f \in Editors \ {e} : WillLoad(f)
      BY <1>1, <2>3 DEF DirectoryInv, LoadsCurrent, rows
    <3>2. WillLoad(f)'
      BY <1>1, <1>2, <1>3, <3>1, StillWillLoad
    <3>3. QED BY <3>2 DEF WillLoad, IndexFollowsTable
  <2>4. QED BY <2>1, <2>2, <2>3
<1>8. QED BY <1>5, <1>6, <1>7 DEF DirectoryInv

LEMMA RestartDirectory ==
    ASSUME DirectoryInv, NEW words \in StopNames, Restart(words) PROVE DirectoryInv'
<1>1. /\ table' = table \union Manual /\ stop' = words /\ index' = table' \ words
      /\ edit' = [e \in Editors |-> NoEdit]
  BY DEF Restart
<1>2. edit' \in [Editors -> Edit] /\ \A e \in Editors : edit'[e] = NoEdit
  BY <1>1, NoEditTyped
<1>3. DirectoryTyped' /\ SnapshotsCurrent' /\ LoadsCurrent'
  BY <1>1, <1>2, NoEditTyped, ConstantsAssumption
     DEF DirectoryInv, DirectoryTyped, SnapshotsCurrent, LoadsCurrent, Snapped
<1>4. IndexFollowsTable'
  BY <1>1 DEF IndexFollowsTable, Indexed
<1>5. QED BY <1>3, <1>4 DEF DirectoryInv

LEMMA InitDirectory == Init => DirectoryInv
<1> SUFFICES ASSUME Init PROVE DirectoryInv
  OBVIOUS
<1>1. edit \in [Editors -> Edit] /\ \A e \in Editors : edit[e] = NoEdit
  BY NoEditTyped DEF Init
<1>2. DirectoryTyped /\ SnapshotsCurrent /\ LoadsCurrent
  BY <1>1, NoEditTyped, ConstantsAssumption
     DEF Init, DirectoryTyped, SnapshotsCurrent, LoadsCurrent, Snapped
<1>3. IndexFollowsTable
  BY DEF Init, IndexFollowsTable, Indexed
<1>4. QED BY <1>2, <1>3 DEF DirectoryInv

LEMMA UntouchedDirectory == DirectoryInv /\ UNCHANGED directory => DirectoryInv'
BY DEF directory, DirectoryInv, DirectoryTyped, SnapshotsCurrent, LoadsCurrent, IndexFollowsTable,
       WillLoad, Indexed

LEMMA NextDirectory == DirectoryInv /\ [Next]_vars => DirectoryInv'
<1> SUFFICES ASSUME DirectoryInv, [Next]_vars PROVE DirectoryInv'
  OBVIOUS
<1>1. CASE UNCHANGED directory
  BY <1>1, UntouchedDirectory
<1>2. ASSUME NEW p \in Puts, NEW alias \in Aliases, NEW present \in BOOLEAN,
             PutAliases(p, alias, present)
      PROVE  DirectoryInv'
  BY <1>2, PutAliasesDirectory
<1>3. ASSUME NEW r \in Refreshes, NEW listed \in SUBSET (Names \ Aliases), RefreshRemote(r, listed)
      PROVE  DirectoryInv'
  BY <1>3, RefreshRemoteDirectory
<1>4. ASSUME NEW r \in Refreshes, NEW ok \in BOOLEAN, ApplyManual(r, ok) PROVE DirectoryInv'
  BY <1>4, ApplyManualDirectory
<1>5. ASSUME NEW e \in Editors, TakeSnapshot(e) \/ SelectNames(e) \/ \E t \in Tasks : Rebuild(e, t)
      PROVE  DirectoryInv'
  BY <1>5, TakeSnapshotDirectory, SelectNamesDirectory, RebuildDirectory
<1>6. ASSUME NEW t \in Tasks, SelectArticles(t) \/ ReadBatch(t) \/ WriteBatch(t) \/ EndRetag(t)
      PROVE  UNCHANGED directory
  BY <1>6 DEF SelectArticles, ReadBatch, WriteBatch, EndRetag
<1>7. CASE \/ \E target \in DOMAIN article \union {0}, item \in Items : TagItem(target, item)
           \/ WriteItem \/ CommitItem \/ \E i \in DOMAIN article : PurgeArticle(i)
  BY <1>1, <1>7 DEF TagItem, WriteItem, CommitItem, PurgeArticle
<1>8. ASSUME NEW words \in StopNames, Restart(words) PROVE DirectoryInv'
  BY <1>8, RestartDirectory
<1>9. CASE UNCHANGED vars
  BY <1>1, <1>9 DEF vars
<1>10. QED BY <1>1, <1>2, <1>3, <1>4, <1>5, <1>6, <1>7, <1>8, <1>9 DEF Next

LEMMA SpecDirectory == Spec => []DirectoryInv
BY InitDirectory, NextDirectory, PTL DEF Spec

(* The index is the table as committed, unless an edit or refresh is about *)
(* to load it, or a load was overtaken or broken off.                      *)
THEOREM SpecIndexFollowsTable == Spec => []IndexFollowsTable
<1>1. DirectoryInv => IndexFollowsTable
  BY DEF DirectoryInv
<1>2. QED BY <1>1, SpecDirectory, PTL

----------------------------------------------------------------------------
(* The write lock.                                                         *)

(* Who joins is behind all who wait already.                               *)
LEMMA QueueJoined ==
    ASSUME NEW S, NEW q \in Seq(S), Once(q), NEW w \in S, ~InQueue(q, w)
    PROVE  /\ Append(q, w) \in Seq(S) /\ Once(Append(q, w))
           /\ \A v : InQueue(Append(q, w), v) <=> InQueue(q, v) \/ v = w
           /\ \A u, v : Behind(q, u, v) => Behind(Append(q, w), u, v)
           /\ \A v : InQueue(q, v) => Behind(Append(q, w), w, v)
           /\ q # << >> => Append(q, w) # << >> /\ Head(Append(q, w)) = Head(q)
<1> DEFINE p == Append(q, w)
           n == Len(q)
<1>1. /\ n \in Nat /\ DOMAIN q = 1 .. n /\ DOMAIN p = 1 .. n + 1 /\ p \in Seq(S)
      /\ \A i \in 1 .. n : p[i] = q[i]
      /\ p[n + 1] = w
      /\ q # << >> => p # << >> /\ Head(p) = Head(q)
  OBVIOUS
<1> HIDE DEF p, n
<1>2. Once(p)
  BY <1>1 DEF Once, InQueue
<1>3. \A v : InQueue(p, v) <=> InQueue(q, v) \/ v = w
  <2>1. n + 1 \in DOMAIN p /\ \A i \in 1 .. n : i \in DOMAIN p
    BY <1>1
  <2>2. QED BY <1>1, <2>1 DEF InQueue
<1>4. \A u, v : Behind(q, u, v) => Behind(p, u, v)
  BY <1>1 DEF Behind
<1>5. \A v : InQueue(q, v) => Behind(p, w, v)
  <2>1. \A i \in 1 .. n : i < n + 1 /\ i \in DOMAIN p /\ n + 1 \in DOMAIN p
    BY <1>1
  <2>2. QED BY <1>1, <2>1 DEF InQueue, Behind
<1>6. QED BY <1>1, <1>2, <1>3, <1>4, <1>5 DEF p

(* The holder is behind nobody; the others keep their places.              *)
LEMMA QueueServed ==
    ASSUME NEW S, NEW q \in Seq(S), Once(q), q # << >>
    PROVE  /\ Tail(q) \in Seq(S) /\ Once(Tail(q))
           /\ \A v : InQueue(Tail(q), v) <=> InQueue(q, v) /\ v # Head(q)
           /\ \A u, v : Behind(q, u, v) /\ v # Head(q) => Behind(Tail(q), u, v)
           /\ \A u, v : Behind(q, u, v) => u # Head(q)
           /\ InQueue(q, Head(q))
<1> DEFINE p == Tail(q)
           n == Len(q)
<1>1. /\ n \in Nat \ {0} /\ DOMAIN q = 1 .. n /\ DOMAIN p = 1 .. n - 1 /\ p \in Seq(S)
      /\ \A i \in 1 .. n - 1 : p[i] = q[i + 1]
      /\ Head(q) = q[1]
  OBVIOUS
<1> HIDE DEF p, n
<1>2. /\ \A i \in DOMAIN p : i + 1 \in DOMAIN q /\ p[i] = q[i + 1]
      /\ \A i \in DOMAIN q \ {1} : i - 1 \in DOMAIN p /\ p[i - 1] = q[i]
  BY <1>1
<1>3. Once(p)
  <2> SUFFICES ASSUME NEW i \in DOMAIN p, NEW j \in DOMAIN p, p[i] = p[j] PROVE i = j
    BY DEF Once
  <2>1. i + 1 = j + 1
    BY <1>2 DEF Once
  <2>2. QED BY <1>1, <2>1
<1>4. \A i \in DOMAIN q : q[i] = Head(q) => i = 1
  BY <1>1 DEF Once
<1>5. \A v : InQueue(p, v) <=> InQueue(q, v) /\ v # Head(q)
  <2>1. ASSUME NEW v, InQueue(p, v) PROVE InQueue(q, v) /\ v # Head(q)
    <3>1. PICK i \in DOMAIN p : p[i] = v
      BY <2>1 DEF InQueue
    <3>2. i + 1 \in DOMAIN q /\ q[i + 1] = v /\ i + 1 # 1
      BY <1>1, <1>2, <3>1
    <3>3. QED BY <1>4, <3>2 DEF InQueue
  <2>2. ASSUME NEW v, InQueue(q, v), v # Head(q) PROVE InQueue(p, v)
    <3>1. PICK i \in DOMAIN q : q[i] = v
      BY <2>2 DEF InQueue
    <3>2. i # 1
      BY <1>1, <2>2, <3>1
    <3>3. QED BY <1>2, <3>1, <3>2 DEF InQueue
  <2>3. QED BY <2>1, <2>2
<1>6. ASSUME NEW u, NEW v, Behind(q, u, v)
      PROVE  u # Head(q) /\ (v # Head(q) => Behind(p, u, v))
  <2>1. PICK i \in DOMAIN q, j \in DOMAIN q : i < j /\ q[i] = v /\ q[j] = u
    BY <1>6 DEF Behind
  <2>2. j # 1
    BY <1>1, <2>1
  <2>3. ASSUME v # Head(q) PROVE Behind(p, u, v)
    <3>1. i # 1
      BY <1>1, <2>1, <2>3
    <3>2. i - 1 < j - 1
      BY <1>1, <2>1
    <3>3. QED BY <1>2, <2>1, <2>2, <3>1, <3>2 DEF Behind
  <2>4. QED BY <1>4, <2>1, <2>2, <2>3
<1>7. InQueue(q, Head(q))
  <2>1. 1 \in DOMAIN q
    BY <1>1
  <2>2. QED BY <1>1, <2>1 DEF InQueue
<1>8. QED BY <1>1, <1>3, <1>5, <1>6, <1>7 DEF p

----------------------------------------------------------------------------
(* Rows and tasks.                                                         *)

LEMMA InsertedRow ==
    ASSUME NEW item \in Items, NEW seen
    PROVE  IsRow(Inserted(item, seen))
BY ConstantsAssumption DEF IsRow, Inserted

LEMMA EnrichedRow ==
    ASSUME NEW a, IsRow(a), NEW item \in Items, NEW seen
    PROVE  IsRow(EnrichedWith(a, item, seen))
BY ConstantsAssumption DEF IsRow, EnrichedWith

LEMMA EmptyDomain == DOMAIN << >> = {}
OBVIOUS

LEMMA NoRetagTask ==
    /\ IsTask(NoRetag) /\ NoRetag.phase = "idle" /\ DOMAIN NoRetag.batch = {}
    /\ NoRetag.all = FALSE /\ NoRetag.todo = {} /\ NoRetag.last = 0
BY DEF NoRetag, IsTask

(* The tasks that loads and starts of the server set going.                *)
LEMMA NoRetagStarts ==
    /\ \A names :
          LET r == [NoRetag EXCEPT !.phase = "select", !.changes = names] IN
          /\ IsTask(r) /\ r.phase = "select" /\ r.changes = names /\ r.all = FALSE
          /\ r.todo = {} /\ r.last = 0 /\ DOMAIN r.batch = {}
    /\ LET r == [NoRetag EXCEPT !.phase = "read", !.all = TRUE] IN
       IsTask(r) /\ r.phase = "read" /\ r.all = TRUE /\ r.last = 0 /\ DOMAIN r.batch = {}
    /\ LET r == [NoRetag EXCEPT !.phase = "read", !.all = TRUE, !.rules = TRUE] IN
       IsTask(r) /\ r.phase = "read" /\ r.all = TRUE /\ r.last = 0 /\ DOMAIN r.batch = {}
<1> DEFINE all   == [NoRetag EXCEPT !.phase = "read", !.all = TRUE]
           rules == [NoRetag EXCEPT !.phase = "read", !.all = TRUE, !.rules = TRUE]
<1>1. ASSUME NEW names
      PROVE  LET r == [NoRetag EXCEPT !.phase = "select", !.changes = names] IN
             /\ IsTask(r) /\ r.phase = "select" /\ r.changes = names /\ r.all = FALSE
             /\ r.todo = {} /\ r.last = 0 /\ DOMAIN r.batch = {}
  <2> DEFINE r == [NoRetag EXCEPT !.phase = "select", !.changes = names]
  <2>1. /\ r.phase = "select" /\ r.changes = names /\ r.all = FALSE
        /\ r.todo = {} /\ r.last = 0 /\ r.batch = << >>
    BY DEF NoRetag
  <2>2. IsTask(r)
    BY <2>1 DEF NoRetag, IsTask
  <2>3. DOMAIN r.batch = {}
    <3> HIDE DEF r
    <3> QED BY <2>1, EmptyDomain
  <2>4. QED BY <2>1, <2>2, <2>3
<1>2. IsTask(all) /\ all.phase = "read" /\ all.all = TRUE /\ all.last = 0 /\ DOMAIN all.batch = {}
  <2>1. all.phase = "read" /\ all.all = TRUE /\ all.last = 0 /\ all.batch = << >>
    BY DEF NoRetag
  <2>2. IsTask(all)
    BY <2>1 DEF NoRetag, IsTask
  <2> HIDE DEF all
  <2>3. QED BY <2>1, <2>2, EmptyDomain
<1>3. /\ IsTask(rules) /\ rules.phase = "read" /\ rules.all = TRUE /\ rules.last = 0
      /\ DOMAIN rules.batch = {}
  <2>1. rules.phase = "read" /\ rules.all = TRUE /\ rules.last = 0 /\ rules.batch = << >>
    BY DEF NoRetag
  <2>2. IsTask(rules)
    BY <2>1 DEF NoRetag, IsTask
  <2> HIDE DEF rules
  <2>3. QED BY <2>1, <2>2, EmptyDomain
<1>4. QED BY <1>1, <1>2, <1>3

LEMMA NoJobIdle == IsJob(NoJob) /\ NoJob.phase = "idle"
BY DEF NoJob, IsJob

(* Who has a batch waits for the lock with it.                             *)
LEMMA TasksWait ==
    ASSUME Typed, NEW t \in Tasks, NEW i \in DOMAIN retag[t].batch
    PROVE  retag[t].phase = "wait" /\ InQueue(queue, t) /\ i \in Ids
<1>1. retag[t].phase = "wait" /\ i \in Ids
  BY DEF Typed, TasksSound
<1>2. t # Ingest
  BY ConstantsAssumption
<1>3. QED BY <1>1, <1>2 DEF Typed, QueueSound, Waits

(* Steps that touch neither articles, index nor tasks.                     *)
LEMMA QuietTags ==
    ASSUME TagsSettle, UNCHANGED <<index, article, retag, spoiled>>,
           \A u, t : Behind(queue, u, t) => Behind(queue', u, t)
    PROVE  TagsSettle'
BY DEF TagsSettle, Settles, IsFollowed

LEMMA UntouchedStore ==
    ASSUME StoreInv, UNCHANGED <<index, store, retag, spoiled>> PROVE StoreInv'
<1>1. Typed'
  BY DEF StoreInv, store, Typed, QueueSound, Waits, TasksSound, Ids, JobSound, InTransaction, Holds
<1>2. TagsSettle'
  BY QuietTags DEF StoreInv, store
<1>3. QED BY <1>1, <1>2 DEF StoreInv

LEMMA TagItemStore ==
    ASSUME StoreInv, NEW target, NEW item \in Items, TagItem(target, item) PROVE StoreInv'
<1>1. /\ job.phase = "idle" /\ queue' = Append(queue, Ingest)
      /\ UNCHANGED <<index, article, nextId, retag, spoiled>>
      /\ IsJob(job') /\ job'.phase = "wait" /\ job'.item = item
  BY DEF TagItem, Enqueue, directory, NoJob, IsJob
<1>2. /\ queue \in Seq(Tasks \union {Ingest}) /\ Once(queue) /\ ~InQueue(queue, Ingest)
  BY <1>1 DEF StoreInv, Typed, QueueSound, Waits
<1>3. /\ queue' \in Seq(Tasks \union {Ingest}) /\ Once(queue')
      /\ \A v : InQueue(queue', v) <=> InQueue(queue, v) \/ v = Ingest
      /\ \A u, v : Behind(queue, u, v) => Behind(queue', u, v)
  BY <1>1, <1>2, QueueJoined
<1>4. QueueSound'
  BY <1>1, <1>3, ConstantsAssumption DEF StoreInv, Typed, QueueSound, Waits
<1>5. TasksSound' /\ JobSound'
  BY <1>1 DEF StoreInv, Typed, TasksSound, Ids, JobSound, InTransaction
<1>6. Typed'
  BY <1>1, <1>4, <1>5 DEF StoreInv, Typed, Ids
<1>7. TagsSettle'
  BY <1>1, <1>3, QuietTags DEF StoreInv
<1>8. QED BY <1>6, <1>7 DEF StoreInv

LEMMA WriteItemStore == ASSUME StoreInv, WriteItem PROVE StoreInv'
<1> DEFINE seen == IF job.target = 0 THEN job.seen ELSE index
           row  == IF job.target \in DOMAIN article
                   THEN Enriched(article[job.target], job.item)
                   ELSE Inserted(job.item, seen)
<1>1. /\ job.phase = "wait" /\ Holds(Ingest) /\ IsJob(job) /\ job.item \in Items
      /\ UNCHANGED <<index, article, nextId, queue, retag, spoiled>>
      /\ job' = [job EXCEPT !.phase = "open", !.seen = seen, !.row = row]
  BY DEF WriteItem, directory, StoreInv, Typed, JobSound
<1> HIDE DEF row
<1>2. /\ IsJob(job') /\ job'.phase = "open" /\ job'.seen = seen /\ job'.row = row
      /\ job'.target = job.target /\ job'.item = job.item
  BY <1>1 DEF IsJob
<1>3. row = IF job.target \in DOMAIN article
            THEN EnrichedWith(article[job.target], job.item, seen)
            ELSE Inserted(job.item, seen)
  <2>1. CASE job.target \in DOMAIN article
    <3>1. job.target # 0
      BY <2>1 DEF StoreInv, Typed, Ids
    <3>2. QED BY <2>1, <3>1 DEF row, Enriched, EnrichedWith, tag
  <2>2. CASE job.target \notin DOMAIN article
    BY <2>2 DEF row
  <2>3. QED BY <2>1, <2>2
<1> HIDE DEF seen
<1>4. JobSound'
  BY <1>1, <1>2, <1>3 DEF JobSound, InTransaction, Holds
<1>5. QueueSound' /\ TasksSound'
  BY <1>1, <1>2 DEF StoreInv, Typed, QueueSound, Waits, TasksSound, Ids
<1>6. Typed'
  BY <1>1, <1>4, <1>5 DEF StoreInv, Typed, Ids
<1>7. TagsSettle'
  BY <1>1, QuietTags DEF StoreInv
<1>8. QED BY <1>6, <1>7 DEF StoreInv

(* The commit: a row with tags of the current index is right, one that     *)
(* only gains tags of its source is as it was, every other is spoiled.     *)
LEMMA CommitItemStore == ASSUME StoreInv, CommitItem PROVE StoreInv'
<1> DEFINE new == job.target \notin DOMAIN article
           id  == IF new THEN nextId ELSE job.target
           old == article[job.target]
<1>1. /\ InTransaction /\ job.phase = "open" /\ Holds(Ingest) /\ job.item \in Items
      /\ job.row = IF new THEN Inserted(job.item, job.seen)
                   ELSE EnrichedWith(old, job.item, job.seen)
      /\ nextId \in Nat \ {0} /\ DOMAIN article \subseteq Ids
      /\ \A i \in DOMAIN article : IsRow(article[i])
  BY DEF CommitItem, StoreInv, Typed, JobSound, InTransaction
<1>2. /\ article' = [i \in DOMAIN article \union {id} |-> IF i = id THEN job.row ELSE article[i]]
      /\ nextId' = IF new THEN nextId + 1 ELSE nextId
      /\ queue' = Tail(queue) /\ job' = NoJob
      /\ UNCHANGED <<index, retag>>
  BY DEF CommitItem, directory
<1>3. /\ spoiled \subseteq spoiled'
      /\ \/ id \in spoiled'
         \/ ~new /\ ~Fills(article[id], job.item)
         \/ job.seen = index /\ \A t \in Tasks : id \notin DOMAIN retag[t].batch
  BY DEF CommitItem
<1>4. /\ DOMAIN article' = DOMAIN article \union {id} /\ article'[id] = job.row
      /\ \A i \in DOMAIN article \ {id} : article'[i] = article[i]
  BY <1>2
<1>5. IsRow(job.row) /\ id \in Nat \ {0} /\ nextId' \in Nat \ {0}
      /\ Ids \subseteq Ids' /\ id \in Ids'
  <2>1. IsRow(job.row)
    BY <1>1, InsertedRow, EnrichedRow
  <2>2. QED BY <1>1, <1>2, <2>1 DEF Ids
<1> HIDE DEF id
<1>6. /\ queue \in Seq(Tasks \union {Ingest}) /\ Once(queue) /\ queue # << >> /\ Head(queue) = Ingest
  BY <1>1 DEF StoreInv, Typed, QueueSound, Holds
<1>7. /\ queue' \in Seq(Tasks \union {Ingest}) /\ Once(queue')
      /\ \A v : InQueue(queue', v) <=> InQueue(queue, v) /\ v # Ingest
      /\ \A u, v : Behind(queue, u, v) /\ v # Ingest => Behind(queue', u, v)
  BY <1>2, <1>6, QueueServed
<1>8. QueueSound'
  BY <1>2, <1>7, NoJobIdle, ConstantsAssumption DEF StoreInv, Typed, QueueSound, Waits
<1>9. TasksSound' /\ JobSound'
  BY <1>2, <1>5, NoJobIdle DEF StoreInv, Typed, TasksSound, JobSound, InTransaction
<1>10. DOMAIN article' \subseteq Ids' /\ \A i \in DOMAIN article' : IsRow(article'[i])
  BY <1>1, <1>4, <1>5
<1>11. Typed'
  BY <1>5, <1>8, <1>9, <1>10 DEF Typed
<1>12. ASSUME NEW i \in DOMAIN article' \ spoiled', NEW n \in article'[i].text \ article'[i].fixed
       PROVE  Settles(i, n)' /\ \A t \in Tasks : IsFollowed(t, i, n)'
  <2>1. CASE /\ i \in DOMAIN article /\ n \in article[i].text \ article[i].fixed
             /\ article'[i].derived = article[i].derived
    <3>1. Settles(i, n) /\ \A t \in Tasks : IsFollowed(t, i, n)
      BY <1>3, <2>1 DEF StoreInv, TagsSettle
    <3>2. \A t \in Tasks : Coming(retag[t], DOMAIN article, i, n) => Coming(retag[t], DOMAIN article', i, n)
      BY <1>4 DEF Coming, LeftOf
    <3>3. QED BY <1>2, <1>7, <2>1, <3>1, <3>2, ConstantsAssumption DEF Settles, IsFollowed
  <2>2. CASE i # id
    BY <1>4, <2>1, <2>2
  <2>3. CASE i = id /\ ~new /\ ~Fills(article[id], job.item)
    <3>1. /\ i \in DOMAIN article /\ old = article[i]
          /\ article'[i] = EnrichedWith(article[i], job.item, job.seen)
      BY <1>1, <1>4, <2>3 DEF id
    <3>2. /\ article'[i].text = article[i].text /\ article'[i].derived = article[i].derived
          /\ article[i].fixed \subseteq article'[i].fixed
      BY <2>3, <3>1 DEF EnrichedWith
    <3>3. QED BY <2>1, <3>1, <3>2
  <2>4. CASE i = id /\ (new \/ Fills(article[id], job.item))
    <3>1. job.seen = index /\ \A t \in Tasks : id \notin DOMAIN retag[t].batch
      BY <1>3, <2>4
    <3>2. article'[i].derived = (article'[i].text \cap index) \ article'[i].fixed
      <4>1. CASE new
        BY <1>1, <1>4, <2>4, <3>1, <4>1 DEF Inserted
      <4>2. CASE ~new
        <5>1. article[id] = old
          BY <4>2 DEF id
        <5>2. QED BY <1>1, <1>4, <2>4, <3>1, <4>2, <5>1 DEF EnrichedWith
      <4>3. QED BY <4>1, <4>2
    <3>3. QED BY <1>2, <2>4, <3>1, <3>2 DEF Settles, IsFollowed, HasWrong
  <2>5. QED BY <2>2, <2>3, <2>4
<1>13. QED BY <1>11, <1>12 DEF StoreInv, TagsSettle

LEMMA PurgeArticleStore ==
    ASSUME StoreInv, NEW i \in DOMAIN article, PurgeArticle(i) PROVE StoreInv'
<1>1. /\ ~InTransaction /\ article' = Restrict(article, DOMAIN article \ {i})
      /\ spoiled' = spoiled \ {i} /\ UNCHANGED <<index, nextId, queue, job, retag>>
  BY DEF PurgeArticle, directory
<1>2. /\ DOMAIN article' = DOMAIN article \ {i}
      /\ \A k \in DOMAIN article' : article'[k] = article[k]
  BY <1>1 DEF Restrict
<1>3. Typed'
  BY <1>1, <1>2 DEF StoreInv, Typed, QueueSound, Waits, TasksSound, Ids, JobSound, InTransaction
<1>4. \A t \in Tasks, k \in DOMAIN article' : \A n :
          Coming(retag[t], DOMAIN article, k, n) => Coming(retag[t], DOMAIN article', k, n)
  BY <1>2 DEF Coming, LeftOf
<1>5. ASSUME NEW k \in DOMAIN article' \ spoiled', NEW n \in article'[k].text \ article'[k].fixed
      PROVE  Settles(k, n)' /\ \A t \in Tasks : IsFollowed(t, k, n)'
  <2>1. k \in DOMAIN article \ spoiled /\ n \in article[k].text \ article[k].fixed
    BY <1>1, <1>2, <1>5
  <2>2. Settles(k, n) /\ \A t \in Tasks : IsFollowed(t, k, n)
    BY <2>1 DEF StoreInv, TagsSettle
  <2>3. QED BY <1>1, <1>2, <1>4, <2>2 DEF Settles, IsFollowed
<1>6. QED BY <1>3, <1>5 DEF StoreInv, TagsSettle

----------------------------------------------------------------------------
(* The tasks that renew tags.                                              *)

(* A task that goes on without the lock keeps its place, if it has one.    *)
LEMMA TaskMoves ==
    ASSUME Typed, NEW t \in Tasks, NEW r, retag' = [retag EXCEPT ![t] = r],
           IsTask(r), r.phase # "wait", retag[t].phase # "wait", DOMAIN r.batch = {},
           r.phase = "select" => ~r.all, ~r.all => r.todo \subseteq Ids,
           UNCHANGED <<article, nextId, queue, job>>
    PROVE  /\ Typed'
           /\ retag'[t] = r /\ \A u \in Tasks \ {t} : retag'[u] = retag[u]
<1>1. DOMAIN retag' = Tasks /\ retag'[t] = r /\ \A u \in Tasks \ {t} : retag'[u] = retag[u]
  BY DEF Typed, TasksSound
<1>2. TasksSound'
  BY <1>1 DEF Typed, TasksSound, Ids
<1>3. QueueSound'
  BY <1>1, ConstantsAssumption DEF Typed, QueueSound, Waits
<1>4. QED BY <1>1, <1>2, <1>3 DEF Typed, Ids, JobSound, InTransaction, Holds

LEMMA SelectArticlesStore ==
    ASSUME StoreInv, NEW t \in Tasks, SelectArticles(t) PROVE StoreInv'
<1> DEFINE todo == {i \in DOMAIN article : article[i].text \cap retag[t].changes # {}}
           r    == [retag[t] EXCEPT !.phase = "read", !.changes = {}, !.todo = todo]
<1>1. /\ retag[t].phase = "select" /\ ~retag[t].all /\ IsTask(retag[t])
      /\ DOMAIN retag[t].batch = {} /\ DOMAIN article \subseteq Ids
      /\ retag' = [retag EXCEPT ![t] = r]
      /\ UNCHANGED <<index, article, nextId, queue, job, spoiled>>
  BY DEF SelectArticles, directory, store, StoreInv, Typed, TasksSound
<1>2. todo \subseteq Ids /\ todo \subseteq Nat
  BY <1>1 DEF Ids
<1> HIDE DEF todo
<1>3. /\ IsTask(r) /\ r.phase = "read" /\ r.todo = todo /\ ~r.all
      /\ r.batch = retag[t].batch
  BY <1>1, <1>2 DEF IsTask
<1> HIDE DEF r
<1>4. Typed' /\ retag'[t] = r /\ \A u \in Tasks \ {t} : retag'[u] = retag[u]
  BY <1>1, <1>2, <1>3, TaskMoves DEF StoreInv
<1>5. ASSUME NEW i \in DOMAIN article \ spoiled, NEW n \in article[i].text \ article[i].fixed
      PROVE  Settles(i, n)' /\ \A v \in Tasks : IsFollowed(v, i, n)'
  <2>1. Settles(i, n) /\ \A v \in Tasks : IsFollowed(v, i, n)
    BY <1>5 DEF StoreInv, TagsSettle
  <2>2. \A u \in Tasks : Coming(retag[u], DOMAIN article, i, n) => Coming(retag'[u], DOMAIN article', i, n)
    <3>1. Coming(retag[t], DOMAIN article, i, n) => i \in todo
      BY <1>1, <1>5 DEF Coming, todo
    <3>2. i \in todo => Coming(r, DOMAIN article', i, n)
      BY <1>3 DEF Coming, LeftOf
    <3>3. QED BY <1>1, <1>4, <3>1, <3>2
  <2>3. \A u \in Tasks : retag'[u].batch = retag[u].batch
    BY <1>3, <1>4
  <2>4. QED BY <1>1, <2>1, <2>2, <2>3 DEF Settles, IsFollowed, HasRight, HasWrong
<1>6. QED BY <1>1, <1>4, <1>5 DEF StoreInv, TagsSettle

LEMMA EndRetagStore ==
    ASSUME StoreInv, NEW t \in Tasks, EndRetag(t) PROVE StoreInv'
<1>1. /\ retag[t].phase = "read" /\ Left(t) = {} /\ DOMAIN retag[t].batch = {}
      /\ retag' = [retag EXCEPT ![t] = NoRetag]
      /\ UNCHANGED <<index, article, nextId, queue, job, spoiled>>
  BY DEF EndRetag, EndOfRetag, directory, store, StoreInv, Typed, TasksSound
<1>2. Typed' /\ \A u \in Tasks \ {t} : retag'[u] = retag[u]
  BY <1>1, NoRetagTask, TaskMoves DEF StoreInv
<1>3. \A i, n : ~Coming(retag[t], DOMAIN article, i, n) /\ ~HasRight(retag[t], i, n, index)
  BY <1>1 DEF Coming, LeftOf, Left, HasRight
<1>4. retag'[t] = NoRetag
  BY <1>1 DEF StoreInv, Typed, TasksSound
<1>5. TagsSettle'
  BY <1>1, <1>2, <1>3, <1>4, NoRetagTask DEF StoreInv, TagsSettle, Settles, IsFollowed, HasWrong
<1>6. QED BY <1>2, <1>5 DEF StoreInv

(* The next batch: the first ids, so that those after it are left.         *)
LEMMA FirstChunk ==
    ASSUME NEW b \in Nat, NEW L \in SUBSET (1 .. b), L # {}
    PROVE  LET chunk == {i \in L : Cardinality({k \in L : k < i}) < Batch}
           IN  Max(chunk) \in chunk /\ \A i \in L \ chunk : i > Max(chunk)
<1> DEFINE below(i) == {k \in L : k < i}
           chunk == {i \in L : Cardinality(below(i)) < Batch}
<1>1. IsFiniteSet(L) /\ \A i \in L : i \in 0 .. b
  BY FS_BoundedSetOfNaturals
<1>2. \A i : IsFiniteSet(below(i)) /\ Cardinality(below(i)) \in Nat
  BY <1>1, FS_Subset, FS_CardinalityType
<1>3. PICK m \in L : \A i \in L : m <= i
  <2>1. L \in SUBSET Nat
    OBVIOUS
  <2>2. QED BY <2>1, LeastElement
<1>4. m \in chunk
  <2>1. below(m) = {}
    <3> HIDE DEF chunk
    <3>1. \A k \in L : ~(k < m)
      BY ONLY <1>1, <1>3
    <3>2. QED BY <3>1
  <2>2. Cardinality(below(m)) = 0
    BY <2>1, FS_EmptySet
  <2>3. QED BY <2>2, ConstantsAssumption
<1>5. ASSUME NEW i \in L, NEW j \in L, i <= j, j \in chunk PROVE i \in chunk
  <2>1. below(i) \subseteq below(j)
    <3> HIDE DEF chunk
    <3>1. \A k \in L : k < i => k < j
      BY ONLY <1>1, <1>5
    <3>2. QED BY <3>1
  <2> HIDE DEF below
  <2>2. Cardinality(below(i)) <= Cardinality(below(j))
    BY <1>2, <2>1, FS_Subset
  <2>3. QED BY <1>2, <1>5, <2>2, ConstantsAssumption
<1>6. chunk \in SUBSET (0 .. b) /\ chunk \subseteq L
  <2>1. chunk \subseteq L
    OBVIOUS
  <2> HIDE DEF chunk
  <2>2. QED BY <1>1, <2>1
<1> HIDE DEF chunk, below
<1>7. Max(chunk) \in chunk
  BY <1>4, <1>6, GreatestElement
<1>8. \A i \in L \ chunk : i > Max(chunk)
  <2> SUFFICES ASSUME NEW i \in L \ chunk PROVE i > Max(chunk)
    OBVIOUS
  <2>1. ~(i <= Max(chunk))
    BY <1>5, <1>6, <1>7
  <2>2. i \in 0 .. b /\ Max(chunk) \in 0 .. b
    BY <1>1, <1>6, <1>7
  <2>3. QED BY ONLY <2>1, <2>2
<1>9. QED BY <1>7, <1>8 DEF chunk, below

(* Reading a batch: what was left is left, or in the batch as it should be.*)
LEMMA ReadBatchStore ==
    ASSUME StoreInv, NEW t \in Tasks, ReadBatch(t) PROVE StoreInv'
<1> DEFINE chunk == {i \in Left(t) : Cardinality({k \in Left(t) : k < i}) < Batch}
           batch == [i \in chunk \cap DOMAIN article |-> tag(article[i].text)]
           todo  == retag[t].todo \ chunk
           r     == [retag[t] EXCEPT !.phase = "wait", !.todo = todo, !.last = Max(chunk), !.batch = batch]
<1>1. /\ retag[t].phase = "read" /\ Left(t) # {} /\ IsTask(retag[t])
      /\ DOMAIN retag[t].batch = {}
      /\ retag' = [retag EXCEPT ![t] = r] /\ queue' = Append(queue, t)
      /\ UNCHANGED <<index, article, nextId, job, spoiled>>
  BY DEF ReadBatch, Enqueue, directory, StoreInv, Typed, TasksSound
<1>2. /\ nextId \in Nat \ {0} /\ DOMAIN article \subseteq Ids
      /\ \A i \in DOMAIN article : IsRow(article[i])
      /\ ~retag[t].all => retag[t].todo \subseteq Ids
  BY DEF StoreInv, Typed, TasksSound
<1>3. Left(t) \in SUBSET (1 .. nextId - 1) /\ Left(t) = LeftOf(retag[t], DOMAIN article)
  BY <1>2 DEF Left, LeftOf, Ids
<1>4. Max(chunk) \in chunk /\ \A i \in Left(t) \ chunk : i > Max(chunk)
  <2>1. nextId - 1 \in Nat
    BY <1>2
  <2>2. QED BY ONLY <1>1, <1>3, <2>1, FirstChunk
<1>5. chunk \subseteq Left(t)
  OBVIOUS
<1>6. /\ DOMAIN batch = chunk \cap DOMAIN article
      /\ \A i \in DOMAIN batch : batch[i] = article[i].text \cap index /\ batch[i] \subseteq Names
  BY <1>2 DEF tag, IsRow
<1> HIDE DEF chunk, batch
<1>7. todo \subseteq retag[t].todo /\ todo \in SUBSET Nat
  BY <1>1 DEF IsTask
<1> HIDE DEF todo
<1>8. Max(chunk) \in Nat
  BY <1>3, <1>4, <1>5
<1>9. /\ IsTask(r) /\ r.phase = "wait" /\ r.todo = todo /\ r.last = Max(chunk) /\ r.batch = batch
      /\ r.all = retag[t].all
  BY <1>1, <1>7, <1>8 DEF IsTask
<1> HIDE DEF r
<1>10. DOMAIN retag' = Tasks /\ retag'[t] = r /\ \A u \in Tasks \ {t} : retag'[u] = retag[u]
  BY <1>1 DEF StoreInv, Typed, TasksSound
<1>11. t # Ingest /\ queue \in Seq(Tasks \union {Ingest}) /\ Once(queue) /\ ~InQueue(queue, t)
  BY <1>1, ConstantsAssumption DEF StoreInv, Typed, QueueSound, Waits
<1>12. /\ queue' \in Seq(Tasks \union {Ingest}) /\ Once(queue')
       /\ \A v : InQueue(queue', v) <=> InQueue(queue, v) \/ v = t
       /\ \A u, v : Behind(queue, u, v) => Behind(queue', u, v)
       /\ \A v : InQueue(queue, v) => Behind(queue', t, v)
       /\ queue # << >> => queue' # << >> /\ Head(queue') = Head(queue)
  BY <1>1, <1>11, QueueJoined
<1>13. QueueSound'
  BY <1>1, <1>9, <1>10, <1>11, <1>12, ConstantsAssumption DEF StoreInv, Typed, QueueSound, Waits
<1>14. TasksSound'
  <2>1. /\ IsTask(r) /\ r.phase # "select" /\ (~r.all => r.todo \subseteq Ids)
        /\ \A i \in DOMAIN r.batch : i \in Ids /\ r.batch[i] \subseteq Names
    BY <1>2, <1>6, <1>7, <1>9
  <2>2. QED BY <1>1, <1>9, <1>10, <2>1 DEF StoreInv, Typed, TasksSound, Ids
<1>15. JobSound'
  BY <1>1, <1>12 DEF StoreInv, Typed, JobSound, InTransaction, Holds
<1>16. Typed'
  BY <1>1, <1>13, <1>14, <1>15 DEF StoreInv, Typed, Ids
<1>17. ASSUME NEW i \in DOMAIN article \ spoiled, NEW n \in article[i].text \ article[i].fixed
       PROVE  Settles(i, n)' /\ \A v \in Tasks : IsFollowed(v, i, n)'
  <2>1. Settles(i, n) /\ \A v \in Tasks : IsFollowed(v, i, n)
    BY <1>17 DEF StoreInv, TagsSettle
  <2>2. \A names : ~HasRight(retag[t], i, n, names)
    BY <1>1 DEF HasRight
  <2>3. Coming(retag[t], DOMAIN article, i, n)
            => Coming(r, DOMAIN article, i, n) \/ HasRight(r, i, n, index)
    <3> SUFFICES ASSUME Coming(retag[t], DOMAIN article, i, n)
                 PROVE  Coming(r, DOMAIN article, i, n) \/ HasRight(r, i, n, index)
      OBVIOUS
    <3>1. i \in Left(t)
      BY <1>1, <1>3 DEF Coming
    <3>2. CASE i \in chunk
      BY <1>6, <1>9, <1>17, <3>2 DEF HasRight
    <3>3. CASE i \notin chunk
      <4>1. i > Max(chunk)
        BY <1>4, <3>1, <3>3
      <4>2. i \in LeftOf(r, DOMAIN article)
        BY <1>3, <1>9, <3>1, <3>3, <4>1 DEF LeftOf, todo
      <4>3. QED BY <1>9, <4>2 DEF Coming
    <3>4. QED BY <3>2, <3>3
  <2>4. ~HasWrong(r, i, n, index)
    BY <1>6, <1>9, <1>17 DEF HasWrong
  <2>5. Settles(i, n)'
    BY <1>1, <1>10, <2>1, <2>2, <2>3 DEF Settles
  <2>6. ASSUME NEW v \in Tasks, HasWrong(retag'[v], i, n, index')
        PROVE  \E u \in Tasks : \/ Coming(retag'[u], DOMAIN article', i, n)
                                \/ HasRight(retag'[u], i, n, index') /\ Behind(queue', u, v)
    <3>1. v # t /\ HasWrong(retag[v], i, n, index)
      BY <1>1, <1>10, <2>4, <2>6
    <3>2. PICK u \in Tasks : \/ Coming(retag[u], DOMAIN article, i, n)
                             \/ HasRight(retag[u], i, n, index) /\ Behind(queue, u, v)
      BY <2>1, <3>1 DEF IsFollowed
    <3>3. Behind(queue', t, v)
      <4>1. InQueue(queue, v)
        BY <3>1, TasksWait DEF StoreInv, HasWrong
      <4>2. QED BY <1>12, <4>1
    <3>4. CASE u = t
      BY <1>1, <1>10, <2>2, <2>3, <3>2, <3>3, <3>4
    <3>5. CASE u # t
      BY <1>1, <1>10, <1>12, <3>2, <3>5
    <3>6. QED BY <3>4, <3>5
  <2>7. QED BY <2>5, <2>6 DEF IsFollowed
<1>18. QED BY <1>1, <1>16, <1>17 DEF StoreInv, TagsSettle

(* Writing a batch: who waits behind has read later, so what the batch has *)
(* wrong by now is renewed after it.                                       *)
LEMMA WriteBatchStore ==
    ASSUME StoreInv, NEW t \in Tasks, WriteBatch(t) PROVE StoreInv'
<1> DEFINE batch   == retag[t].batch
           breaks  == \E i \in DOMAIN batch : i \notin DOMAIN article /\ batch[i] # {}
           renewed == [i \in DOMAIN article |->
                          IF i \in DOMAIN batch
                          THEN [article[i] EXCEPT !.derived = batch[i] \ article[i].fixed]
                          ELSE article[i]]
           next    == [retag[t] EXCEPT !.phase = "read", !.batch = << >>]
<1>1. /\ Holds(t) /\ queue' = Tail(queue) /\ UNCHANGED <<index, nextId, job>>
      /\ queue \in Seq(Tasks \union {Ingest}) /\ Once(queue) /\ queue # << >> /\ Head(queue) = t
  BY DEF WriteBatch, directory, StoreInv, Typed, QueueSound, Holds
<1>2. /\ queue' \in Seq(Tasks \union {Ingest}) /\ Once(queue')
      /\ \A v : InQueue(queue', v) <=> InQueue(queue, v) /\ v # t
      /\ \A u, v : Behind(queue, u, v) /\ v # t => Behind(queue', u, v)
      /\ \A u, v : Behind(queue, u, v) => u # t
      /\ InQueue(queue, t)
  BY <1>1, QueueServed
<1>3. /\ retag[t].phase = "wait" /\ t # Ingest /\ ~InTransaction /\ IsTask(retag[t])
      /\ ~retag[t].all => retag[t].todo \subseteq Ids
      /\ \A i \in DOMAIN batch : batch[i] \subseteq Names
  <2>1. t # Ingest
    BY ConstantsAssumption
  <2>2. QED BY <1>1, <1>2, <2>1 DEF StoreInv, Typed, QueueSound, TasksSound, JobSound, Holds, Waits
<1>4. ASSUME NEW r, retag' = [retag EXCEPT ![t] = r], IsTask(r), r.phase \in {"idle", "read"},
             DOMAIN r.batch = {}, ~r.all => r.todo \subseteq Ids,
             DOMAIN article' = DOMAIN article, \A i \in DOMAIN article' : IsRow(article'[i])
      PROVE  /\ Typed'
             /\ retag'[t] = r /\ \A u \in Tasks \ {t} : retag'[u] = retag[u]
  <2>1. DOMAIN retag' = Tasks /\ retag'[t] = r /\ \A u \in Tasks \ {t} : retag'[u] = retag[u]
    BY <1>4 DEF StoreInv, Typed, TasksSound
  <2>2. TasksSound'
    BY <1>1, <1>4, <2>1 DEF StoreInv, Typed, TasksSound, Ids
  <2>3. QueueSound'
    BY <1>1, <1>2, <1>4, <2>1, ConstantsAssumption DEF StoreInv, Typed, QueueSound, Waits
  <2>4. JobSound'
    BY <1>1, <1>3 DEF StoreInv, Typed, JobSound, InTransaction
  <2>5. QED BY <1>1, <1>4, <2>1, <2>2, <2>3, <2>4 DEF StoreInv, Typed, Ids
<1>5. CASE breaks
  <2>1. /\ retag' = [retag EXCEPT ![t] = NoRetag] /\ UNCHANGED article
        /\ spoiled' = spoiled \union ((DOMAIN batch \union Left(t)) \cap DOMAIN article)
    BY <1>5 DEF WriteBatch
  <2>2. Typed' /\ retag'[t] = NoRetag /\ \A u \in Tasks \ {t} : retag'[u] = retag[u]
    BY <1>4, <2>1, NoRetagTask DEF StoreInv, Typed
  <2>3. ASSUME NEW i \in DOMAIN article \ spoiled', NEW n \in article[i].text \ article[i].fixed
        PROVE  Settles(i, n)' /\ \A v \in Tasks : IsFollowed(v, i, n)'
    <3>1. Settles(i, n) /\ \A v \in Tasks : IsFollowed(v, i, n)
      BY <2>1, <2>3 DEF StoreInv, TagsSettle
    <3>2. ~Coming(retag[t], DOMAIN article, i, n) /\ ~HasRight(retag[t], i, n, index)
      BY <1>3, <2>1, <2>3 DEF Coming, HasRight, Left, LeftOf
    <3>3. ~HasWrong(NoRetag, i, n, index)
      BY NoRetagTask DEF HasWrong
    <3>4. QED BY <1>1, <1>2, <2>1, <2>2, <3>1, <3>2, <3>3 DEF Settles, IsFollowed
  <2>4. QED BY <2>1, <2>2, <2>3 DEF StoreInv, TagsSettle
<1>6. CASE ~breaks
  <2>1. /\ retag' = [retag EXCEPT ![t] = next] /\ article' = renewed
    BY <1>6 DEF WriteBatch
  <2>2. \A i \in spoiled \ spoiled' :
           /\ i \in DOMAIN batch \cap DOMAIN article /\ renewed[i].derived = Right(renewed[i])
           /\ \A u \in Tasks \ {t} : i \in DOMAIN retag[u].batch =>
                 retag[u].batch[i] \ article[i].fixed = Right(renewed[i])
    BY <1>6 DEF WriteBatch
  <2>3. spoiled' \subseteq spoiled
    BY <1>6 DEF WriteBatch
  <2>4. /\ IsTask(next) /\ next.phase = "read" /\ DOMAIN next.batch = {}
        /\ next.all = retag[t].all /\ next.todo = retag[t].todo /\ next.last = retag[t].last
    <3>1. /\ next.phase = "read" /\ next.batch = << >> /\ next.changes = retag[t].changes
          /\ next.all = retag[t].all /\ next.todo = retag[t].todo /\ next.last = retag[t].last
      BY <1>3 DEF IsTask
    <3>2. IsTask(next)
      BY <1>3, <3>1 DEF IsTask
    <3> HIDE DEF next
    <3>3. QED BY <3>1, <3>2, EmptyDomain
  <2> HIDE DEF next
  <2>5. \A i \in DOMAIN article : IsRow(article[i])
    BY DEF StoreInv, Typed
  <2>6. /\ DOMAIN renewed = DOMAIN article
        /\ \A i \in DOMAIN article :
              /\ IsRow(renewed[i])
              /\ renewed[i].text = article[i].text /\ renewed[i].fixed = article[i].fixed
              /\ renewed[i].derived = IF i \in DOMAIN batch THEN batch[i] \ article[i].fixed
                                                            ELSE article[i].derived
    BY <1>3, <2>5 DEF IsRow
  <2> HIDE DEF renewed
  <2>7. Typed' /\ retag'[t] = next /\ \A u \in Tasks \ {t} : retag'[u] = retag[u]
    BY <1>3, <1>4, <2>1, <2>4, <2>6
  <2>8. \A u \in Tasks : \A i, n : Coming(retag[u], DOMAIN article, i, n) => Coming(retag'[u], DOMAIN article', i, n)
    BY <1>3, <2>1, <2>4, <2>6, <2>7 DEF Coming, LeftOf
  <2>9. ASSUME NEW i \in DOMAIN article' \ spoiled', NEW n \in article'[i].text \ article'[i].fixed
        PROVE  Settles(i, n)' /\ \A v \in Tasks : IsFollowed(v, i, n)'
    <3>1. /\ i \in DOMAIN article /\ n \in article[i].text \ article[i].fixed
          /\ article'[i].derived = IF i \in DOMAIN batch THEN batch[i] \ article[i].fixed
                                                         ELSE article[i].derived
      BY <2>1, <2>6, <2>9
    <3>2. \A names : ~HasWrong(retag'[t], i, n, names) /\ ~HasRight(retag'[t], i, n, names)
      BY <2>4, <2>7 DEF HasWrong, HasRight
    <3>3. CASE i \in spoiled
      <4>1. /\ i \in spoiled \ spoiled'
            /\ Right(renewed[i]) = (article[i].text \cap index) \ article[i].fixed
        BY <2>6, <2>9, <3>1, <3>3 DEF Right, tag
      <4>2. n \in Right(renewed[i]) <=> n \in index
        BY <3>1, <4>1
      <4>3. article'[i].derived = Right(renewed[i])
        BY <2>1, <2>2, <4>1
      <4>4. Settles(i, n)'
        BY <1>1, <4>2, <4>3 DEF Settles
      <4>5. ASSUME NEW v \in Tasks \ {t} PROVE ~HasWrong(retag[v], i, n, index)
        BY <2>2, <3>1, <4>1, <4>2 DEF HasWrong
      <4>6. QED BY <1>1, <2>7, <3>2, <4>4, <4>5 DEF IsFollowed
    <3>4. CASE i \notin spoiled
      <4>1. Settles(i, n) /\ \A v \in Tasks : IsFollowed(v, i, n)
        BY <3>1, <3>4 DEF StoreInv, TagsSettle
      <4>2. ASSUME NEW v \in Tasks, HasWrong(retag[v], i, n, index)
            PROVE  \E u \in Tasks : \/ Coming(retag'[u], DOMAIN article', i, n)
                                    \/ u # t /\ HasRight(retag'[u], i, n, index') /\ Behind(queue, u, v)
        <5>1. PICK u \in Tasks : \/ Coming(retag[u], DOMAIN article, i, n)
                                 \/ HasRight(retag[u], i, n, index) /\ Behind(queue, u, v)
          BY <4>1, <4>2 DEF IsFollowed
        <5>2. QED BY <1>1, <1>2, <2>7, <2>8, <5>1
      <4>3. Settles(i, n)'
        <5>1. CASE HasWrong(retag[t], i, n, index)
          BY <4>2, <5>1 DEF Settles
        <5>2. CASE HasRight(retag[t], i, n, index)
          BY <1>1, <3>1, <5>2 DEF Settles, HasRight
        <5>3. CASE i \notin DOMAIN batch
          <6>1. ~HasRight(retag[t], i, n, index)
            BY <5>3 DEF HasRight
          <6>2. QED BY <1>1, <2>7, <2>8, <3>1, <4>1, <5>3, <6>1 DEF Settles
        <5>4. QED BY <5>1, <5>2, <5>3 DEF HasWrong, HasRight
      <4>4. ASSUME NEW v \in Tasks, HasWrong(retag'[v], i, n, index')
            PROVE  \E u \in Tasks : \/ Coming(retag'[u], DOMAIN article', i, n)
                                    \/ HasRight(retag'[u], i, n, index') /\ Behind(queue', u, v)
        <5>1. v # t /\ HasWrong(retag[v], i, n, index)
          BY <1>1, <2>7, <3>2, <4>4
        <5>2. QED BY <1>2, <4>2, <5>1
      <4>5. QED BY <4>3, <4>4 DEF IsFollowed
    <3>5. QED BY <3>3, <3>4
  <2>10. QED BY <2>7, <2>9 DEF StoreInv, TagsSettle
<1>7. QED BY <1>5, <1>6

(* A load: for every name it changes it starts a task, except for what     *)
(* another load has changed meanwhile, whose articles are spoiled.         *)
LEMMA RebuildStore ==
    ASSUME StoreInv, SnapshotsCurrent, NEW e \in Editors, NEW t \in Tasks, Rebuild(e, t)
    PROVE  StoreInv'
<1> DEFINE rows    == edit[e].rows
           changes == Changes(edit[e].before, rows)
           unseen  == Changes(index, rows) \ changes
           r       == IF changes = {} THEN retag[t]
                      ELSE IF Cardinality(changes) > MaxIncremental
                           THEN [NoRetag EXCEPT !.phase = "read", !.all = TRUE]
                           ELSE [NoRetag EXCEPT !.phase = "select", !.changes = changes]
<1>1. /\ retag[t].phase = "idle" /\ edit[e].phase = "rebuild" /\ index' = rows
      /\ DOMAIN retag[t].batch = {} /\ IsTask(retag[t]) /\ DOMAIN article \subseteq Ids
      /\ ~retag[t].all => retag[t].todo \subseteq Ids
      /\ DOMAIN retag = Tasks
      /\ UNCHANGED <<article, nextId, queue, job>>
  BY DEF Rebuild, store, StoreInv, Typed, TasksSound
<1>2. /\ changes = {} => r = retag[t] /\ UNCHANGED retag
      /\ changes # {} => retag' = [retag EXCEPT ![t] = r]
      /\ spoiled' = IF edit[e].overlapped
                    THEN spoiled \union {i \in DOMAIN article : article[i].text \cap unseen # {}}
                    ELSE spoiled
  BY DEF Rebuild
<1>3. ASSUME changes # {}
      PROVE  /\ IsTask(r) /\ DOMAIN r.batch = {} /\ (~r.all => r.todo \subseteq Ids)
             /\ \/ r.phase = "read" /\ r.all /\ r.last = 0
                \/ r.phase = "select" /\ ~r.all /\ r.changes = changes
  <2>1. CASE Cardinality(changes) > MaxIncremental
    BY <1>3, <2>1, NoRetagStarts
  <2>2. CASE ~(Cardinality(changes) > MaxIncremental)
    BY <1>3, <2>2, NoRetagStarts
  <2>3. QED BY <2>1, <2>2
<1> HIDE DEF r
<1>4. Typed'
  <2>1. CASE changes = {}
    BY <1>1, <1>2, <2>1 DEF StoreInv, Typed, QueueSound, TasksSound, JobSound, Ids, Waits, Holds,
                            InTransaction
  <2>2. CASE changes # {}
    BY <1>1, <1>2, <1>3, <2>2, TaskMoves DEF StoreInv
  <2>3. QED BY <2>1, <2>2
<1>5. /\ retag'[t] = r /\ \A u \in Tasks \ {t} : retag'[u] = retag[u]
      /\ DOMAIN r.batch = {}
  BY <1>1, <1>2, <1>3
<1>6. ~edit[e].overlapped => unseen = {}
  BY <1>1 DEF SnapshotsCurrent, Snapped
<1>7. ASSUME NEW i \in DOMAIN article \ spoiled', NEW n \in article[i].text \ article[i].fixed
      PROVE  Settles(i, n)' /\ \A v \in Tasks : IsFollowed(v, i, n)'
  <2>1. i \notin spoiled /\ n \notin unseen
    BY <1>2, <1>6, <1>7
  <2>2. Settles(i, n) /\ \A v \in Tasks : IsFollowed(v, i, n)
    BY <1>7, <2>1 DEF StoreInv, TagsSettle
  <2>3. CASE n \in changes
    <3>1. i > 0
      BY <1>1, <1>7 DEF Ids
    <3>2. Coming(retag'[t], DOMAIN article', i, n)
      BY <1>1, <1>3, <1>5, <1>7, <2>3, <3>1 DEF Coming, LeftOf
    <3>3. QED BY <3>2 DEF Settles, IsFollowed
  <2>4. CASE n \notin changes
    <3>1. n \in index' <=> n \in index
      BY <1>1, <2>1, <2>4 DEF Changes
    <3>2. ~Coming(retag[t], DOMAIN article, i, n)
      BY <1>1 DEF Coming
    <3>3. \A u \in Tasks : /\ HasRight(retag[u], i, n, index) => HasRight(retag'[u], i, n, index')
                           /\ HasWrong(retag'[u], i, n, index') => HasWrong(retag[u], i, n, index)
      BY <1>1, <1>5, <3>1 DEF HasRight, HasWrong
    <3>4. QED BY <1>1, <1>5, <2>2, <3>1, <3>2, <3>3 DEF Settles, IsFollowed
  <2>5. QED BY <2>3, <2>4
<1>8. QED BY <1>1, <1>4, <1>7 DEF StoreInv, TagsSettle

(* A start renews everything when the rules have changed, and otherwise    *)
(* what the merge of aliases.yaml brings; the rest it leaves as it is.     *)
LEMMA RestartStore ==
    ASSUME StoreInv, NEW words \in StopNames, Restart(words) PROVE StoreInv'
<1> DEFINE due   == rulesDue \/ words # stop
           added == Manual \ (table \union words)
           first == IF due THEN [NoRetag EXCEPT !.phase = "read", !.all = TRUE, !.rules = TRUE]
                    ELSE IF added = {} THEN NoRetag
                    ELSE [NoRetag EXCEPT !.phase = "select", !.changes = added]
<1>1. /\ index' = (table \union Manual) \ words /\ queue' = << >> /\ job' = NoJob
      /\ UNCHANGED <<article, nextId>>
      /\ spoiled' = IF due THEN {}
                    ELSE {i \in DOMAIN article :
                             article[i].derived # (article[i].text \cap (table \ words)) \ article[i].fixed}
  BY DEF Restart
<1>2. PICK t \in Tasks : retag' = [u \in Tasks |-> IF u = t THEN first ELSE NoRetag]
  BY DEF Restart
<1>3. /\ IsTask(first) /\ first.phase \in {"idle", "read", "select"} /\ DOMAIN first.batch = {}
      /\ first.phase = "select" => ~first.all
      /\ ~first.all => first.todo = {}
      /\ due => first.phase = "read" /\ first.all /\ first.last = 0
      /\ ~due /\ added # {} => first.phase = "select" /\ first.changes = added
  <2>1. CASE due
    BY <2>1, NoRetagStarts
  <2>2. CASE ~due /\ added = {}
    BY <2>2, NoRetagTask
  <2>3. CASE ~due /\ added # {}
    BY <2>3, NoRetagStarts
  <2>4. QED BY <2>1, <2>2, <2>3
<1> HIDE DEF first
<1>5. /\ DOMAIN retag' = Tasks /\ retag'[t] = first
      /\ \A u \in Tasks : /\ IsTask(retag'[u]) /\ retag'[u].phase # "wait"
                          /\ DOMAIN retag'[u].batch = {}
                          /\ retag'[u].phase = "select" => ~retag'[u].all
                          /\ ~retag'[u].all => retag'[u].todo = {}
  BY <1>2, <1>3, NoRetagTask
<1>6. TasksSound' /\ JobSound'
  BY <1>1, <1>5, NoJobIdle DEF TasksSound, JobSound, InTransaction
<1>7. QueueSound'
  BY <1>1, <1>5, NoJobIdle DEF QueueSound, Once, InQueue, Waits
<1>8. Typed'
  BY <1>1, <1>6, <1>7 DEF StoreInv, Typed, Ids
<1>9. ASSUME NEW i \in DOMAIN article \ spoiled', NEW n \in article[i].text \ article[i].fixed
      PROVE  Settles(i, n)' /\ \A v \in Tasks : IsFollowed(v, i, n)'
  <2>1. \A v \in Tasks : ~HasWrong(retag'[v], i, n, index')
    BY <1>5 DEF HasWrong
  <2>2. CASE due
    <3>1. i > 0
      BY <1>9 DEF StoreInv, Typed, Ids
    <3>2. Coming(retag'[t], DOMAIN article', i, n)
      BY <1>1, <1>3, <1>5, <1>9, <2>2, <3>1 DEF Coming, LeftOf
    <3>3. QED BY <2>1, <3>2 DEF Settles, IsFollowed
  <2>3. CASE ~due
    <3>1. n \in article[i].derived <=> n \in table \ words
      BY <1>1, <1>9, <2>3
    <3>2. CASE n \in added
      BY <1>3, <1>5, <2>1, <2>3, <3>2 DEF Coming, Settles, IsFollowed
    <3>3. CASE n \notin added
      <4>1. n \in article'[i].derived <=> n \in index'
        BY <1>1, <3>1, <3>3
      <4>2. QED BY <2>1, <4>1 DEF Settles, IsFollowed
    <3>4. QED BY <3>2, <3>3
  <2>4. QED BY <2>2, <2>3
<1>10. QED BY <1>1, <1>8, <1>9 DEF StoreInv, TagsSettle

LEMMA InitStore == Init => StoreInv
<1> SUFFICES ASSUME Init PROVE StoreInv
  OBVIOUS
<1>1. DOMAIN article = {} /\ nextId = 1 /\ queue = << >> /\ job = NoJob
  BY DEF Init
<1>2. DOMAIN retag = Tasks /\ \A t \in Tasks : retag[t] = NoRetag
  BY DEF Init
<1>3. TasksSound /\ JobSound /\ QueueSound
  BY <1>1, <1>2, NoRetagTask, NoJobIdle
     DEF TasksSound, JobSound, QueueSound, InTransaction, Once, InQueue, Waits
<1>4. QED BY <1>1, <1>3 DEF StoreInv, Typed, TagsSettle

----------------------------------------------------------------------------
LEMMA NextStore == DirectoryInv /\ StoreInv /\ [Next]_vars => StoreInv'
<1> SUFFICES ASSUME DirectoryInv, StoreInv, [Next]_vars PROVE StoreInv'
  OBVIOUS
<1>1. CASE UNCHANGED <<index, store, retag, spoiled>>
  BY <1>1, UntouchedStore
<1>2. ASSUME NEW target, NEW item \in Items, TagItem(target, item) PROVE StoreInv'
  BY <1>2, TagItemStore
<1>3. CASE WriteItem \/ CommitItem \/ \E i \in DOMAIN article : PurgeArticle(i)
  BY <1>3, WriteItemStore, CommitItemStore, PurgeArticleStore
<1>4. CASE \/ \E p \in Puts, alias \in Aliases, present \in BOOLEAN : PutAliases(p, alias, present)
           \/ \E r \in Refreshes :
                 \/ \E listed \in SUBSET (Names \ Aliases) : RefreshRemote(r, listed)
                 \/ \E ok \in BOOLEAN : ApplyManual(r, ok)
           \/ \E e \in Editors : TakeSnapshot(e) \/ SelectNames(e)
  BY <1>1, <1>4 DEF PutAliases, RefreshRemote, ApplyManual, TakeSnapshot, SelectNames
<1>5. ASSUME NEW e \in Editors, NEW t \in Tasks, Rebuild(e, t) PROVE StoreInv'
  BY <1>5, RebuildStore DEF DirectoryInv
<1>6. ASSUME NEW t \in Tasks, SelectArticles(t) \/ ReadBatch(t) \/ WriteBatch(t) \/ EndRetag(t)
      PROVE  StoreInv'
  BY <1>6, SelectArticlesStore, ReadBatchStore, WriteBatchStore, EndRetagStore
<1>7. ASSUME NEW words \in StopNames, Restart(words) PROVE StoreInv'
  BY <1>7, RestartStore
<1>8. CASE UNCHANGED vars
  BY <1>1, <1>8 DEF vars, directory
<1>9. QED BY <1>2, <1>3, <1>4, <1>5, <1>6, <1>7, <1>8 DEF Next

(* The inductive invariant of the directory and of the tags.               *)
THEOREM SpecIInv == Spec => []IInv
<1>1. Init => IInv
  BY InitDirectory, InitStore DEF IInv
<1>2. IInv /\ [Next]_vars => IInv'
  BY NextDirectory, NextStore DEF IInv
<1>3. QED BY <1>1, <1>2, PTL DEF Spec

(* A dictionary tag that is not that of the text and the index is on the   *)
(* way of a task that puts it right, unless a known race has spoiled the   *)
(* article.                                                                *)
THEOREM SpecStaleIsRenewed == Spec => []StaleIsRenewed
<1>1. IInv => StaleIsRenewed
  <2> SUFFICES ASSUME IInv, NEW i \in DOMAIN article \ spoiled,
                      NEW n \in article[i].text \ article[i].fixed
               PROVE  (n \in article[i].derived <=> n \in index) \/ \E t \in Tasks : WillRenew(t, i, n)
    BY DEF StaleIsRenewed
  <2>1. Settles(i, n)
    BY DEF IInv, StoreInv, TagsSettle
  <2>2. \A t \in Tasks : Coming(retag[t], DOMAIN article, i, n) \/ HasRight(retag[t], i, n, index)
            => WillRenew(t, i, n)
    BY DEF Coming, HasRight, LeftOf, Left, WillRenew, tag
  <2>3. QED BY <2>1, <2>2 DEF Settles
<1>2. QED BY <1>1, SpecIInv, PTL

=============================================================================
