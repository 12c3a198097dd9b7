--------------------------- MODULE CursorFeedProofs ---------------------------
(***************************************************************************)
(* Safety of the article table and of its incremental reading for every    *)
(* set of sources, articles and ingests, every retention, every size of a  *)
(* batch and of a page.                                                    *)
(***************************************************************************)
EXTENDS CursorFeed, FunctionTheorems, FiniteSetTheorems, WellFoundedInduction, TLAPS

PreparedItem == [key: Keys, title: Nat, summary: BOOLEAN, date: Dates]

IsIngest(w) ==
    /\ w \in [phase: {"read", "wait", "write"}, source: Sources, now: 0 .. MaxTick,
              left: {w.left}, derived: [Keys -> Text \union {NoText}]]
    /\ w.left \in [DOMAIN w.left -> PreparedItem]
    /\ \E n \in Nat : DOMAIN w.left \subseteq 1 .. n

Deletion == [now: 0 .. MaxTick, ts: 0 .. MaxTick, feeds: SUBSET Sources]

RowsTyped(t) ==
    /\ IsTable(t)
    /\ t \in [article: {t.article}, nextId: Nat] /\ t.article \in [DOMAIN t.article -> Article]

IngestsTyped ==
    /\ DOMAIN job = Jobs
    /\ \A j \in Jobs : /\ job[j] = NoWork \/ IsIngest(job[j])
                       /\ job[j].phase = "write" <=> writer = j

PurgeTyped ==
    /\ purge \in [now: 0 .. MaxTick, left: SUBSET Sources] /\ purge.now <= now
    /\ purged \in [DOMAIN purged -> Deletion]

Typed ==
    /\ now \in 0 .. MaxTick /\ writer \in Jobs \union {NoJob}
    /\ RowsTyped(db) /\ RowsTyped(work)
    /\ IngestsTyped /\ PurgeTyped

(* The items of an ingest are young enough, and the text that was tagged   *)
(* for one is that of the last item with its key.                          *)
Young(w) == \A i \in DOMAIN w.left : Acceptable(w.source, w.left[i].date, w.now)

TaggedLast(w) ==
    \A i \in DOMAIN w.left :
        \/ w.derived[w.left[i].key] = NoText
        \/ \E l \in DOMAIN w.left : /\ l >= i /\ w.left[l].key = w.left[i].key
                                    /\ w.derived[w.left[i].key] = ItemText(w.left[l])

IsSound(w) ==
    /\ Young(w)
    /\ w.phase # "read" => TaggedLast(w)

IngestsSound == \A j \in Jobs : job[j].phase # "idle" => job[j].now <= now /\ IsSound(job[j])

(* An open transaction adds to the committed tables, with larger ids; what *)
(* is new in it is young enough for its feed.                              *)
OnlyAdds ==
    /\ db.nextId <= work.nextId
    /\ \A k \in DOMAIN db.article : k \in DOMAIN work.article /\ work.article[k].id = db.article[k].id
    /\ \A k \in DOMAIN work.article \ DOMAIN db.article :
          /\ db.nextId <= work.article[k].id
          /\ Acceptable(job[writer].source, work.article[k].date, job[writer].now)

TagsFollow(t) == \A k \in DOMAIN t.article : k \in twice \/ t.article[k].tagged = t.article[k].text

PurgedWereOld ==
    \A k \in DOMAIN purged : \A s \in purged[k].feeds :
        purged[k].ts + Retention[s] < purged[k].now

IInv ==
    /\ Typed /\ IngestsSound
    /\ NothingPending /\ OnlyAdds
    /\ TagsFollow(db) /\ TagsFollow(work)
    /\ PurgedWereOld

(* The cursor has no id ahead of it that was handed out and not committed. *)
FeedIInv ==
    /\ IInv
    /\ consumer \in [started: BOOLEAN, from: Nat, cursor: Nat, got: {consumer.got}]
    /\ consumer.cursor < db.nextId
    /\ CursorComplete

----------------------------------------------------------------------------
(* Numbers: least and greatest elements.                                   *)

LEMMA LeastElement ==
    ASSUME NEW S \in SUBSET Nat, S # {}
    PROVE  Min(S) \in S /\ \A m \in S : Min(S) <= m
<1>1. \E x \in S : \A y \in S : ~ (<<y, x>> \in OpToRel(<, Nat))
  BY NatLessThanWellFounded, WFMin
<1>2. \E x \in S : \A y \in S : ~ (y < x)
  BY <1>1 DEF OpToRel
<1>3. \E x \in S : \A y \in S : x <= y
  BY <1>2
<1>4. QED BY <1>3 DEF Min

LEMMA GreatestElement ==
    ASSUME NEW b \in Nat, NEW S \in SUBSET (0 .. b), S # {}
    PROVE  Max(S) \in S /\ \A m \in S : m <= Max(S)
<1> DEFINE U == {u \in Nat : \A m \in S : m <= u}
           x == Min(U)
<1>1. b \in U
  OBVIOUS
<1>2. x \in U /\ \A u \in U : x <= u
  <2> HIDE DEF U
  <2>1. U \in SUBSET Nat
    BY DEF U
  <2>2. QED BY <1>1, <2>1, LeastElement
<1>3. x \in S
  <2> SUFFICES ASSUME x \notin S PROVE FALSE
    OBVIOUS
  <2> HIDE DEF x
  <2>1. x \in Nat /\ \A m \in S : m \in Nat /\ m < x
    BY <1>2
  <2>2. x # 0
    <3>1. PICK m \in S : TRUE
      OBVIOUS
    <3>2. QED BY <2>1, <3>1
  <2>3. x - 1 \in U
    BY <2>1, <2>2
  <2>4. QED BY <2>1, <2>2, <2>3, <1>2
<1>4. \E n \in S : \A m \in S : n >= m
  <2> HIDE DEF x
  <2> QED BY <1>2, <1>3
<1>5. QED BY <1>4 DEF Max

----------------------------------------------------------------------------
(* What ingest prepares and tags.                                          *)

LEMMA PreparedItems ==
    ASSUME NEW s \in Sources, NEW batch \in Batches[s], NEW clock \in 0 .. MaxTick
    PROVE  LET items == Prepared(s, batch, clock) IN
           /\ items \in [DOMAIN items -> PreparedItem]
           /\ \E n \in Nat : DOMAIN items \subseteq 1 .. n
           /\ \A i \in DOMAIN items : Acceptable(s, items[i].date, clock)
<1> DEFINE kept == {k \in DOMAIN batch : Acceptable(s, Published(batch[k], clock), clock)}
           items == Prepared(s, batch, clock)
           Item == [key: Keys, title: Nat, summary: BOOLEAN, date: Nat \union {NoDate}]
<1>1. batch \in Seq(Item) /\ \A i \in DOMAIN batch : batch[i] \in Item
  <2>1. batch \in Seq(Item)
    BY ConstantsAssumption
  <2> HIDE DEF Item
  <2>2. QED BY <2>1
<1>2. DOMAIN items = kept /\ items = [i \in kept |-> [batch[i] EXCEPT !.date = Published(batch[i], clock)]]
  BY DEF Prepared
<1>3. kept \subseteq 1 .. Len(batch) /\ Len(batch) \in Nat
  BY <1>1
<1>4. \A i \in kept : items[i] \in PreparedItem /\ items[i].date = Published(batch[i], clock)
  <2> SUFFICES ASSUME NEW i \in kept
               PROVE  items[i] \in PreparedItem /\ items[i].date = Published(batch[i], clock)
    OBVIOUS
  <2>1. batch[i] \in Item
    BY <1>1
  <2>2. Published(batch[i], clock) \in Dates
    BY <2>1, ConstantsAssumption DEF Published, Dates
  <2>3. items[i] = [batch[i] EXCEPT !.date = Published(batch[i], clock)]
    BY <1>2
  <2>4. QED BY <2>1, <2>2, <2>3 DEF PreparedItem
<1>5. \A i \in kept : Acceptable(s, items[i].date, clock)
  BY <1>4
<1>6. items \in [DOMAIN items -> PreparedItem]
  BY <1>2, <1>4
<1>7. QED BY <1>2, <1>3, <1>5, <1>6

LEMMA TextsOfItems == ASSUME NEW item \in PreparedItem PROVE ItemText(item) \in Text
BY DEF PreparedItem, ItemText, Text

(* Of several items with a key the last one counts.                        *)
LEMMA DerivedLast ==
    ASSUME NEW items, items \in [DOMAIN items -> PreparedItem],
           NEW n \in Nat, DOMAIN items \subseteq 1 .. n, NEW known
    PROVE  LET texts == DerivedTexts(items, known) IN
           /\ texts \in [Keys -> Text \union {NoText}]
           /\ \A i \in DOMAIN items :
                 \/ texts[items[i].key] = NoText
                 \/ \E l \in DOMAIN items : /\ l >= i /\ items[l].key = items[i].key
                                            /\ texts[items[i].key] = ItemText(items[l])
<1> DEFINE at(k) == {i \in DOMAIN items : items[i].key = k}
           texts == DerivedTexts(items, known)
<1>1. texts = [k \in Keys |-> IF at(k) = {} \/ k \in known THEN NoText ELSE ItemText(items[Max(at(k))])]
  BY DEF DerivedTexts
<1>2. \A k \in Keys : at(k) # {} => Max(at(k)) \in at(k) /\ \A m \in at(k) : m <= Max(at(k))
  <2> SUFFICES ASSUME NEW k \in Keys, at(k) # {}
               PROVE  Max(at(k)) \in at(k) /\ \A m \in at(k) : m <= Max(at(k))
    OBVIOUS
  <2>1. at(k) \in SUBSET (0 .. n)
    OBVIOUS
  <2> HIDE DEF at
  <2>2. QED BY <2>1, GreatestElement
<1>3. \A k \in Keys : texts[k] \in Text \union {NoText}
  <2> SUFFICES ASSUME NEW k \in Keys, at(k) # {}, k \notin known PROVE texts[k] \in Text
    BY <1>1
  <2>1. Max(at(k)) \in DOMAIN items
    BY <1>2
  <2>2. QED BY <1>1, <2>1, TextsOfItems
<1>4. texts \in [Keys -> Text \union {NoText}]
  BY <1>1, <1>3
<1>5. ASSUME NEW i \in DOMAIN items, texts[items[i].key] # NoText
      PROVE  \E l \in DOMAIN items : /\ l >= i /\ items[l].key = items[i].key
                                     /\ texts[items[i].key] = ItemText(items[l])
  <2> DEFINE k == items[i].key
  <2>1. k \in Keys /\ i \in at(k)
    BY DEF PreparedItem
  <2>2. Max(at(k)) \in at(k) /\ i <= Max(at(k))
    BY <1>2, <2>1
  <2>3. texts[k] = ItemText(items[Max(at(k))])
    BY <1>1, <1>5, <2>1
  <2>4. QED BY <2>2, <2>3
<1>6. QED BY <1>4, <1>5

(* Storing the first item leaves the others, and their texts are tagged.   *)
LEMMA RestOfItems ==
    ASSUME NEW w, IsIngest(w), DOMAIN w.left # {}
    PROVE  LET first == Min(DOMAIN w.left)
               rest  == Restrict(w.left, DOMAIN w.left \ {first})
               after == [w EXCEPT !.left = rest] IN
           /\ first \in DOMAIN w.left /\ w.left[first] \in PreparedItem
           /\ IsIngest(after)
           /\ Young(w) => Young(after)
           /\ TaggedLast(w) => TaggedLast(after)
           /\ TaggedLast(w) /\ (\A i \in DOMAIN rest : rest[i].key # w.left[first].key)
              => w.derived[w.left[first].key] \in {NoText, ItemText(w.left[first])}
<1> DEFINE first == Min(DOMAIN w.left)
           rest  == Restrict(w.left, DOMAIN w.left \ {first})
           after == [w EXCEPT !.left = rest]
<1>1. DOMAIN w.left \in SUBSET Nat
  BY DEF IsIngest
<1>2. first \in DOMAIN w.left /\ \A m \in DOMAIN w.left : first <= m
  BY <1>1, LeastElement
<1>3. rest = [i \in DOMAIN w.left \ {first} |-> w.left[i]]
  BY DEF Restrict
<1> HIDE DEF first, rest
<1>4. w.left[first] \in PreparedItem
  BY <1>2 DEF IsIngest
<1>5. /\ after.left = rest /\ after.derived = w.derived
      /\ after.source = w.source /\ after.now = w.now
  BY DEF IsIngest
<1>6. rest \in [DOMAIN rest -> PreparedItem]
  BY <1>3 DEF IsIngest
<1>7. IsIngest(after)
  BY <1>3, <1>6 DEF IsIngest
<1>8. Young(w) => Young(after)
  BY <1>3, <1>5 DEF Young
<1>9. ASSUME TaggedLast(w) PROVE TaggedLast(after)
  <2> SUFFICES ASSUME NEW i \in DOMAIN rest, w.derived[rest[i].key] # NoText
               PROVE  \E l \in DOMAIN rest : /\ l >= i /\ rest[l].key = rest[i].key
                                              /\ w.derived[rest[i].key] = ItemText(rest[l])
    BY <1>5 DEF TaggedLast
  <2>1. i \in DOMAIN w.left /\ i # first /\ rest[i] = w.left[i]
    BY <1>3
  <2>2. PICK l \in DOMAIN w.left : /\ l >= i /\ w.left[l].key = w.left[i].key
                                   /\ w.derived[w.left[i].key] = ItemText(w.left[l])
    BY <1>9, <2>1 DEF TaggedLast
  <2>3. l # first
    BY <1>1, <1>2, <2>1, <2>2
  <2>4. l \in DOMAIN rest /\ rest[l] = w.left[l]
    BY <1>3, <2>3
  <2>5. QED BY <2>1, <2>2, <2>4
<1>10. ASSUME TaggedLast(w), \A i \in DOMAIN rest : rest[i].key # w.left[first].key
       PROVE  w.derived[w.left[first].key] \in {NoText, ItemText(w.left[first])}
  BY <1>2, <1>3, <1>10 DEF TaggedLast
<1>11. QED BY <1>2, <1>4, <1>7, <1>8, <1>9, <1>10 DEF first, rest

----------------------------------------------------------------------------
(* The parts of the invariant under the changes that actions make.         *)

LEMMA NoWorkIdle == NoWork.phase = "idle"
BY DEF NoWork

(* One ingest goes on; the lock may pass to or from it.                    *)
LEMMA OneIngest ==
    ASSUME IngestsTyped, IngestsSound, NEW j \in Jobs, NEW w,
           job' = [job EXCEPT ![j] = w],
           w = NoWork \/ IsIngest(w),
           w.phase = "write" <=> writer' = j,
           \A i \in Jobs \ {j} : writer' = i <=> writer = i,
           w.phase # "idle" => w.now <= now /\ IsSound(w),
           UNCHANGED now
    PROVE  IngestsTyped' /\ IngestsSound'
<1>1. \A i \in Jobs : job'[i] = IF i = j THEN w ELSE job[i]
  BY DEF IngestsTyped
<1>2. IngestsTyped'
  BY <1>1 DEF IngestsTyped
<1>3. IngestsSound'
  BY <1>1 DEF IngestsSound
<1>4. QED BY <1>2, <1>3

(* A new row.                                                              *)
Inserted(t, k, a) == [article |-> WithArticle(t, k, a), nextId |-> t.nextId + 1]

LEMMA RowInserted ==
    ASSUME NEW t, RowsTyped(t), NEW k \in Keys, k \notin DOMAIN t.article,
           NEW a \in Article, a.id = t.nextId, a.owner \in a.feeds
    PROVE  LET u == Inserted(t, k, a) IN
           /\ RowsTyped(u)
           /\ DOMAIN u.article = DOMAIN t.article \union {k}
           /\ u.article[k] = a /\ \A l \in DOMAIN t.article : u.article[l] = t.article[l]
<1> DEFINE u == Inserted(t, k, a)
<1> USE DEF Inserted
<1>1. /\ DOMAIN u.article = DOMAIN t.article \union {k}
      /\ u.article[k] = a /\ \A l \in DOMAIN t.article : u.article[l] = t.article[l]
      /\ u.article \in [DOMAIN u.article -> Article]
  BY DEF WithArticle, RowsTyped
<1>2. \A l \in DOMAIN t.article : /\ t.article[l] \in Article /\ t.article[l].id < t.nextId
                                  /\ t.article[l].id \in Nat /\ t.article[l].owner \in t.article[l].feeds
  BY DEF RowsTyped, IsTable, Article, Ids
<1>3. t.nextId \in Nat /\ DOMAIN t.article \subseteq Keys
  BY DEF RowsTyped, IsTable
<1>4. u \in [article: {u.article}, nextId: Nat] /\ u.nextId = t.nextId + 1
  BY <1>3
<1>5. \A l, m \in DOMAIN u.article : u.article[l].id = u.article[m].id => l = m
  BY <1>1, <1>2, <1>3 DEF RowsTyped, IsTable
<1>6. \A l \in DOMAIN u.article : /\ u.article[l] \in Article
                                  /\ u.article[l].owner \in u.article[l].feeds
                                  /\ u.article[l].id < u.nextId
  BY <1>1, <1>2, <1>3, <1>4
<1> HIDE DEF u
<1>7. RowsTyped(u)
  BY <1>1, <1>3, <1>4, <1>5, <1>6 DEF RowsTyped, IsTable
<1>8. QED BY <1>1, <1>7 DEF u

(* What an enriched row keeps.                                             *)
LEMMA EnrichedArticle ==
    ASSUME NEW a \in Article, a.owner \in a.feeds, NEW item \in PreparedItem, NEW s \in Sources
    PROVE  LET b == Enriched(a, item, s) IN
           /\ b \in Article /\ b.id = a.id /\ b.owner = a.owner /\ b.owner \in b.feeds
           /\ b.date \in {a.date, item.date}
           /\ a.tagged = a.text => b.tagged = b.text
<1> DEFINE filled == ~a.text.summary /\ item.summary
           text   == [a.text EXCEPT !.summary = @ \/ item.summary]
           b      == Enriched(a, item, s)
<1>1. /\ a.text \in Text /\ a.tagged \in Text /\ a.date \in Dates
      /\ a.owner \in Sources /\ a.feeds \in SUBSET Sources
      /\ item.summary \in BOOLEAN /\ item.date \in Dates
  BY DEF Article, PreparedItem
<1>2. text \in Text /\ (~filled => text = a.text)
  BY <1>1 DEF Text
<1> HIDE DEF filled, text
<1>3. b = [a EXCEPT !.text = text, !.tagged = IF filled THEN text ELSE @,
                    !.date = IF @ = NoDate THEN item.date ELSE @, !.feeds = @ \union {s}]
  BY DEF Enriched, filled, text
<1> HIDE DEF b
<1>4. /\ b.text = text /\ b.tagged = (IF filled THEN text ELSE a.tagged)
      /\ b.date = (IF a.date = NoDate THEN item.date ELSE a.date)
      /\ b.feeds = a.feeds \union {s} /\ b.id = a.id /\ b.owner = a.owner
  BY <1>3 DEF Article
<1>5. b \in Article
  BY <1>1, <1>2, <1>3 DEF Article
<1>6. QED BY <1>1, <1>2, <1>4, <1>5 DEF b

LEMMA RowReplaced ==
    ASSUME NEW t, RowsTyped(t), NEW k \in DOMAIN t.article,
           NEW b \in Article, b.id = t.article[k].id, b.owner \in b.feeds,
           NEW u, u = [t EXCEPT !.article[k] = b]
    PROVE  /\ RowsTyped(u) /\ u.nextId = t.nextId /\ DOMAIN u.article = DOMAIN t.article
           /\ u.article[k] = b /\ \A l \in DOMAIN t.article \ {k} : u.article[l] = t.article[l]
<1>1. t.article \in [DOMAIN t.article -> Article] /\ t \in [article: {t.article}, nextId: Nat]
  BY DEF RowsTyped
<1>2. u.article = [t.article EXCEPT ![k] = b] /\ u.nextId = t.nextId /\ u \in [article: {u.article}, nextId: Nat]
  BY <1>1
<1>3. DOMAIN u.article = DOMAIN t.article
  BY <1>1, <1>2
<1>4. u.article[k] = b /\ \A l \in DOMAIN t.article \ {k} : u.article[l] = t.article[l]
  BY <1>1, <1>2
<1>5. u.article \in [DOMAIN u.article -> Article]
  BY <1>1, <1>2, <1>3
<1>6. \A l \in DOMAIN t.article : u.article[l].id = t.article[l].id
  BY <1>4
<1>7. IsTable(u)
  BY <1>2, <1>3, <1>4, <1>5, <1>6 DEF RowsTyped, IsTable
<1>8. QED BY <1>2, <1>3, <1>4, <1>5, <1>7 DEF RowsTyped

(* Rows that are deleted.                                                  *)
Deleted(t, gone) == [t EXCEPT !.article = Restrict(@, DOMAIN @ \ gone)]

LEMMA RowsDeleted ==
    ASSUME NEW t, RowsTyped(t), NEW gone
    PROVE  LET u == Deleted(t, gone) IN
           /\ RowsTyped(u) /\ u.nextId = t.nextId
           /\ DOMAIN u.article = DOMAIN t.article \ gone
           /\ \A k \in DOMAIN u.article : u.article[k] = t.article[k]
<1>1. t.article \in [DOMAIN t.article -> Article] /\ t \in [article: {t.article}, nextId: Nat]
  BY DEF RowsTyped
<1> DEFINE u == Deleted(t, gone)
<1> USE DEF Deleted
<1>2. u.article = [k \in DOMAIN t.article \ gone |-> t.article[k]] /\ u.nextId = t.nextId
      /\ u \in [article: {u.article}, nextId: Nat]
  BY <1>1 DEF Restrict
<1>3. DOMAIN u.article = DOMAIN t.article \ gone /\ \A k \in DOMAIN u.article : u.article[k] = t.article[k]
  BY <1>2
<1>4. u.article \in [DOMAIN u.article -> Article]
  BY <1>1, <1>3, <1>2
<1> HIDE DEF u
<1>5. IsTable(u)
  BY <1>2, <1>3 DEF RowsTyped, IsTable
<1>6. QED BY <1>2, <1>3, <1>4, <1>5 DEF RowsTyped, u

----------------------------------------------------------------------------
(* The steps of ArticleStore.                                              *)

LEMMA InitIInv == Init => IInv
<1> SUFFICES ASSUME Init PROVE IInv
  OBVIOUS
<1> USE DEF Init
<1>1. RowsTyped(db) /\ RowsTyped(work)
  BY DEF RowsTyped, IsTable
<1>2. IngestsTyped /\ IngestsSound
  BY ConstantsAssumption, NoWorkIdle DEF IngestsTyped, IngestsSound
<1>3. PurgeTyped /\ PurgedWereOld
  BY ConstantsAssumption DEF PurgeTyped, NoPurge, PurgedWereOld
<1>4. NothingPending /\ OnlyAdds /\ TagsFollow(db) /\ TagsFollow(work)
  BY DEF NothingPending, OnlyAdds, TagsFollow
<1>5. QED BY <1>1, <1>2, <1>3, <1>4, ConstantsAssumption DEF IInv, Typed

(* What does not touch the tables keeps what is said of them, as long as   *)
(* an open transaction stays with its ingest.                              *)
LEMMA TablesStay ==
    ASSUME IInv, UNCHANGED <<db, work, purge, purged, twice>>,
           now' \in 0 .. MaxTick, now <= now', IngestsTyped', IngestsSound',
           \/ writer = NoJob /\ writer' \in Jobs
           \/ /\ writer' = writer
              /\ writer # NoJob => job'[writer].source = job[writer].source /\ job'[writer].now = job[writer].now
    PROVE  IInv'
<1>1. PurgeTyped'
  BY DEF IInv, Typed, PurgeTyped
<1>2. Typed'
  BY <1>1 DEF IInv, Typed, RowsTyped, IsTable
<1>3. NothingPending'
  BY ConstantsAssumption DEF IInv, NothingPending
<1>4. OnlyAdds'
  BY DEF IInv, OnlyAdds, NothingPending
<1>5. (TagsFollow(db) /\ TagsFollow(work) /\ PurgedWereOld)'
  BY DEF IInv, TagsFollow, PurgedWereOld
<1>6. QED BY <1>2, <1>3, <1>4, <1>5 DEF IInv

LEMMA BeginStep ==
    ASSUME IInv, NEW j \in Jobs, NEW s \in Sources, NEW batch \in Batches[s], Begin(j, s, batch)
    PROVE  IInv'
<1> DEFINE items == Prepared(s, batch, now)
           w == [NoWork EXCEPT !.phase = "read", !.source = s, !.now = now, !.left = items]
<1>1. /\ job[j].phase = "idle" /\ job' = [job EXCEPT ![j] = w]
      /\ UNCHANGED <<now, db, work, writer, purge, purged, twice>>
  BY DEF Begin
<1>2. /\ items \in [DOMAIN items -> PreparedItem]
      /\ \E n \in Nat : DOMAIN items \subseteq 1 .. n
      /\ \A i \in DOMAIN items : Acceptable(s, items[i].date, now)
  BY PreparedItems DEF IInv, Typed
<1> HIDE DEF items
<1>3. /\ w.phase = "read" /\ w.source = s /\ w.now = now /\ w.left = items
      /\ w \in [phase: {"read"}, source: {s}, now: {now}, left: {items}, derived: [Keys -> {NoText}]]
  <2>1. NoWork \in [phase: {"idle"}, source: {NoWork.source}, now: {0},
                    left: {<< >>}, derived: [Keys -> {NoText}]]
    BY DEF NoWork
  <2>2. QED BY <2>1
<1> HIDE DEF w
<1>4. IsIngest(w)
  BY <1>2, <1>3 DEF IsIngest, IInv, Typed
<1>5. w.now <= now /\ IsSound(w) /\ w.phase = "read"
  BY <1>2, <1>3 DEF IsSound, Young, IInv, Typed
<1>6. writer # j
  BY <1>1 DEF IInv, Typed, IngestsTyped
<1>7. IngestsTyped' /\ IngestsSound'
  BY <1>1, <1>4, <1>5, <1>6, OneIngest DEF IInv, Typed
<1>8. writer # NoJob => job'[writer] = job[writer]
  BY <1>1, <1>6
<1>9. QED BY <1>1, <1>7, <1>8, TablesStay DEF IInv, Typed

LEMMA ReadKnownStep == ASSUME IInv, NEW j \in Jobs, ReadKnown(j) PROVE IInv'
<1> DEFINE texts == DerivedTexts(job[j].left, DOMAIN db.article)
           w == [job[j] EXCEPT !.phase = "wait", !.derived = texts]
<1>1. /\ job[j].phase = "read" /\ job' = [job EXCEPT ![j] = w]
      /\ UNCHANGED <<now, db, work, writer, purge, purged, twice>>
  BY DEF ReadKnown
<1>2. IsIngest(job[j]) /\ job[j].now <= now /\ Young(job[j]) /\ writer # j
  BY <1>1, NoWorkIdle DEF IInv, Typed, IngestsTyped, IngestsSound, IsSound
<1>3. /\ texts \in [Keys -> Text \union {NoText}]
      /\ \A i \in DOMAIN job[j].left :
            \/ texts[job[j].left[i].key] = NoText
            \/ \E l \in DOMAIN job[j].left :
                  /\ l >= i /\ job[j].left[l].key = job[j].left[i].key
                  /\ texts[job[j].left[i].key] = ItemText(job[j].left[l])
  BY <1>2, DerivedLast DEF IsIngest
<1> HIDE DEF texts
<1>4. /\ w.phase = "wait" /\ w.source = job[j].source /\ w.now = job[j].now
      /\ w.left = job[j].left /\ w.derived = texts
  BY <1>2 DEF IsIngest
<1>5. IsIngest(w)
  <2>1. w \in [phase: {"read", "wait", "write"}, source: Sources, now: 0 .. MaxTick,
               left: {w.left}, derived: [Keys -> Text \union {NoText}]]
    BY <1>2, <1>3, <1>4 DEF IsIngest
  <2>2. QED BY <1>2, <1>4, <2>1 DEF IsIngest
<1> HIDE DEF w
<1>6. w.now <= now /\ IsSound(w) /\ w.phase = "wait"
  BY <1>2, <1>3, <1>4 DEF IsSound, Young, TaggedLast
<1>7. IngestsTyped' /\ IngestsSound'
  BY <1>1, <1>2, <1>5, <1>6, OneIngest DEF IInv, Typed
<1>8. writer # NoJob => job'[writer] = job[writer]
  BY <1>1, <1>2
<1>9. QED BY <1>1, <1>7, <1>8, TablesStay DEF IInv, Typed

LEMMA LockStep == ASSUME IInv, NEW j \in Jobs, Lock(j) PROVE IInv'
<1> DEFINE w == [job[j] EXCEPT !.phase = "write"]
<1>1. /\ job[j].phase = "wait" /\ job' = [job EXCEPT ![j] = w] /\ writer = NoJob /\ writer' = j
      /\ UNCHANGED <<now, db, work, purge, purged, twice>>
  BY DEF Lock
<1>2. IsIngest(job[j]) /\ job[j].now <= now /\ IsSound(job[j])
  BY <1>1, NoWorkIdle DEF IInv, Typed, IngestsTyped, IngestsSound
<1>3. w = [phase |-> "write", source |-> job[j].source, now |-> job[j].now,
           left |-> job[j].left, derived |-> job[j].derived]
  BY <1>2 DEF IsIngest
<1> HIDE DEF w
<1>4. IsIngest(w)
  BY <1>2, <1>3 DEF IsIngest
<1>5. w.now <= now /\ IsSound(w) /\ w.phase = "write"
  BY <1>1, <1>2, <1>3 DEF IsSound, Young, TaggedLast
<1>6. \A i \in Jobs \ {j} : writer' = i <=> writer = i
  BY <1>1, ConstantsAssumption
<1>7. IngestsTyped' /\ IngestsSound'
  BY <1>1, <1>4, <1>5, <1>6, OneIngest DEF IInv, Typed
<1>8. QED BY <1>1, <1>7, TablesStay DEF IInv, Typed

LEMMA TickStep == ASSUME IInv, Tick \/ UNCHANGED vars PROVE IInv'
<1>1. /\ now' \in 0 .. MaxTick /\ now <= now'
      /\ UNCHANGED <<db, work, writer, job, purge, purged, twice>>
  BY ConstantsAssumption DEF Tick, vars, IInv, Typed
<1>2. IngestsTyped' /\ IngestsSound'
  <2>1. \A j \in Jobs : job[j].phase # "idle" => job[j].now \in Nat
    BY NoWorkIdle DEF IInv, Typed, IngestsTyped, IsIngest
  <2>2. QED BY <1>1, <2>1 DEF IInv, Typed, IngestsTyped, IngestsSound
<1>3. QED BY <1>1, <1>2, TablesStay

(* An item is stored: the row it makes or enriches fits the tables, is     *)
(* young enough, and has the tags of its text unless the key comes again.  *)
LEMMA StoreItemStep == ASSUME IInv, NEW j \in Jobs, StoreItem(j) PROVE IInv'
<1> DEFINE w     == job[j]
           first == Min(DOMAIN w.left)
           item  == w.left[first]
           rest  == Restrict(w.left, DOMAIN w.left \ {first})
           after == [w EXCEPT !.left = rest]
           k     == item.key
<1>1. /\ writer = j /\ DOMAIN w.left # {}
      /\ IF k \in DOMAIN work.article
         THEN work' = [work EXCEPT !.article[k] = Enriched(work.article[k], item, w.source)]
         ELSE Insert(j, item)
      /\ job' = [job EXCEPT ![j] = after]
      /\ twice' = IF k \notin DOMAIN work.article /\ \E i \in DOMAIN rest : rest[i].key = k
                  THEN twice \union {k} ELSE twice
      /\ UNCHANGED <<now, db, writer, purge, purged>>
  BY DEF StoreItem
<1>2. /\ IsIngest(w) /\ w.phase = "write" /\ w.now <= now /\ Young(w) /\ TaggedLast(w)
      /\ w.source \in Sources /\ w.now \in 0 .. MaxTick
  <2>1. w.phase = "write" /\ IsIngest(w)
    BY <1>1, NoWorkIdle DEF IInv, Typed, IngestsTyped
  <2>2. QED BY <2>1 DEF IInv, IngestsSound, IsSound, IsIngest
<1>3. /\ first \in DOMAIN w.left /\ item \in PreparedItem
      /\ IsIngest(after) /\ Young(after) /\ TaggedLast(after)
      /\ (\A i \in DOMAIN rest : rest[i].key # k) => w.derived[k] \in {NoText, ItemText(item)}
  BY <1>1, <1>2, RestOfItems
<1>4. k \in Keys /\ item.date \in Dates /\ Acceptable(w.source, item.date, w.now)
  BY <1>2, <1>3 DEF PreparedItem, Young
<1>5. after.phase = "write" /\ after.source = w.source /\ after.now = w.now
  BY <1>2 DEF IsIngest
<1> HIDE DEF first, rest, after, item, k
<1>6. IngestsTyped' /\ IngestsSound'
  <2>1. IsSound(after) /\ after.now <= now
    BY <1>2, <1>3, <1>5 DEF IsSound
  <2>2. QED BY <1>1, <1>3, <1>5, <2>1, OneIngest DEF IInv, Typed
<1>7. job'[j].source = w.source /\ job'[j].now = w.now
  BY <1>1, <1>5 DEF IInv, Typed, IngestsTyped
<1>8. j # NoJob
  BY ConstantsAssumption
(* What the row k of the transaction has to satisfy.                       *)
<1>9. /\ RowsTyped(work') /\ work.nextId <= work'.nextId
      /\ k \in DOMAIN work'.article /\ DOMAIN work'.article = DOMAIN work.article \union {k}
      /\ \A l \in DOMAIN work.article \ {k} : work'.article[l] = work.article[l]
      /\ k \in DOMAIN work.article => work'.article[k].id = work.article[k].id
      /\ k \notin DOMAIN work.article => work'.article[k].id = work.nextId
      /\ \/ k \in DOMAIN work.article /\ work'.article[k].date = work.article[k].date
         \/ work'.article[k].date = item.date
      /\ k \in twice' \/ work'.article[k].tagged = work'.article[k].text
  <2>1. CASE k \in DOMAIN work.article
    <3> DEFINE a == work.article[k]
               b == Enriched(a, item, w.source)
    <3>1. a \in Article /\ a.owner \in a.feeds
      BY <2>1 DEF IInv, Typed, RowsTyped, IsTable
    <3>2. /\ b \in Article /\ b.id = a.id /\ b.owner \in b.feeds /\ b.date \in {a.date, item.date}
          /\ a.tagged = a.text => b.tagged = b.text
      BY <1>2, <1>3, <3>1, EnrichedArticle
    <3>3. work' = [work EXCEPT !.article[k] = b]
      BY <1>1, <2>1
    <3> HIDE DEF b
    <3>4. /\ RowsTyped(work') /\ work'.nextId = work.nextId /\ DOMAIN work'.article = DOMAIN work.article
          /\ work'.article[k] = b /\ \A l \in DOMAIN work.article \ {k} : work'.article[l] = work.article[l]
      BY <2>1, <3>2, <3>3, RowReplaced DEF IInv, Typed
    <3>5. work.nextId \in Nat
      BY DEF IInv, Typed, RowsTyped
    <3>6. k \in twice \/ a.tagged = a.text
      BY <2>1 DEF IInv, TagsFollow
    <3>7. QED BY <1>1, <2>1, <3>2, <3>4, <3>5, <3>6
  <2>2. CASE k \notin DOMAIN work.article
    <3> DEFINE a == [id |-> NewId(work), text |-> ItemText(item),
                     tagged |-> IF w.derived[k] = NoText THEN ItemText(item) ELSE w.derived[k],
                     date |-> item.date, collected |-> w.now, owner |-> w.source, feeds |-> {w.source}]
    <3>1. /\ work.nextId \in Ids
          /\ work' = Inserted(work, k, a)
      BY <1>1, <2>2 DEF Insert, NewId, Inserted, k
    <3>2. w.derived[k] \in Text \union {NoText}
      BY <1>2, <1>4 DEF IsIngest
    <3>3. /\ a \in Article /\ a.id = work.nextId /\ a.owner \in a.feeds /\ a.date = item.date
          /\ a.text = ItemText(item)
          /\ a.tagged = (IF w.derived[k] = NoText THEN ItemText(item) ELSE w.derived[k])
      BY <1>2, <1>3, <1>4, <3>1, <3>2, TextsOfItems DEF Article, NewId
    <3> HIDE DEF a
    <3>4. /\ RowsTyped(work') /\ DOMAIN work'.article = DOMAIN work.article \union {k}
          /\ work'.article[k] = a /\ \A l \in DOMAIN work.article : work'.article[l] = work.article[l]
      <4>1. RowsTyped(work)
        BY DEF IInv, Typed
      <4>2. QED BY ONLY <1>4, <2>2, <3>1, <3>3, <4>1, RowInserted
    <3>5. work.nextId \in Nat /\ work'.nextId = work.nextId + 1
      BY <3>1 DEF Inserted, IInv, Typed, RowsTyped
    <3>6. k \in twice' \/ a.tagged = a.text
      BY <1>1, <1>3, <2>2, <3>3
    <3>7. QED BY <2>2, <3>3, <3>4, <3>5, <3>6
  <2>3. QED BY <2>1, <2>2
<1>10. Typed'
  BY <1>1, <1>6, <1>9 DEF IInv, Typed, PurgeTyped, RowsTyped, IsTable
<1>11. NothingPending'
  BY <1>1, <1>8 DEF NothingPending
<1>12. OnlyAdds'
  <2>1. db.nextId \in Nat /\ work.nextId \in Nat /\ work'.nextId \in Nat
    BY <1>9 DEF IInv, Typed, RowsTyped
  <2>2. \A l \in DOMAIN db.article : l \in DOMAIN work'.article /\ work'.article[l].id = db.article[l].id
    BY <1>9 DEF IInv, OnlyAdds
  <2>3. ASSUME NEW l \in DOMAIN work'.article \ DOMAIN db.article
        PROVE  /\ db.nextId <= work'.article[l].id
               /\ Acceptable(w.source, work'.article[l].date, w.now)
    <3>1. CASE l # k
      BY <1>1, <1>9, <2>3, <3>1 DEF IInv, OnlyAdds
    <3>2. CASE l = k /\ k \in DOMAIN work.article
      BY <1>1, <1>4, <1>9, <2>3, <3>2 DEF IInv, OnlyAdds
    <3>3. CASE l = k /\ k \notin DOMAIN work.article
      BY <1>4, <1>9, <2>1, <2>3, <3>3 DEF IInv, OnlyAdds
    <3>4. QED BY <3>1, <3>2, <3>3
  <2>4. QED BY <1>1, <1>7, <1>9, <2>1, <2>2, <2>3 DEF IInv, OnlyAdds
<1>13. TagsFollow(db)' /\ TagsFollow(work)'
  BY <1>1, <1>9 DEF IInv, TagsFollow
<1>14. PurgedWereOld'
  BY <1>1 DEF IInv, PurgedWereOld
<1>15. QED BY <1>6, <1>10, <1>11, <1>12, <1>13, <1>14 DEF IInv

LEMMA CommitStep == ASSUME IInv, NEW j \in Jobs, Commit(j) PROVE IInv'
<1>1. /\ writer = j /\ writer' = NoJob /\ db' = work /\ work' = work
      /\ job' = [job EXCEPT ![j] = NoWork] /\ UNCHANGED <<now, purge, purged, twice>>
  BY DEF Commit
<1>2. \A i \in Jobs \ {j} : writer' = i <=> writer = i
  BY <1>1, ConstantsAssumption
<1>3. IngestsTyped' /\ IngestsSound'
  BY <1>1, <1>2, NoWorkIdle, ConstantsAssumption, OneIngest DEF IInv, Typed
<1>4. Typed'
  BY <1>1, <1>3 DEF IInv, Typed, RowsTyped, IsTable, PurgeTyped
<1>5. OnlyAdds' /\ NothingPending'
  <2>1. work.nextId \in Nat
    BY DEF IInv, Typed, RowsTyped
  <2>2. QED BY <1>1, <2>1 DEF OnlyAdds, NothingPending
<1>6. (TagsFollow(db) /\ TagsFollow(work) /\ PurgedWereOld)'
  BY <1>1 DEF IInv, TagsFollow, PurgedWereOld
<1>7. QED BY <1>3, <1>4, <1>5, <1>6 DEF IInv

LEMMA FailStep == ASSUME IInv, NEW j \in Jobs, Fail(j) PROVE IInv'
<1>1. /\ job[j].phase # "idle" /\ job' = [job EXCEPT ![j] = NoWork]
      /\ writer' = IF writer = j THEN NoJob ELSE writer
      /\ work' = IF writer = j THEN db ELSE work
      /\ UNCHANGED <<now, db, purge, purged, twice>>
  BY DEF Fail
<1>2. IngestsTyped' /\ IngestsSound'
  <2>1. \A i \in Jobs \ {j} : writer' = i <=> writer = i
    BY <1>1, ConstantsAssumption
  <2>2. writer' # j
    BY <1>1, ConstantsAssumption
  <2>3. QED BY <1>1, <2>1, <2>2, NoWorkIdle, OneIngest DEF IInv, Typed
<1>3. CASE writer = j
  <2>1. Typed'
    BY <1>1, <1>2, <1>3 DEF IInv, Typed, RowsTyped, IsTable, PurgeTyped
  <2>2. OnlyAdds' /\ NothingPending'
    <3>1. db.nextId \in Nat
      BY DEF IInv, Typed, RowsTyped
    <3>2. QED BY <1>1, <1>3, <3>1 DEF OnlyAdds, NothingPending
  <2>3. (TagsFollow(db) /\ TagsFollow(work) /\ PurgedWereOld)'
    BY <1>1, <1>3 DEF IInv, TagsFollow, PurgedWereOld
  <2>4. QED BY <1>2, <2>1, <2>2, <2>3 DEF IInv
<1>4. CASE writer # j
  <2>1. writer # NoJob => job'[writer] = job[writer]
    BY <1>1, <1>4 DEF IInv, Typed, IngestsTyped
  <2>2. QED BY <1>1, <1>2, <1>4, <2>1, TablesStay DEF IInv, Typed
<1>5. QED BY <1>3, <1>4

LEMMA PurgeBeginsOrFails == ASSUME IInv, PurgeStart \/ PurgeFails PROVE IInv'
<1>1. /\ UNCHANGED <<now, db, work, writer, job, purged, twice>>
      /\ \/ purge' = NoPurge
         \/ purge' = [now |-> now, left |-> {db.article[k].owner : k \in DOMAIN db.article}]
  BY DEF PurgeStart, PurgeFails
<1>2. \A k \in DOMAIN db.article : db.article[k].owner \in Sources
  BY DEF IInv, Typed, RowsTyped, IsTable, Article
<1>3. PurgeTyped'
  BY <1>1, <1>2, ConstantsAssumption DEF IInv, Typed, PurgeTyped, NoPurge
<1>4. Typed' /\ IngestsSound'
  BY <1>1, <1>3 DEF IInv, Typed, RowsTyped, IsTable, IngestsTyped, IngestsSound
<1>5. (NothingPending /\ OnlyAdds /\ TagsFollow(db) /\ TagsFollow(work) /\ PurgedWereOld)'
  BY <1>1 DEF IInv, NothingPending, OnlyAdds, TagsFollow, PurgedWereOld
<1>6. QED BY <1>4, <1>5 DEF IInv

(* What a batch deletes is older than every feed of it allows.             *)
LEMMA DeletedIsOld ==
    ASSUME IInv, NEW k \in DOMAIN db.article, Expired(db.article[k])
    PROVE  /\ ts(db.article[k]) \in 0 .. MaxTick
           /\ db.article[k].feeds \in SUBSET Sources
           /\ \A s \in db.article[k].feeds : ts(db.article[k]) + Retention[s] < purge.now
<1>1. db.article[k] \in Article
  BY DEF IInv, Typed, RowsTyped, IsTable
<1>2. ts(db.article[k]) \in 0 .. MaxTick
  BY <1>1 DEF ts, Article, Dates
<1>3. QED BY <1>1, <1>2 DEF Expired, Article

(* One DELETE of the purge, without its bookkeeping.                       *)
LEMMA DeleteShape ==
    ASSUME IInv, NEW s \in Sources, PurgeDelete(s)
    PROVE  \E gone \in SUBSET DOMAIN db.article :
              /\ \A k \in gone : Expired(db.article[k])
              /\ writer = NoJob /\ UNCHANGED <<now, writer, job, twice>>
              /\ db' = Deleted(db, gone) /\ work' = db'
              /\ purge' = purge \/ purge' = [purge EXCEPT !.left = @ \ {s}]
              /\ purged' = [k \in DOMAIN purged \union gone |->
                              IF k \in gone THEN [now |-> purge.now, ts |-> ts(db.article[k]),
                                                  feeds |-> db.article[k].feeds]
                              ELSE purged[k]]
<1> DEFINE expired == {k \in DOMAIN db.article : db.article[k].owner = s /\ Expired(db.article[k])}
           n == Min({DeleteMax, Cardinality(expired)})
<1>1. PICK gone \in kSubset(n, expired) :
          /\ db' = Deleted(db, gone)
          /\ work' = db'
          /\ purge' = IF Cardinality(gone) < DeleteMax
                      THEN [purge EXCEPT !.left = @ \ {s}] ELSE purge
          /\ purged' = [k \in DOMAIN purged \union gone |->
                           IF k \in gone THEN [now |-> purge.now, ts |-> ts(db.article[k]),
                                               feeds |-> db.article[k].feeds]
                           ELSE purged[k]]
  BY DEF PurgeDelete, Deleted
<1>2. gone \in SUBSET expired
  BY DEF kSubset
<1>3. writer = NoJob /\ UNCHANGED <<now, writer, job, twice>>
  BY DEF PurgeDelete
<1>4. QED BY <1>1, <1>2, <1>3

LEMMA PurgeDeleteStep == ASSUME IInv, NEW s \in Sources, PurgeDelete(s) PROVE IInv'
<1>1. PICK gone \in SUBSET DOMAIN db.article :
          /\ \A k \in gone : Expired(db.article[k])
          /\ writer = NoJob /\ UNCHANGED <<now, writer, job, twice>>
          /\ db' = Deleted(db, gone) /\ work' = db'
          /\ purge' = purge \/ purge' = [purge EXCEPT !.left = @ \ {s}]
          /\ purged' = [k \in DOMAIN purged \union gone |->
                          IF k \in gone THEN [now |-> purge.now, ts |-> ts(db.article[k]),
                                              feeds |-> db.article[k].feeds]
                          ELSE purged[k]]
  BY DeleteShape
<1>2. /\ RowsTyped(db') /\ db'.nextId = db.nextId
      /\ DOMAIN db'.article = DOMAIN db.article \ gone
      /\ \A k \in DOMAIN db'.article : db'.article[k] = db.article[k]
  <2>1. RowsTyped(db)
    BY DEF IInv, Typed
  <2>2. QED BY ONLY <1>1, <2>1, RowsDeleted
<1>3. \A k \in gone : /\ ts(db.article[k]) \in 0 .. MaxTick
                      /\ db.article[k].feeds \in SUBSET Sources
                      /\ \A r \in db.article[k].feeds : ts(db.article[k]) + Retention[r] < purge.now
  BY <1>1, DeletedIsOld
<1>4. PurgeTyped'
  <2>1. purge.now \in 0 .. MaxTick /\ purge' \in [now: 0 .. MaxTick, left: SUBSET Sources] /\ purge'.now = purge.now
    BY <1>1 DEF IInv, Typed, PurgeTyped
  <2>2. purged' \in [DOMAIN purged' -> Deletion]
    <3>1. \A k \in gone : [now |-> purge.now, ts |-> ts(db.article[k]), feeds |-> db.article[k].feeds] \in Deletion
      BY <1>3, <2>1 DEF Deletion
    <3>2. \A k \in DOMAIN purged : purged[k] \in Deletion
      BY DEF IInv, Typed, PurgeTyped
    <3>3. QED BY <1>1, <3>1, <3>2
  <2>3. QED BY <1>1, <2>1, <2>2 DEF IInv, Typed, PurgeTyped
<1>5. PurgedWereOld'
  <2> SUFFICES ASSUME NEW k \in DOMAIN purged', NEW r \in purged'[k].feeds
               PROVE  purged'[k].ts + Retention[r] < purged'[k].now
    BY DEF PurgedWereOld
  <2>1. CASE k \in gone
    BY <1>1, <1>3, <2>1
  <2>2. CASE k \notin gone
    BY <1>1, <2>2 DEF IInv, PurgedWereOld
  <2>3. QED BY <2>1, <2>2
<1>6. Typed' /\ IngestsSound'
  BY <1>1, <1>2, <1>4 DEF IInv, Typed, IngestsTyped, IngestsSound
<1>7. NothingPending' /\ OnlyAdds'
  <2>1. db'.nextId \in Nat
    BY <1>2 DEF RowsTyped
  <2>2. QED BY <1>1, <2>1 DEF NothingPending, OnlyAdds
<1>8. TagsFollow(db)' /\ TagsFollow(work)'
  BY <1>1, <1>2 DEF IInv, TagsFollow
<1>9. QED BY <1>5, <1>6, <1>7, <1>8 DEF IInv

LEMMA StepIInv == IInv /\ [Next]_vars => IInv'
BY BeginStep, ReadKnownStep, LockStep, StoreItemStep, CommitStep, FailStep,
   PurgeBeginsOrFails, PurgeDeleteStep, TickStep DEF Next

THEOREM SpecIInv == Spec => []IInv
BY InitIInv, StepIInv, PTL DEF Spec

----------------------------------------------------------------------------
(* Safety of the article table.                                            *)

(* Rows are well formed, ids unique and handed out in ascending order.     *)
THEOREM SpecTypeOK == Spec => []TypeOK
<1>1. IInv => TypeOK
  BY NoWorkIdle DEF IInv, Typed, RowsTyped, IngestsTyped, PurgeTyped, TypeOK, IsIngest
<1>2. QED BY <1>1, SpecIInv, PTL

(* ingest: the derived tags of an article are those of its stored text.    *)
THEOREM SpecTagsMatchText == Spec => []TagsMatchText
<1>1. IInv => TagsMatchText
  BY DEF IInv, TagsFollow, TagsMatchText
<1>2. QED BY <1>1, SpecIInv, PTL

(* Database.write: what fails leaves nothing behind.                       *)
THEOREM SpecNothingPending == Spec => []NothingPending
<1>1. IInv => NothingPending
  BY DEF IInv
<1>2. QED BY <1>1, SpecIInv, PTL

(* What a step can do to the committed articles: an id stays with its      *)
(* article, and what is new has an id that was never handed out.           *)
LEMMA IdsGrow ==
    ASSUME IInv, [Next]_vars
    PROVE  /\ db.nextId \in Nat /\ db'.nextId \in Nat /\ db.nextId <= db'.nextId
           /\ \A k \in DOMAIN db'.article :
                 \/ k \in DOMAIN db.article /\ db'.article[k].id = db.article[k].id
                 \/ db.nextId <= db'.article[k].id
<1>1. db.nextId \in Nat /\ work.nextId \in Nat
  BY DEF IInv, Typed, RowsTyped
<1>2. CASE \E j \in Jobs : Commit(j)
  <2>1. db' = work
    BY <1>2 DEF Commit
  <2>2. QED BY <1>1, <2>1 DEF IInv, OnlyAdds
<1>3. CASE \E s \in Sources : PurgeDelete(s)
  <2>1. PICK gone \in SUBSET DOMAIN db.article : db' = Deleted(db, gone)
    BY <1>3, DeleteShape
  <2>2. RowsTyped(db)
    BY DEF IInv, Typed
  <2>3. /\ db'.nextId = db.nextId /\ DOMAIN db'.article = DOMAIN db.article \ gone
        /\ \A k \in DOMAIN db'.article : db'.article[k] = db.article[k]
    BY <2>1, <2>2, RowsDeleted
  <2>4. QED BY <1>1, <2>3
<1>4. CASE UNCHANGED db
  BY <1>1, <1>4
<1>5. QED
  BY <1>2, <1>3, <1>4 DEF Next, vars, Begin, ReadKnown, Lock, StoreItem, Fail,
                          PurgeStart, PurgeFails, Tick

(* purge_expired: an article stays as long as one of its feeds keeps it.   *)
THEOREM SpecKeptByAnyFeed == Spec => KeptByAnyFeed
<1> DEFINE Kept == \A k \in DOMAIN db.article :
                      k \notin DOMAIN db'.article =>
                          \A s \in db.article[k].feeds : ts(db.article[k]) + Retention[s] < now
<1>1. ASSUME IInv, [Next]_vars PROVE Kept
  <2>1. CASE \E j \in Jobs : Commit(j)
    BY <1>1, <2>1 DEF Commit, IInv, OnlyAdds
  <2>2. CASE \E s \in Sources : PurgeDelete(s)
    <3> SUFFICES ASSUME NEW k \in DOMAIN db.article, k \notin DOMAIN db'.article,
                        NEW r \in db.article[k].feeds
                 PROVE  ts(db.article[k]) + Retention[r] < now
      OBVIOUS
    <3>1. PICK gone \in SUBSET DOMAIN db.article : /\ \A l \in gone : Expired(db.article[l])
                                                   /\ db' = Deleted(db, gone)
      BY <1>1, <2>2, DeleteShape
    <3>2. RowsTyped(db)
      BY <1>1 DEF IInv, Typed
    <3>3. DOMAIN db'.article = DOMAIN db.article \ gone
      BY <3>1, <3>2, RowsDeleted
    <3>4. k \in gone
      BY <3>3
    <3>5. /\ ts(db.article[k]) \in 0 .. MaxTick /\ r \in Sources
          /\ ts(db.article[k]) + Retention[r] < purge.now
      BY <1>1, <3>1, <3>4, DeletedIsOld
    <3>6. purge.now <= now /\ purge.now \in Nat /\ now \in Nat
      BY <1>1 DEF IInv, Typed, PurgeTyped
    <3>7. Retention[r] \in Nat
      BY <3>5, ConstantsAssumption
    <3>8. QED BY <3>5, <3>6, <3>7
  <2>3. CASE UNCHANGED db
    BY <2>3
  <2>4. QED
    BY <1>1, <2>1, <2>2, <2>3 DEF Next, vars, Begin, ReadKnown, Lock, StoreItem, Fail,
                                  PurgeStart, PurgeFails, Tick
<1>2. QED BY <1>1, SpecIInv, PTL DEF Spec, KeptByAnyFeed

(* ingest and purge_expired agree on what is too old.                      *)
THEOREM SpecComesBackOnlyLate == Spec => ComesBackOnlyLate
<1> DEFINE Late ==
        \A j \in Jobs, k \in DOMAIN purged :
           (/\ writer = j /\ writer' = NoJob
            /\ k \notin DOMAIN db.article /\ k \in DOMAIN db'.article
            /\ job[j].source \in purged[k].feeds
            /\ db'.article[k].date # NoDate
            /\ db'.article[k].date <= purged[k].ts)
           => job[j].now < purged[k].now
<1>1. ASSUME IInv, [Next]_vars PROVE Late
  <2> SUFFICES ASSUME NEW j \in Jobs, NEW k \in DOMAIN purged,
                      writer = j, writer' = NoJob,
                      k \notin DOMAIN db.article, k \in DOMAIN db'.article,
                      job[j].source \in purged[k].feeds,
                      db'.article[k].date # NoDate,
                      db'.article[k].date <= purged[k].ts
               PROVE  job[j].now < purged[k].now
    OBVIOUS
  <2>1. db' = work
    <3>1. writer # NoJob /\ db' # db
      BY ConstantsAssumption
    <3>2. QED
      BY <1>1, <3>1 DEF Next, vars, Begin, ReadKnown, Lock, StoreItem, Commit, Fail,
                        PurgeStart, PurgeDelete, PurgeFails, Tick
  <2>2. Acceptable(job[j].source, db'.article[k].date, job[j].now)
    BY <1>1, <2>1 DEF IInv, OnlyAdds
  <2>3. /\ purged[k] \in Deletion
        /\ purged[k].ts + Retention[job[j].source] < purged[k].now
    BY <1>1 DEF IInv, Typed, PurgeTyped, PurgedWereOld
  <2>4. db'.article[k].date \in Nat
    BY <1>1, <2>1 DEF IInv, Typed, RowsTyped, IsTable, Article, Dates
  <2>5. job[j].now \in Nat /\ Retention[job[j].source] \in Nat
    <3>1. job[j].phase = "write"
      BY <1>1 DEF IInv, Typed, IngestsTyped
    <3>2. IsIngest(job[j])
      BY <1>1, <3>1, NoWorkIdle DEF IInv, Typed, IngestsTyped
    <3>3. QED BY <3>2, ConstantsAssumption DEF IsIngest
  <2>6. QED BY <2>2, <2>3, <2>4, <2>5 DEF Acceptable, Deletion
<1>2. QED BY <1>1, SpecIInv, PTL DEF Spec, ComesBackOnlyLate

----------------------------------------------------------------------------
(* The consumer.                                                           *)

LEMMA ReadersOnlyRead == [FeedNext]_feedVars => [Next]_vars
BY DEF FeedNext, feedVars, storeVars, Connect, since

(* Reading changes nothing: what holds of the article table holds with     *)
(* readers, KeptByAnyFeed and ComesBackOnlyLate included.                  *)
THEOREM FeedImplementsStore == FeedSpec => Spec
BY ReadersOnlyRead, PTL DEF FeedSpec, FeedInit, Spec

(* The newest article exists, and its id has been handed out.              *)
LEMMA LatestCommitted == ASSUME FeedIInv PROVE LatestCursor \in Nat /\ LatestCursor < db.nextId
<1> DEFINE D     == DOMAIN db.article
           dates == {ts(db.article[k]) : k \in D}
           last  == {k \in D : ts(db.article[k]) = Max(dates)}
           ids   == {db.article[k].id : k \in last}
<1>1. /\ db.nextId \in Nat
      /\ \A k \in D : /\ ts(db.article[k]) \in 0 .. MaxTick
                      /\ db.article[k].id \in 1 .. MaxId /\ db.article[k].id < db.nextId
  BY DEF FeedIInv, IInv, Typed, RowsTyped, IsTable, Article, Ids, Dates, ts
<1>2. CASE D = {}
  <2>1. 0 < db.nextId
    BY <1>1 DEF FeedIInv
  <2>2. QED BY <1>2, <2>1 DEF LatestCursor
<1>3. CASE D # {}
  <2>1. Max(dates) \in dates /\ \A d \in dates : d <= Max(dates)
    <3>1. dates \in SUBSET (0 .. MaxTick) /\ dates # {}
      BY <1>1, <1>3
    <3> HIDE DEF dates
    <3>2. QED BY <3>1, GreatestElement, ConstantsAssumption
  <2>2. Max(ids) \in ids /\ \A i \in ids : i <= Max(ids)
    <3>1. PICK k \in D : k \in last
      BY <2>1
    <3>2. ids \in SUBSET (0 .. MaxId)
      <4>1. \A l \in last : db.article[l].id \in 0 .. MaxId
        BY <1>1
      <4> HIDE DEF last
      <4>2. QED BY <4>1
    <3>3. ids # {}
      BY <3>1
    <3> HIDE DEF ids
    <3>4. QED BY <3>2, <3>3, GreatestElement, ConstantsAssumption
  <2>3. PICK k \in last : db.article[k].id = Max(ids)
    BY <2>2
  <2>4. \A l \in D : \/ ts(db.article[l]) < ts(db.article[k])
                     \/ ts(db.article[l]) = ts(db.article[k]) /\ db.article[l].id <= db.article[k].id
    <3> SUFFICES ASSUME NEW l \in D, ~ (ts(db.article[l]) < ts(db.article[k]))
                 PROVE  ts(db.article[l]) = ts(db.article[k]) /\ db.article[l].id <= db.article[k].id
      OBVIOUS
    <3>1. ts(db.article[l]) <= Max(dates) /\ ts(db.article[k]) = Max(dates)
      BY <2>1, <2>3
    <3>2. ts(db.article[l]) = Max(dates)
      BY <1>1, <2>3, <3>1
    <3>3. QED BY <2>2, <2>3, <3>1, <3>2
  <2>5. Newest \in D
    BY <2>3, <2>4 DEF Newest
  <2>6. QED BY <1>1, <1>3, <2>5 DEF LatestCursor
<1>4. QED BY <1>2, <1>3

LEMMA FeedInitIInv == FeedInit => FeedIInv
BY InitIInv DEF FeedInit, FeedIInv, CursorComplete, Init

LEMMA ConnectStep ==
    ASSUME FeedIInv, NEW first \in Nat, first < db.nextId, Connect(first) PROVE FeedIInv'
<1>1. /\ consumer' = [consumer EXCEPT !.started = TRUE, !.from = first, !.cursor = first]
      /\ UNCHANGED vars
  BY DEF Connect, storeVars
<1>2. /\ consumer' \in [started: BOOLEAN, from: Nat, cursor: Nat, got: {consumer'.got}]
      /\ consumer'.from = first /\ consumer'.cursor = first
  BY <1>1 DEF FeedIInv
<1>3. \A k \in DOMAIN db.article : db.article[k].id \in Nat
  BY DEF FeedIInv, IInv, Typed, RowsTyped, IsTable, Article, Ids
<1>4. CursorComplete'
  BY <1>1, <1>2, <1>3 DEF CursorComplete, vars
<1>5. IInv'
  BY <1>1, TickStep DEF FeedIInv
<1>6. QED BY <1>1, <1>2, <1>4, <1>5 DEF FeedIInv, vars

(* A page ends where its largest id is: what lies between the old cursor   *)
(* and the new one has fewer articles below it and so is in the page.      *)
LEMMA SinceStep == ASSUME FeedIInv, since PROVE FeedIInv'
<1> DEFINE D       == DOMAIN db.article
           id(k)   == db.article[k].id
           new     == {k \in D : id(k) > consumer.cursor}
           below(k) == {l \in new : id(l) < id(k)}
           page    == Page(consumer.cursor)
           ids     == {id(k) : k \in page}
<1>1. /\ page # {}
      /\ consumer' = [consumer EXCEPT !.cursor = Max(ids),
                                      !.got = @ \union {<<id(k), k>> : k \in page}]
      /\ UNCHANGED vars
  BY DEF since, storeVars
<1>2. /\ db.nextId \in Nat
      /\ \A k \in D : id(k) \in 1 .. MaxId /\ id(k) < db.nextId
      /\ \A k, l \in D : id(k) = id(l) => k = l
  BY DEF FeedIInv, IInv, Typed, RowsTyped, IsTable, Article, Ids
<1>3. page = {k \in new : Cardinality(below(k)) < PageMax}
  BY DEF Page
<1>4. IsFiniteSet(D)
  <2>1. [k \in D |-> id(k)] \in Injection(D, 1 .. MaxId)
    BY <1>2 DEF Injection, IsInjective
  <2>2. IsFiniteSet(1 .. MaxId)
    <3>1. MaxId \in Int
      BY ConstantsAssumption
    <3>2. QED BY <3>1, FS_Interval
  <2> HIDE DEF D, id
  <2>3. QED BY <2>1, <2>2, FS_Injection
<1>5. Max(ids) \in ids /\ \A i \in ids : i <= Max(ids)
  <2>1. page \subseteq D
    BY <1>3
  <2>2. ids \in SUBSET (0 .. MaxId) /\ ids # {}
    BY <1>1, <1>2, <2>1
  <2> HIDE DEF ids
  <2>3. QED BY <2>2, GreatestElement, ConstantsAssumption
<1>6. PICK top \in page : id(top) = Max(ids)
  BY <1>5
<1>7. top \in new /\ Cardinality(below(top)) < PageMax
  BY <1>3
<1>8. ASSUME NEW k \in new, id(k) <= id(top) PROVE k \in page
  <2>1. below(k) \subseteq below(top) /\ below(top) \subseteq D
    BY <1>2, <1>7, <1>8
  <2>2. IsFiniteSet(below(top)) /\ IsFiniteSet(below(k))
    BY <1>4, <2>1, FS_Subset
  <2>3. /\ Cardinality(below(k)) <= Cardinality(below(top))
        /\ Cardinality(below(k)) \in Nat /\ Cardinality(below(top)) \in Nat
    <3> HIDE DEF below
    <3>1. QED BY <2>1, <2>2, FS_Subset, FS_CardinalityType
  <2>4. Cardinality(below(k)) < PageMax
    <3> HIDE DEF below
    <3>1. QED BY <1>7, <2>3, PageAssumption
  <2>5. QED BY <1>3, <2>4
<1> HIDE DEF page, ids
<1>9. /\ consumer' \in [started: BOOLEAN, from: Nat, cursor: Nat, got: {consumer'.got}]
      /\ consumer'.from = consumer.from /\ consumer'.cursor = id(top)
      /\ consumer'.got = consumer.got \union {<<id(k), k>> : k \in page}
  <2>1. consumer \in [started: BOOLEAN, from: Nat, cursor: Nat, got: {consumer.got}]
    BY DEF FeedIInv
  <2>2. id(top) \in Nat /\ Max(ids) = id(top)
    BY <1>2, <1>6, <1>7
  <2> DEFINE more == consumer.got \union {<<id(k), k>> : k \in page}
  <2>3. consumer' = [consumer EXCEPT !.cursor = id(top), !.got = more]
    BY <1>1, <2>2
  <2> HIDE DEF more, id
  <2>4. QED BY <2>1, <2>2, <2>3 DEF more
<1>10. CursorComplete'
  <2> SUFFICES ASSUME NEW k \in D, consumer.from < id(k), id(k) <= id(top)
               PROVE  <<id(k), k>> \in consumer'.got
    BY <1>1, <1>9 DEF CursorComplete, vars
  <2>1. CASE id(k) <= consumer.cursor
    BY <1>9, <2>1 DEF FeedIInv, CursorComplete
  <2>2. CASE id(k) > consumer.cursor
    BY <1>8, <1>9, <2>2
  <2>3. QED BY <1>2, <2>1, <2>2 DEF FeedIInv
<1>11. IInv'
  BY <1>1, TickStep DEF FeedIInv
<1>12. consumer'.cursor < db'.nextId
  BY <1>1, <1>2, <1>7, <1>9 DEF vars
<1>13. QED BY <1>9, <1>10, <1>11, <1>12 DEF FeedIInv

LEMMA StoreStep == ASSUME FeedIInv, [Next]_vars, UNCHANGED consumer PROVE FeedIInv'
<1>1. /\ db.nextId \in Nat /\ db'.nextId \in Nat /\ db.nextId <= db'.nextId
      /\ \A k \in DOMAIN db'.article :
            \/ k \in DOMAIN db.article /\ db'.article[k].id = db.article[k].id
            \/ db.nextId <= db'.article[k].id
  BY IdsGrow DEF FeedIInv
<1>2. IInv'
  BY StepIInv DEF FeedIInv
<1>3. \A k \in DOMAIN db'.article : db'.article[k].id \in Nat
  BY <1>2 DEF IInv, Typed, RowsTyped, IsTable, Article, Ids
<1>4. consumer'.cursor \in Nat /\ consumer'.cursor < db'.nextId
  BY <1>1 DEF FeedIInv
<1>5. CursorComplete'
  BY <1>1, <1>3 DEF FeedIInv, CursorComplete
<1>6. QED BY <1>2, <1>4, <1>5 DEF FeedIInv

LEMMA FeedStepIInv == FeedIInv /\ [FeedNext]_feedVars => FeedIInv'
<1> SUFFICES ASSUME FeedIInv, [FeedNext]_feedVars PROVE FeedIInv'
  OBVIOUS
<1>1. 0 \in Nat /\ 0 < db.nextId
  BY IdsGrow DEF FeedIInv, IInv, Typed, RowsTyped
<1>2. CASE (Next /\ UNCHANGED consumer) \/ UNCHANGED feedVars
  BY <1>2, StoreStep DEF feedVars
<1>3. CASE Connect(0) \/ Connect(LatestCursor)
  BY <1>1, <1>3, ConnectStep, LatestCommitted
<1>4. CASE since
  BY <1>4, SinceStep
<1>5. QED BY <1>2, <1>3, <1>4 DEF FeedNext

(* headlines(since_id) and the incremental consumer: the cursor skips      *)
(* nothing, whatever is stored, deleted, rolled back and paged when.       *)
THEOREM FeedCursorComplete == FeedSpec => []CursorComplete
<1>1. FeedIInv => CursorComplete
  BY DEF FeedIInv
<1>2. QED BY <1>1, FeedInitIInv, FeedStepIInv, PTL DEF FeedSpec
=============================================================================
