--------------------------- MODULE NestedTxn_proof ---------------------------
(***************************************************************************)
(* The invariants of NestedTxn, for any number of leaf pages, records,     *)
(* cursors, nested transactions, and any room in the dirty lists.          *)
(***************************************************************************)
EXTENDS NestedTxn_writes

-----------------------------------------------------------------------------
(* Steps that commit nothing at the top level.                              *)

\* What the invariant says of a state depends on the meta page only besides.
LEMMA SameMeta ==
  ASSUME meta' = meta, MetaOK, NEW f, NEW s, NEW g, NEW c, Inv(f, s, g, c),
         file' = f, txns' = s, pg' = g, cursors' = c
  PROVE  NInv'
<1>1. \A x : Root(x)' = Root(x) /\ NextPg(x)' = NextPg(x) BY DEF Root, NextPg
<1>2. \A y, x : Rt(y, x)' = Rt(y, x) BY <1>1 DEF Rt
<1>3. \A y, x : TreeOf(y, x)' = TreeOf(y, x) BY <1>1, <1>2 DEF TreeOf
<1>4. \A h : Unread(h)' = Unread(h) /\ WasRead(h)' = WasRead(h) BY DEF Unread, WasRead
<1>5. \A y, x : TreeOK(y, x)' = TreeOK(y, x) BY <1>1, <1>2 DEF TreeOK
<1>6. \A y, x, h : PartOK(y, x, h)' = PartOK(y, x, h) BY <1>1, <1>3, <1>4 DEF PartOK
<1>7. \A y, x : ListOK(y, x)' = ListOK(y, x) BY <1>1, <1>3 DEF ListOK
<1>8. \A x, h : AllocOK(x, h)' = AllocOK(x, h) BY <1>1, <1>4 DEF AllocOK
<1>9. \A y, x, h : Level(y, x, h)' = Level(y, x, h) BY <1>5, <1>6, <1>7, <1>8 DEF Level
<1>10. Stack(f, s, g)' = Stack(f, s, g) BY <1>9 DEF Stack
<1>11. \A y, x, l : PathTo(y, x, l)' = PathTo(y, x, l) BY <1>1 DEF PathTo
<1>12. CursTop(f, s, c)' = CursTop(f, s, c) BY <1>2, <1>11 DEF CursTop
<1>13. \A x : CursLow(f, x, c)' = CursLow(f, x, c) BY <1>2, <1>11 DEF CursLow
<1>14. Inv(f, s, g, c)' BY <1>10, <1>12, <1>13 DEF Inv
<1>15. MetaOK' BY DEF MetaOK
<1> QED BY <1>14, <1>15 DEF NInv

LEMMA SoundInv ==
  ASSUME NEW w, NEW l, Sound(w, l)
  PROVE  Inv(w.file, w.txns, w.pg, w.cur)
<1>1. PICK f, r, t, g, c, q : Whole(w, l, f, r, t, g, c, q) BY SoundParts
<1>2. Inv(f, Push(r, t), g, c) BY <1>1, InvAt DEF Whole
<1> QED BY <1>1, <1>2 DEF Whole

\* An operation that ends in a sound world.
LEMMA Writes ==
  ASSUME MetaOK, NEW w, NEW l, Sound(w, l), Wrote(w)
  PROVE  NInv'
<1>1. Inv(w.file, w.txns, w.pg, w.cur) BY SoundInv
<1>2. file' = w.file /\ txns' = w.txns /\ pg' = w.pg /\ cursors' = w.cur /\ meta' = meta BY DEF Wrote
<1> QED BY <1>1, <1>2, SameMeta

\* The world in which one starts.
LEMMA Starts ==
  ASSUME NInv, txns # <<>>, NEW l \in Leaves
  PROVE  /\ Sound(World(PathTo(file, txns, l)), l)
         /\ LeavesOf(World(PathTo(file, txns, l))) = Leaves
         /\ CurLeaves(World(PathTo(file, txns, l))) = {cursors[x].leaf : x \in DOMAIN cursors}
<1>1. Inv(file, txns, pg, cursors) BY DEF NInv
<1>2. PICK r \in Seq(TxnRec), t \in TxnRec : txns = Push(r, t)
  BY <1>1, Popped DEF Inv, Types
<1>3. PICK f, s, g, c, q : f = file /\ s = txns /\ g = pg /\ c = cursors /\ q = PathTo(file, txns, l) OBVIOUS
<1>4. PICK w : w = World(PathTo(file, txns, l)) OBVIOUS
<1>5. w = Made(f, Push(r, t), g, c, q) BY <1>2, <1>3, <1>4 DEF World, Made
<1>6. Leaves = DOMAIN Rt(f, Push(r, t)) BY <1>2, <1>3 DEF Leaves, Rt
<1>7. At(f, r, t, g, c, q, l)
  <2>1. Inv(f, Push(r, t), g, c) BY <1>1, <1>2, <1>3
  <2>2. q = PathTo(f, Push(r, t), l) BY <1>2, <1>3
  <2> QED BY <1>6, <2>1, <2>2, InvAt
<1>8. Sound(w, l) BY <1>5, <1>7 DEF Sound
<1>9. w.file = f /\ w.txns = Push(r, t) /\ w.cur = c BY <1>5, MadeParts
<1> QED BY <1>3, <1>4, <1>6, <1>8, <1>9 DEF LeavesOf, CurLeaves

LEMMA PutStep ==
  ASSUME NInv, NEW l, NEW v \in Value, Put(l, v)
  PROVE  NInv'
<1>1. MetaOK /\ txns # <<>> /\ l \in Leaves BY DEF NInv, Put, Running
<1>2. PICK w : w = World(PathTo(file, txns, l)) OBVIOUS
<1>3. Sound(w, l) BY <1>1, <1>2, Starts
<1>4. Sound(PutAt(w, l, v), l) BY <1>1, <1>3, PutSound
<1>5. Wrote(PutAt(w, l, v)) BY <1>2 DEF Put
<1> QED BY <1>1, <1>4, <1>5, Writes

LEMMA CursorPutStep ==
  ASSUME NInv, NEW c, NEW v \in Value, CursorPut(c, v)
  PROVE  NInv'
<1>1. MetaOK /\ txns # <<>> /\ c \in DOMAIN cursors BY DEF NInv, CursorPut, Running, Usable
<1>2. PICK l : l = cursors[c].leaf OBVIOUS
<1>3. l \in Leaves /\ cursors[c].path = PathTo(file, txns, l)
  <2>1. CursTop(file, txns, cursors) BY <1>1 DEF NInv, Inv
  <2> QED BY <1>1, <1>2, <2>1 DEF CursTop, Leaves, Rt
<1>4. PICK w : w = World(cursors[c].path) OBVIOUS
<1>5. Sound(w, l) BY <1>1, <1>3, <1>4, Starts
<1>6. Sound(PutAt(w, l, v), l) BY <1>1, <1>5, PutSound
<1>7. Wrote(PutAt(w, l, v)) BY <1>2, <1>4 DEF CursorPut
<1> QED BY <1>1, <1>6, <1>7, Writes

LEMMA PutSplitsStep ==
  ASSUME NInv, NEW m, NEW l, NEW v \in Value, PutSplits(m, l, v)
  PROVE  NInv'
<1>1. MetaOK /\ txns # <<>> /\ m \in Leaves /\ l \in Leaf /\ l \notin Leaves
  BY DEF NInv, PutSplits, Running
<1>2. PICK w : w = World(PathTo(file, txns, m)) OBVIOUS
<1>3. Sound(w, m) /\ LeavesOf(w) = Leaves BY <1>1, <1>2, Starts
<1>4. Sound(Grow(w, m, l, v), m) BY <1>1, <1>3, GrowSound
<1>5. Wrote(Grow(w, m, l, v)) BY <1>2 DEF PutSplits
<1> QED BY <1>1, <1>4, <1>5, Writes

LEMMA DelMergesStep ==
  ASSUME NInv, NEW l, NEW m, DelMerges(l, m)
  PROVE  NInv'
<1>1. MetaOK /\ txns # <<>> /\ m \in Leaves /\ l \in Leaves /\ l # m
      /\ \A x \in DOMAIN cursors : cursors[x].leaf # l
  BY DEF NInv, DelMerges, Running
<1>2. PICK w : w = World(PathTo(file, txns, l)) OBVIOUS
<1>3. Sound(w, l) /\ LeavesOf(w) = Leaves /\ CurLeaves(w) = {cursors[x].leaf : x \in DOMAIN cursors}
  BY <1>1, <1>2, Starts
<1>4. PICK k : Sound(MergeInto(w, l, m), k) BY <1>1, <1>3, MergeSound
<1>5. Wrote(MergeInto(w, l, m)) BY <1>2 DEF DelMerges
<1> QED BY <1>1, <1>4, <1>5, Writes
-----------------------------------------------------------------------------
(* Cursors.                                                                 *)

\* The cursors d are those of c but for one of the last transaction.
Placed(f, s, c, d, k, l) ==
  /\ d \in CursorTable /\ l \in DOMAIN Rt(f, s)
  /\ k.own = Len(s) /\ Len(k.backup) = 0 /\ k.leaf = l /\ k.path = PathTo(f, s, l)
  /\ \A x \in DOMAIN d : d[x] = k \/ (x \in DOMAIN c /\ d[x] = c[x])

LEMMA PlacedInv ==
  ASSUME NEW f, NEW s, NEW g, NEW c, Inv(f, s, g, c), s # <<>>,
         NEW d, NEW k, NEW l, Placed(f, s, c, d, k, l)
  PROVE  Inv(f, s, g, d)
<1>1. s \in Seq(TxnRec) /\ CursTop(f, s, c) /\ CursLow(f, Front(s), c) BY DEF Inv, Types
<1>2. PICK r \in Seq(TxnRec) : r = Front(s) /\ Len(r) = Len(s) - 1 BY <1>1, Popped
<1>3. Len(s) \in Nat /\ Len(s) = Len(r) + 1 /\ Len(r) \in Nat BY <1>1, <1>2
<1>4. CursTop(f, s, d) BY <1>1 DEF CursTop, Placed
<1>5. CursLow(f, r, d)
  <2> SUFFICES ASSUME NEW x \in DOMAIN d
               PROVE  /\ d[x].own \in 1 .. Len(r) + 1
                      /\ Len(d[x].backup) = Len(r) + 1 - d[x].own
                      /\ \A j \in d[x].own .. Len(r) :
                           /\ d[x].leaf \in DOMAIN Rt(f, SubSeq(r, 1, j))
                           /\ d[x].backup[j - d[x].own + 1] = PathTo(f, SubSeq(r, 1, j), d[x].leaf)
    BY DEF CursLow
  <2>1. CASE d[x] = k
    <3>1. d[x].own = Len(r) + 1 /\ Len(d[x].backup) = 0 BY <1>3, <2>1 DEF Placed
    <3> QED BY <1>3, <3>1
  <2>2. CASE x \in DOMAIN c /\ d[x] = c[x]
    <3>1. CursLow(f, r, c) BY <1>1, <1>2
    <3> QED BY <2>2, <3>1 DEF CursLow
  <2> QED BY <2>1, <2>2 DEF Placed
<1> QED BY <1>1, <1>2, <1>4, <1>5 DEF Inv, Types, Placed

LEMMA CursorOpenStep ==
  ASSUME NInv, NEW c \in Cursor, NEW l, CursorOpen(c, l)
  PROVE  NInv'
<1>1. Inv(file, txns, pg, cursors) /\ MetaOK /\ txns # <<>> BY DEF NInv, CursorOpen, Running
<1>2. PICK f, s, g, b : f = file /\ s = txns /\ g = pg /\ b = cursors OBVIOUS
<1>3. /\ Inv(f, s, g, b) /\ s # <<>> /\ s \in Seq(TxnRec) /\ b \in CursorTable /\ TreeOK(f, s)
      /\ l \in DOMAIN Rt(f, s) /\ c \notin DOMAIN b
  <2>1. Inv(f, s, g, b) /\ s # <<>> BY <1>1, <1>2
  <2>2. s \in Seq(TxnRec) /\ b \in CursorTable /\ Stack(f, s, g) BY <2>1 DEF Inv, Types
  <2>3. TreeOK(f, s) BY <2>1, <2>2, StackLast DEF Level
  <2> QED BY <1>2, <2>1, <2>2, <2>3 DEF CursorOpen, Leaves, Rt
<1>4. PICK k : k = [own |-> Len(s), leaf |-> l, path |-> PathTo(f, s, l), backup |-> <<>>] OBVIOUS
<1>5. k \in CursorRec
  <2>1. PathTo(f, s, l) \in PathRec BY <1>3, Paths
  <2>2. l \in Leaf BY <1>3, RootOf
  <2>3. Len(s) \in Nat /\ <<>> \in Seq(PathRec) BY <1>3
  <2> QED BY <1>4, <2>1, <2>2, <2>3 DEF CursorRec
<1>6. PICK d : d = With(b, c, k) OBVIOUS
<1>7. d \in CursorTable /\ \A x \in DOMAIN d : d[x] = k \/ (x \in DOMAIN b /\ d[x] = b[x])
  <2>1. b \in [DOMAIN b -> CursorRec] /\ DOMAIN b \subseteq Cursor BY <1>3, CursorTypes
  <2>2. d \in [DOMAIN b \cup {c} -> CursorRec] BY <1>5, <1>6, <2>1 DEF With
  <2>3. DOMAIN b \cup {c} \in SUBSET Cursor BY <2>1
  <2>4. d \in CursorTable BY <2>2, <2>3 DEF CursorTable
  <2> QED BY <1>6, <2>4 DEF With
<1>8. Placed(f, s, b, d, k, l)
  <2>1. Len(<<>>) = 0 OBVIOUS
  <2> QED BY <1>3, <1>4, <1>7, <2>1 DEF Placed
<1>9. Inv(f, s, g, d) BY <1>3, <1>8, PlacedInv
<1>10. file' = f /\ txns' = s /\ pg' = g /\ cursors' = d /\ meta' = meta
  BY <1>2, <1>4, <1>6 DEF CursorOpen, Here
<1> QED BY <1>1, <1>9, <1>10, SameMeta

LEMMA CursorMoveStep ==
  ASSUME NInv, NEW c, NEW l, CursorMove(c, l)
  PROVE  NInv'
<1>1. Inv(file, txns, pg, cursors) /\ MetaOK /\ txns # <<>> BY DEF NInv, CursorMove, Running
<1>2. PICK f, s, g, b : f = file /\ s = txns /\ g = pg /\ b = cursors OBVIOUS
<1>3. /\ Inv(f, s, g, b) /\ s # <<>> /\ s \in Seq(TxnRec) /\ b \in CursorTable /\ TreeOK(f, s)
      /\ l \in DOMAIN Rt(f, s) /\ c \in DOMAIN b /\ b[c].own = Len(s)
  <2>1. Inv(f, s, g, b) /\ s # <<>> BY <1>1, <1>2
  <2>2. s \in Seq(TxnRec) /\ b \in CursorTable /\ Stack(f, s, g) BY <2>1 DEF Inv, Types
  <2>3. TreeOK(f, s) BY <2>1, <2>2, StackLast DEF Level
  <2> QED BY <1>2, <2>1, <2>2, <2>3 DEF CursorMove, Leaves, Rt, Usable, Here
<1>4. PICK k : k = [b[c] EXCEPT !.leaf = l, !.path = PathTo(f, s, l)] OBVIOUS
<1>5. k \in CursorRec /\ k.own = Len(s) /\ k.leaf = l /\ k.path = PathTo(f, s, l) /\ k.backup = b[c].backup
  <2>1. PathTo(f, s, l) \in PathRec BY <1>3, Paths
  <2>2. l \in Leaf BY <1>3, RootOf
  <2>3. b[c] \in CursorRec BY <1>3, CursorTypes
  <2> QED BY <1>3, <1>4, <2>1, <2>2, <2>3 DEF CursorRec
<1>6. PICK d : d = [b EXCEPT ![c] = k] OBVIOUS
<1>7. d \in CursorTable /\ \A x \in DOMAIN d : d[x] = k \/ (x \in DOMAIN b /\ d[x] = b[x])
  <2>1. b \in [DOMAIN b -> CursorRec] /\ DOMAIN b \subseteq Cursor BY <1>3, CursorTypes
  <2>2. d \in [DOMAIN b -> CursorRec] BY <1>5, <1>6, <2>1
  <2>3. d \in CursorTable BY <2>1, <2>2 DEF CursorTable
  <2> QED BY <1>3, <1>6, <2>3
<1>8. Len(k.backup) = 0
  <2>1. CursLow(f, Front(s), b) BY <1>3 DEF Inv
  <2>2. Len(Front(s)) = Len(s) - 1 /\ Len(s) \in Nat BY <1>3, Popped
  <2> QED BY <1>3, <1>5, <2>1, <2>2 DEF CursLow
<1>9. Placed(f, s, b, d, k, l) BY <1>3, <1>5, <1>7, <1>8 DEF Placed
<1>10. Inv(f, s, g, d) BY <1>3, <1>9, PlacedInv
<1>11. cursors' = d
  <2>1. [b EXCEPT ![c].leaf = l, ![c].path = PathTo(f, s, l)]
          = [b EXCEPT ![c] = [b[c] EXCEPT !.leaf = l, !.path = PathTo(f, s, l)]]
    BY <1>3
  <2> QED BY <1>2, <1>4, <1>6, <2>1 DEF CursorMove
<1>12. file' = f /\ txns' = s /\ pg' = g /\ meta' = meta BY <1>2 DEF CursorMove
<1> QED BY <1>1, <1>10, <1>11, <1>12, SameMeta
-----------------------------------------------------------------------------
(* Begin.                                                                   *)

\* A transaction that has done nothing yet.
Begun(r, t, g) ==
  /\ t.root = Root(r) /\ t.next = NextPg(r) /\ t.saved = g
  /\ t.spill = {} /\ t.free = {} /\ DOMAIN t.dirty = {}
  /\ t.room = UmMax - Cardinality(Visible(r))

LEMMA BegunSame ==
  ASSUME NEW r \in Seq(TxnRec), NEW t \in TxnRec, NEW g, Begun(r, t, g)
  PROVE  /\ Root(Push(r, t)) = Root(r) /\ NextPg(Push(r, t)) = NextPg(r)
         /\ \A p : Where(Push(r, t), p) = Where(r, p)
         /\ Listed(Push(r, t)) = Listed(r) /\ Gone(Push(r, t)) = Gone(r)
         /\ FreedApart(Push(r, t)) <=> FreedApart(r)
         /\ Visible(Push(r, t)) = Visible(r)
<1>1. Root(Push(r, t)) = Root(r) /\ NextPg(Push(r, t)) = NextPg(r) BY Parts DEF Begun
<1>2. \A p : Where(Push(r, t), p) = Where(r, p) BY WherePushed DEF Begun
<1>3. Listed(Push(r, t)) = Listed(r)
  <2>1. Listed(Push(r, t)) = Listed(r) \cup Lists(t) BY Parts
  <2> QED BY <2>1 DEF Begun, Lists
<1>4. Gone(Push(r, t)) = Gone(r)
  <2>1. Gone(Push(r, t)) = Gone(r) \cup t.free BY Parts
  <2> QED BY <2>1 DEF Begun
<1>5. FreedApart(Push(r, t)) <=> FreedApart(r)
  <2>1. FreedApart(Push(r, t)) <=> FreedApart(r) /\ t.free \cap Gone(r) = {} BY Parts
  <2> QED BY <2>1 DEF Begun
<1>6. Visible(Push(r, t)) = Visible(r)
  <2>1. Visible(Push(r, t)) = (Visible(r) \cup DOMAIN t.dirty) \ t.spill BY SeenPushed
  <2> QED BY <2>1 DEF Begun
<1> QED BY <1>1, <1>2, <1>3, <1>4, <1>5, <1>6

LEMMA BegunPages ==
  ASSUME NEW f, NEW r \in Seq(TxnRec), NEW t \in TxnRec, NEW g, Begun(r, t, g)
  PROVE  /\ Rt(f, Push(r, t)) = Rt(f, r) /\ TreeOf(f, Push(r, t)) = TreeOf(f, r)
         /\ \A l : PathTo(f, Push(r, t), l) = PathTo(f, r, l)
<1>1. Root(Push(r, t)) = Root(r) /\ \A p : Where(Push(r, t), p) = Where(r, p) BY BegunSame
<1>2. \A p : Page(f, Push(r, t), p) = Page(f, r, p) BY PagePushed DEF Begun
<1>3. Rt(f, Push(r, t)) = Rt(f, r) BY <1>1, <1>2 DEF Rt
<1>4. TreeOf(f, Push(r, t)) = TreeOf(f, r) BY <1>1, <1>3 DEF TreeOf
<1>5. \A l : PathTo(f, Push(r, t), l) = PathTo(f, r, l) BY <1>1, <1>3 DEF PathTo, Rt
<1> QED BY <1>3, <1>4, <1>5

\* The level of the last transaction in a stack, or of none.
LEMMA StackTop ==
  ASSUME NEW s \in Seq(TxnRec), NEW f, NEW g, Stack(f, s, g)
  PROVE  Level(f, s, g)
<1>1. CASE s = <<>>
  <2>1. Level(f, SubSeq(s, 1, 0), PgAt(s, g, 0)) BY <1>1 DEF Stack
  <2>2. SubSeq(s, 1, 0) = <<>> /\ PgAt(s, g, 0) = g BY <1>1 DEF PgAt
  <2> QED BY <1>1, <2>1, <2>2
<1>2. CASE s # <<>> BY <1>2, StackLast
<1> QED BY <1>1, <1>2

LEMMA BegunStack ==
  ASSUME NEW f, NEW r \in Seq(TxnRec), NEW t \in TxnRec, NEW g, Begun(r, t, g),
         Stack(f, r, g), ListsApart(r)
  PROVE  Stack(f, Push(r, t), g) /\ ListsApart(Push(r, t))
<1> DEFINE s == Push(r, t)
<1>1. /\ Root(s) = Root(r) /\ NextPg(s) = NextPg(r)
      /\ Listed(s) = Listed(r) /\ Gone(s) = Gone(r)
      /\ FreedApart(s) <=> FreedApart(r)
  BY BegunSame
<1>2. Rt(f, s) = Rt(f, r) /\ TreeOf(f, s) = TreeOf(f, r) BY BegunPages
<1>3. Level(f, r, g) BY StackTop
<1>4. RoomOK(s)
  <2>1. Visible(s) = Visible(r) BY BegunSame
  <2>2. Last(s) = t BY Pushed
  <2> QED BY <2>1, <2>2 DEF RoomOK, Begun
<1>5. Bottom(s, g) BY Pushed DEF Bottom
<1> HIDE DEF s
<1>6. TreeOK(f, s) BY <1>1, <1>2, <1>3 DEF Level, TreeOK
<1>7. PartOK(f, s, g) BY <1>1, <1>2, <1>3 DEF Level, PartOK
<1>8. ListOK(f, s) BY <1>1, <1>2, <1>3 DEF Level, ListOK
<1>9. AllocOK(s, g) BY <1>1, <1>3 DEF Level, AllocOK
<1>10. Level(f, s, g) BY <1>4, <1>5, <1>6, <1>7, <1>8, <1>9 DEF Level
<1>11. Stack(f, s, g)
  <2>1. Stack(f, r, t.saved) BY DEF Begun
  <2> QED BY <1>10, <2>1, StackPushed DEF s
<1>12. ListsApart(s)
  <2>1. t.spill = {} BY DEF Begun
  <2> QED BY <2>1, ApartPushed DEF s
<1> QED BY <1>11, <1>12 DEF s

LEMMA EmptyList == <<>> \in DirtyList /\ DOMAIN <<>> = {}
<1>1. DOMAIN <<>> = {} OBVIOUS
<1>2. <<>> \in [{} -> PageData] OBVIOUS
<1> QED BY <1>1, <1>2 DEF DirtyList

LEMMA BeginAdds ==
  ASSUME NInv, Begin
  PROVE  \E t \in TxnRec : Begun(txns, t, pg) /\ txns' = Push(txns, t)
<1>1. Inv(file, txns, pg, cursors) /\ MetaOK /\ txns = <<>> BY DEF NInv, Begin
<1>2. PICK r, g : r = txns /\ g = pg OBVIOUS
<1>3. r = <<>> /\ g = NoPages /\ g \in PgRec BY <1>1, <1>2 DEF Inv, Types
<1>4. PICK t : t = [root |-> meta.root, dirty |-> <<>>, spill |-> {}, free |-> {},
                    next |-> meta.next, room |-> UmMax, bad |-> FALSE, saved |-> NoPages]
  OBVIOUS
<1>5. t \in TxnRec
  <2>1. meta.root \in PageNo /\ meta.next \in Nat BY <1>1 DEF MetaOK
  <2>2. NoPages \in PgRec BY <1>3
  <2>3. UmMax \in Nat BY NestedAssumption DEF NestedAssumption
  <2>4. <<>> \in DirtyList BY EmptyList
  <2> HIDE DEF NoPages
  <2> QED BY <1>4, <2>1, <2>2, <2>3, <2>4 DEF TxnRec
<1>6. Begun(r, t, g)
  <2>1. Root(r) = meta.root /\ NextPg(r) = meta.next BY <1>3 DEF Root, NextPg
  <2>2. Visible(r) = {} BY <1>3 DEF Visible
  <2>3. Cardinality({}) = 0 BY FS_EmptySet
  <2>4. UmMax - 0 = UmMax BY NestedAssumption DEF NestedAssumption
  <2> QED BY <1>3, <1>4, <2>1, <2>2, <2>3, <2>4, EmptyList DEF Begun
<1>7. txns' = Push(txns, t)
  <2>1. txns' = <<t>> BY <1>4 DEF Begin
  <2>2. Append(<<>>, t) = <<t>> OBVIOUS
  <2> QED BY <1>1, <2>1, <2>2 DEF Push
<1> QED BY <1>2, <1>5, <1>6, <1>7

LEMMA BeginStep ==
  ASSUME NInv, Begin
  PROVE  NInv'
<1>1. Inv(file, txns, pg, cursors) /\ MetaOK /\ txns = <<>> /\ meta' = meta BY DEF NInv, Begin
<1>2. PICK f, g, c : f = file /\ g = pg /\ c = cursors OBVIOUS
<1>3. Inv(f, <<>>, g, c) BY <1>1, <1>2
<1>4. Types(f, <<>>, g, c) /\ Stack(f, <<>>, g) /\ ListsApart(<<>>) /\ g = NoPages /\ DOMAIN c = {}
  BY <1>3 DEF Inv
<1>5. PICK r \in Seq(TxnRec) : r = <<>>
  <2>1. <<>> \in Seq(TxnRec) BY <1>4 DEF Types
  <2> QED BY <2>1
<1>6. PICK t \in TxnRec : Begun(r, t, g) /\ txns' = Push(r, t) BY <1>1, <1>2, <1>5, BeginAdds
<1>7. Stack(f, Push(r, t), g) /\ ListsApart(Push(r, t)) BY <1>4, <1>5, <1>6, BegunStack
<1>8. Inv(f, Push(r, t), g, c)
  <2>1. Push(r, t) \in Seq(TxnRec) /\ Push(r, t) # <<>> BY Pushed
  <2>2. CursTop(f, Push(r, t), c) /\ CursLow(f, Front(Push(r, t)), c) BY <1>4 DEF CursTop, CursLow
  <2> QED BY <1>4, <1>7, <2>1, <2>2 DEF Inv, Types
<1>9. file' = f /\ pg' = g /\ cursors' = c BY <1>2 DEF Begin
<1> QED BY <1>1, <1>6, <1>8, <1>9, SameMeta

\* The cursors with a copy of their paths.
Copies(c) == [x \in DOMAIN c |-> [c[x] EXCEPT !.backup = Append(c[x].backup, c[x].path)]]

LEMMA CopiesTypes ==
  ASSUME NEW c \in CursorTable
  PROVE  /\ Copies(c) \in CursorTable /\ DOMAIN Copies(c) = DOMAIN c
         /\ \A x \in DOMAIN c :
              /\ Copies(c)[x].own = c[x].own /\ Copies(c)[x].leaf = c[x].leaf
              /\ Copies(c)[x].path = c[x].path
              /\ Copies(c)[x].backup = Append(c[x].backup, c[x].path)
              /\ c[x].backup \in Seq(PathRec) /\ c[x].path \in PathRec
<1>1. \A x \in DOMAIN c : c[x] \in CursorRec /\ DOMAIN c \subseteq Cursor BY CursorTypes
<1>2. ASSUME NEW x \in DOMAIN c
      PROVE  /\ Copies(c)[x] \in CursorRec
             /\ Copies(c)[x].own = c[x].own /\ Copies(c)[x].leaf = c[x].leaf
             /\ Copies(c)[x].path = c[x].path
             /\ Copies(c)[x].backup = Append(c[x].backup, c[x].path)
             /\ c[x].backup \in Seq(PathRec) /\ c[x].path \in PathRec
  <2>1. c[x].backup \in Seq(PathRec) /\ c[x].path \in PathRec BY <1>1 DEF CursorRec
  <2>a. Append(c[x].backup, c[x].path) \in Seq(PathRec) BY <2>1, AppendProperties
  <2>2. PICK b \in Seq(PathRec) : b = Append(c[x].backup, c[x].path) BY <2>a
  <2>3. Copies(c)[x] = [c[x] EXCEPT !.backup = b] BY <2>2 DEF Copies
  <2> QED BY <1>1, <2>1, <2>2, <2>3 DEF CursorRec
<1>3. DOMAIN Copies(c) = DOMAIN c BY DEF Copies
<1>4. Copies(c) \in [DOMAIN c -> CursorRec] BY <1>2 DEF Copies
<1>5. DOMAIN c \in SUBSET Cursor BY CursorTypes
<1>6. Copies(c) \in CursorTable BY <1>4, <1>5 DEF CursorTable
<1> QED BY <1>2, <1>3, <1>6

\* A nested transaction begins: the cursors of its parent follow it.
LEMMA CopiesLow ==
  ASSUME NEW f, NEW s \in Seq(TxnRec), s # <<>>, NEW c \in CursorTable,
         CursTop(f, s, c), CursLow(f, Front(s), c)
  PROVE  CursLow(f, s, Copies(c))
<1>1. PICK n : n = Len(s) OBVIOUS
<1>2. PICK r \in Seq(TxnRec) : r = Front(s) /\ Len(r) = n - 1 BY <1>1, Popped
<1>3. n \in Nat /\ n - 1 \in Nat /\ SubSeq(s, 1, n) = s /\ Len(r) + 1 = n
  <2>1. Len(r) \in Nat BY <1>2
  <2>2. n \in Nat /\ SubSeq(s, 1, n) = s BY <1>1
  <2> QED BY <1>2, <2>1, <2>2
<1>4. \A k \in 0 .. n - 1 : SubSeq(s, 1, k) = SubSeq(r, 1, k)
  <2>1. PICK t \in TxnRec : s = Push(r, t) BY <1>2, Popped
  <2>2. \A i \in 0 .. Len(r) : SubSeq(Push(r, t), 1, i) = SubSeq(r, 1, i) BY Pushed
  <2> QED BY <1>2, <2>1, <2>2
<1>5. PICK e : e = Copies(c) OBVIOUS
<1>6. DOMAIN e = DOMAIN c /\ \A x \in DOMAIN c : e[x].own = c[x].own /\ e[x].leaf = c[x].leaf
  BY <1>5, CopiesTypes
<1>7. SUFFICES ASSUME NEW x \in DOMAIN c
                PROVE  /\ c[x].own \in 1 .. n + 1
                       /\ Len(e[x].backup) = n + 1 - c[x].own
                       /\ \A k \in c[x].own .. n :
                            /\ c[x].leaf \in DOMAIN Rt(f, SubSeq(s, 1, k))
                            /\ e[x].backup[k - c[x].own + 1] = PathTo(f, SubSeq(s, 1, k), c[x].leaf)
  <2>1. CursLow(f, s, e)
    BY <1>1, <1>6, <1>7 DEF CursLow
  <2> QED BY <1>5, <2>1
<1>8. /\ c[x].own \in 1 .. n /\ Len(c[x].backup) = n - c[x].own
      /\ \A k \in c[x].own .. n - 1 :
           /\ c[x].leaf \in DOMAIN Rt(f, SubSeq(r, 1, k))
           /\ c[x].backup[k - c[x].own + 1] = PathTo(f, SubSeq(r, 1, k), c[x].leaf)
  <2>1. CursLow(f, r, c) BY <1>2
  <2>2. /\ c[x].own \in 1 .. Len(r) + 1 /\ Len(c[x].backup) = Len(r) + 1 - c[x].own
        /\ \A k \in c[x].own .. Len(r) :
             /\ c[x].leaf \in DOMAIN Rt(f, SubSeq(r, 1, k))
             /\ c[x].backup[k - c[x].own + 1] = PathTo(f, SubSeq(r, 1, k), c[x].leaf)
    BY <2>1 DEF CursLow
  <2>3. Len(r) = n - 1 /\ Len(r) + 1 = n BY <1>2, <1>3
  <2> QED BY <2>2, <2>3
<1>9. c[x].leaf \in DOMAIN Rt(f, s) /\ c[x].path = PathTo(f, s, c[x].leaf) BY DEF CursTop
<1>10. PICK b, q, d : b = c[x].backup /\ q = c[x].path /\ d = Append(b, q) OBVIOUS
<1>11. b \in Seq(PathRec) /\ q \in PathRec /\ e[x].backup = d BY <1>10, <1>5, CopiesTypes
<1>12. Len(d) = Len(b) + 1 /\ d[Len(b) + 1] = q /\ \A i \in 1 .. Len(b) : d[i] = b[i]
  BY <1>10, <1>11, AppendProperties
<1>13. PICK o : o = c[x].own OBVIOUS
<1>14. o \in Nat /\ o \in 1 .. n /\ Len(b) = n - o BY <1>3, <1>8, <1>10, <1>13
<1>15. ASSUME NEW k \in o .. n
       PROVE  /\ c[x].leaf \in DOMAIN Rt(f, SubSeq(s, 1, k))
              /\ d[k - o + 1] = PathTo(f, SubSeq(s, 1, k), c[x].leaf)
  <2>1. CASE k = n
    <3>1. k - o + 1 = Len(b) + 1 BY <1>3, <1>14, <2>1
    <3> QED BY <1>3, <1>9, <1>10, <1>12, <2>1, <3>1
  <2>2. CASE k # n
    <3>1. k \in o .. n - 1 /\ k \in 0 .. n - 1 /\ k - o + 1 \in 1 .. Len(b) BY <1>3, <1>14, <2>2
    <3>2. d[k - o + 1] = b[k - o + 1] BY <1>12, <3>1
    <3> QED BY <1>4, <1>8, <1>10, <1>13, <3>1, <3>2
  <2> QED BY <2>1, <2>2
<1>16. Len(d) = n + 1 - o BY <1>3, <1>12, <1>14
<1> QED BY <1>3, <1>11, <1>13, <1>14, <1>15, <1>16

LEMMA BeginNestedAdds ==
  ASSUME NInv, BeginNested
  PROVE  \E t \in TxnRec : Begun(txns, t, pg) /\ txns' = Push(txns, t)
<1>1. Inv(file, txns, pg, cursors) /\ txns # <<>> BY DEF NInv, BeginNested, Running
<1>2. PICK f, s, g : f = file /\ s = txns /\ g = pg OBVIOUS
<1>3. s # <<>> /\ s \in Seq(TxnRec) /\ g \in PgRec /\ Stack(f, s, g) BY <1>1, <1>2 DEF Inv, Types
<1>4. Last(s) \in TxnRec BY <1>3, Popped
<1>5. PICK t : t = [Last(s) EXCEPT !.dirty = <<>>, !.spill = {}, !.free = {}, !.saved = g] OBVIOUS
<1>6. t \in TxnRec /\ Begun(s, t, g)
  <2>1. PICK e : e = <<>> OBVIOUS
  <2>2. e \in DirtyList /\ DOMAIN e = {} BY <2>1, EmptyList
  <2>3. t = [Last(s) EXCEPT !.dirty = e, !.spill = {}, !.free = {}, !.saved = g] BY <1>5, <2>1
  <2>4. /\ t \in TxnRec /\ t.root = Last(s).root /\ t.next = Last(s).next /\ t.room = Last(s).room
        /\ t.saved = g /\ t.spill = {} /\ t.free = {} /\ t.dirty = e
    BY <1>3, <1>4, <2>2, <2>3 DEF TxnRec
  <2>5. Root(s) = Last(s).root /\ NextPg(s) = Last(s).next BY <1>3 DEF Root, NextPg
  <2>6. Last(s).room = UmMax - Cardinality(Visible(s))
    <3>1. Level(f, s, g) BY <1>3, StackTop
    <3> QED BY <1>3, <3>1 DEF Level, RoomOK
  <2> QED BY <2>2, <2>4, <2>5, <2>6 DEF Begun
<1>7. txns' = Push(txns, t) BY <1>2, <1>5 DEF BeginNested, Push
<1> QED BY <1>2, <1>6, <1>7

LEMMA BeginNestedStep ==
  ASSUME NInv, BeginNested
  PROVE  NInv'
<1>1. Inv(file, txns, pg, cursors) /\ MetaOK /\ txns # <<>> /\ meta' = meta
  BY DEF NInv, BeginNested, Running
<1>2. PICK f, s, g, c : f = file /\ s = txns /\ g = pg /\ c = cursors OBVIOUS
<1>3. Inv(f, s, g, c) /\ s # <<>> BY <1>1, <1>2
<1>4. /\ f \in [PageNo -> PageData] /\ s \in Seq(TxnRec) /\ g \in PgRec /\ c \in CursorTable
      /\ Stack(f, s, g) /\ ListsApart(s) /\ CursTop(f, s, c) /\ CursLow(f, Front(s), c)
  BY <1>3 DEF Inv, Types
<1>7. PICK t \in TxnRec : Begun(s, t, g) /\ txns' = Push(s, t) BY <1>2, BeginNestedAdds
<1>8. Stack(f, Push(s, t), g) /\ ListsApart(Push(s, t)) BY <1>4, <1>7, BegunStack
<1>9. PICK d : d = Copies(c) OBVIOUS
<1>10. d \in CursorTable BY <1>4, <1>9, CopiesTypes
<1>11. CursTop(f, Push(s, t), d)
  <2>1. Rt(f, Push(s, t)) = Rt(f, s) /\ \A l : PathTo(f, Push(s, t), l) = PathTo(f, s, l)
    BY <1>4, <1>7, BegunPages
  <2>2. /\ DOMAIN d = DOMAIN c
        /\ \A x \in DOMAIN c : d[x].leaf = c[x].leaf /\ d[x].path = c[x].path
    BY <1>4, <1>9, CopiesTypes
  <2> QED BY <1>4, <2>1, <2>2 DEF CursTop
<1>12. CursLow(f, s, d) BY <1>3, <1>4, <1>9, CopiesLow
<1>13. Inv(f, Push(s, t), g, d)
  <2>1. Push(s, t) \in Seq(TxnRec) /\ Push(s, t) # <<>> /\ Front(Push(s, t)) = s BY <1>4, <1>7, Pushed
  <2> QED BY <1>4, <1>8, <1>10, <1>11, <1>12, <2>1 DEF Inv, Types
<1>15. cursors' = d BY <1>2, <1>9 DEF BeginNested, Shadowed, Copies
<1>16. file' = f /\ pg' = g BY <1>2 DEF BeginNested
<1> QED BY <1>1, <1>7, <1>13, <1>15, <1>16, SameMeta

-----------------------------------------------------------------------------
(* Abort.                                                                   *)

\* The cursors as transaction k found them.
Back(c, k) ==
  [x \in {y \in DOMAIN c : c[y].own < k} |->
     [c[x] EXCEPT !.path = c[x].backup[k - c[x].own],
                  !.backup = SubSeq(c[x].backup, 1, k - 1 - c[x].own)]]

LEMMA BackParts ==
  ASSUME NEW f, NEW s \in Seq(TxnRec), s # <<>>, NEW c \in CursorTable, CursLow(f, Front(s), c),
         NEW k \in 1 .. Len(s), NEW x \in DOMAIN c, c[x].own < k
  PROVE  /\ c[x] \in CursorRec /\ c[x].own \in 1 .. k - 1 /\ c[x].leaf \in DOMAIN Rt(f, SubSeq(s, 1, k - 1))
         /\ c[x].backup[k - c[x].own] \in PathRec
         /\ c[x].backup[k - c[x].own] = PathTo(f, SubSeq(s, 1, k - 1), c[x].leaf)
         /\ SubSeq(c[x].backup, 1, k - 1 - c[x].own) \in Seq(PathRec)
         /\ Len(SubSeq(c[x].backup, 1, k - 1 - c[x].own)) = k - 1 - c[x].own
         /\ \A j \in c[x].own .. k - 2 :
              /\ c[x].leaf \in DOMAIN Rt(f, SubSeq(s, 1, j))
              /\ SubSeq(c[x].backup, 1, k - 1 - c[x].own)[j - c[x].own + 1] = PathTo(f, SubSeq(s, 1, j), c[x].leaf)
<1>1. PICK n : n = Len(s) OBVIOUS
<1>2. PICK r \in Seq(TxnRec) : r = Front(s) /\ Len(r) = n - 1 BY <1>1, Popped
<1>3. n \in Nat /\ n - 1 \in Nat /\ Len(r) + 1 = n /\ k \in 1 .. n
  <2>1. Len(r) \in Nat BY <1>2
  <2>2. n \in Nat BY <1>1
  <2> QED BY <1>1, <1>2, <2>1, <2>2
<1>4. \A i \in 0 .. n - 1 : SubSeq(s, 1, i) = SubSeq(r, 1, i)
  <2>1. PICK t \in TxnRec : s = Push(r, t) BY <1>2, Popped
  <2>2. \A i \in 0 .. Len(r) : SubSeq(Push(r, t), 1, i) = SubSeq(r, 1, i) BY Pushed
  <2> QED BY <1>2, <2>1, <2>2
<1>5. PICK o, b, l : o = c[x].own /\ b = c[x].backup /\ l = c[x].leaf OBVIOUS
<1>6. /\ o \in 1 .. n /\ Len(b) = n - o
      /\ \A j \in o .. n - 1 :
           /\ l \in DOMAIN Rt(f, SubSeq(r, 1, j))
           /\ b[j - o + 1] = PathTo(f, SubSeq(r, 1, j), l)
  BY <1>2, <1>3, <1>5 DEF CursLow
<1>7. c[x] \in CursorRec /\ b \in Seq(PathRec) BY <1>5, CursorTypes DEF CursorRec
<1>14. o \in Int /\ k \in Int /\ n \in Int /\ 1 <= o /\ o < k /\ k <= n /\ Len(b) = n - o
  <2>1. o < k BY <1>5
  <2>2. o \in 1 .. n /\ Len(b) = n - o BY <1>6
  <2> QED BY <1>3, <2>1, <2>2
<1>8. o \in Nat /\ o \in 1 .. k - 1 /\ k - 1 \in o .. n - 1 /\ k - o \in 1 .. Len(b) /\ k - 1 - o \in 0 .. Len(b)
  BY <1>14
<1>9. b[k - o] \in PathRec BY <1>7, <1>8
<1>10. l \in DOMAIN Rt(f, SubSeq(s, 1, k - 1)) /\ b[k - o] = PathTo(f, SubSeq(s, 1, k - 1), l)
  <2>1. k - 1 - o + 1 = k - o /\ k - 1 \in 0 .. n - 1 BY <1>3, <1>8
  <2> QED BY <1>4, <1>6, <1>8, <2>1
<1>11. PICK d : d = SubSeq(b, 1, k - 1 - o) OBVIOUS
<1>12. d \in Seq(PathRec) /\ Len(d) = k - 1 - o /\ \A i \in 1 .. k - 1 - o : d[i] = b[i]
  <2>1. PICK m : m = k - 1 - o OBVIOUS
  <2>2. m \in Nat /\ m <= Len(b) /\ 1 \in 1 .. Len(b) + 1 BY <1>14, <2>1
  <2>3. /\ SubSeq(b, 1, m) \in Seq(PathRec) /\ Len(SubSeq(b, 1, m)) = m
        /\ \A i \in 1 .. m : SubSeq(b, 1, m)[i] = b[i]
    BY <1>7, <2>2
  <2> QED BY <1>11, <2>1, <2>3
<1>13. ASSUME NEW j \in o .. k - 2
       PROVE  l \in DOMAIN Rt(f, SubSeq(s, 1, j)) /\ d[j - o + 1] = PathTo(f, SubSeq(s, 1, j), l)
  <2>1. j \in Int /\ o <= j /\ j <= k - 2 BY <1>14
  <2>2. j \in o .. n - 1 /\ j \in 0 .. n - 1 /\ j - o + 1 \in 1 .. k - 1 - o BY <1>14, <2>1
  <2> QED BY <1>4, <1>6, <1>12, <2>2
<1> QED BY <1>5, <1>7, <1>8, <1>9, <1>10, <1>11, <1>12, <1>13

\* A part of a stack from the bottom.
LEMMA Lower ==
  ASSUME NEW s \in Seq(TxnRec), NEW k \in 0 .. Len(s)
  PROVE  /\ SubSeq(s, 1, k) \in Seq(TxnRec) /\ Len(SubSeq(s, 1, k)) = k
         /\ DOMAIN SubSeq(s, 1, k) = 1 .. k
         /\ \A i \in 1 .. k : SubSeq(s, 1, k)[i] = s[i]
         /\ \A j \in 0 .. k : SubSeq(SubSeq(s, 1, k), 1, j) = SubSeq(s, 1, j)
         /\ k # 0 => SubSeq(s, 1, k) # <<>> /\ Front(SubSeq(s, 1, k)) = SubSeq(s, 1, k - 1)
<1>1. PICK a : a = SubSeq(s, 1, k) OBVIOUS
<1>2. Len(s) \in Nat /\ k \in Nat /\ k <= Len(s) OBVIOUS
<1>3. a \in Seq(TxnRec) /\ Len(a) = k /\ \A i \in 1 .. k : a[i] = s[i]
  <2>1. a \in Seq(TxnRec) /\ Len(a) = (IF 1 <= k THEN k - 1 + 1 ELSE 0)
        /\ \A i \in 1 .. k - 1 + 1 : a[i] = s[1 + i - 1]
    BY <1>1, <1>2, SubSeqProperties
  <2> QED BY <1>2, <2>1
<1>4. DOMAIN a = 1 .. k BY <1>3
<1>5. ASSUME NEW j \in 0 .. k PROVE SubSeq(a, 1, j) = SubSeq(s, 1, j)
  <2>1. /\ SubSeq(a, 1, j) = [i \in 1 .. j |-> a[1 + i - 1]]
        /\ SubSeq(s, 1, j) = [i \in 1 .. j |-> s[1 + i - 1]]
    BY <1>2, <1>3
  <2>2. \A i \in 1 .. j : i \in 1 .. k /\ 1 + i - 1 = i BY <1>2
  <2> QED BY <1>3, <2>1, <2>2
<1>6. k # 0 => a # <<>> /\ Front(a) = SubSeq(s, 1, k - 1)
  <2>1. SUFFICES ASSUME k # 0 PROVE a # <<>> /\ Front(a) = SubSeq(s, 1, k - 1) OBVIOUS
  <2>2. a # <<>> BY <1>3, <2>1
  <2>3. Front(a) = SubSeq(a, 1, k - 1) BY <1>3 DEF Front
  <2>4. k - 1 \in 0 .. k BY <1>2, <2>1
  <2> QED BY <1>5, <2>2, <2>3, <2>4
<1> QED BY <1>1, <1>3, <1>4, <1>5, <1>6

LEMMA AbortStack ==
  ASSUME NEW f, NEW s \in Seq(TxnRec), NEW g, Stack(f, s, g), NEW k \in 1 .. Len(s)
  PROVE  Stack(f, SubSeq(s, 1, k - 1), s[k].saved)
<1>1. PICK a : a = SubSeq(s, 1, k - 1) OBVIOUS
<1>2. Len(s) \in Nat /\ k - 1 \in 0 .. Len(s) /\ k \in Nat OBVIOUS
<1>3. /\ Len(a) = k - 1 /\ \A i \in 1 .. k - 1 : a[i] = s[i]
      /\ \A j \in 0 .. k - 1 : SubSeq(a, 1, j) = SubSeq(s, 1, j)
  BY <1>1, <1>2, Lower
<1>4. ASSUME NEW j \in 0 .. k - 1 PROVE Level(f, SubSeq(a, 1, j), PgAt(a, s[k].saved, j))
  <2>1. j # Len(s) /\ j \in 0 .. Len(s) BY <1>2
  <2>2. PgAt(s, g, j) = s[j + 1].saved BY <2>1 DEF PgAt
  <2>3. PgAt(a, s[k].saved, j) = s[j + 1].saved
    <3>1. CASE j = k - 1
      <4>1. j + 1 = k BY <1>2, <3>1
      <4> QED BY <1>3, <3>1, <4>1 DEF PgAt
    <3>2. CASE j # k - 1
      <4>1. j + 1 \in 1 .. k - 1 BY <1>2, <3>2
      <4> QED BY <1>3, <3>2, <4>1 DEF PgAt
    <3> QED BY <3>1, <3>2
  <2>4. Level(f, SubSeq(s, 1, j), PgAt(s, g, j)) BY <2>1 DEF Stack
  <2> QED BY <1>3, <2>2, <2>3, <2>4
<1> QED BY <1>1, <1>3, <1>4 DEF Stack

LEMMA AbortInv ==
  ASSUME NEW f, NEW s, NEW g, NEW c, Inv(f, s, g, c), NEW k \in DOMAIN s
  PROVE  Inv(f, SubSeq(s, 1, k - 1), s[k].saved, Back(c, k))
<1>1. /\ f \in [PageNo -> PageData] /\ s \in Seq(TxnRec) /\ c \in CursorTable
      /\ Stack(f, s, g) /\ ListsApart(s)
  BY DEF Inv, Types
<1>2. s # <<>> /\ k \in 1 .. Len(s) /\ k \in Nat /\ k - 1 \in 0 .. Len(s) BY <1>1
<1>3. CursLow(f, Front(s), c) BY <1>2 DEF Inv
<1>4. PICK a, h, d : a = SubSeq(s, 1, k - 1) /\ h = s[k].saved /\ d = Back(c, k) OBVIOUS
<1>5. Stack(f, a, h) BY <1>1, <1>2, <1>4, AbortStack
<1>6. a \in Seq(TxnRec) /\ Len(a) = k - 1 /\ DOMAIN a = 1 .. k - 1 /\ \A i \in 1 .. k - 1 : a[i] = s[i]
  BY <1>1, <1>2, <1>4, Lower
<1>7. h \in PgRec
  <2>1. s[k] \in TxnRec BY <1>1
  <2> QED BY <1>4, <2>1 DEF TxnRec
<1>8. ListsApart(a)
  <2>1. 1 .. k - 1 \subseteq DOMAIN s BY <1>1, <1>2
  <2> QED BY <1>1, <1>6, <2>1 DEF ListsApart
<1>9. DOMAIN d = {x \in DOMAIN c : c[x].own < k} BY <1>4 DEF Back
<1>10. ASSUME NEW x \in DOMAIN d
       PROVE  /\ d[x] \in CursorRec /\ d[x].own = c[x].own /\ d[x].own \in 1 .. k - 1
              /\ d[x].leaf = c[x].leaf /\ c[x].leaf \in DOMAIN Rt(f, a)
              /\ d[x].path = PathTo(f, a, c[x].leaf)
              /\ Len(d[x].backup) = k - 1 - c[x].own
              /\ \A j \in c[x].own .. k - 2 :
                   /\ c[x].leaf \in DOMAIN Rt(f, SubSeq(s, 1, j))
                   /\ d[x].backup[j - c[x].own + 1] = PathTo(f, SubSeq(s, 1, j), c[x].leaf)
  <2>1. x \in DOMAIN c /\ c[x].own < k BY <1>9
  <2>2. PICK q, b : q = c[x].backup[k - c[x].own] /\ b = SubSeq(c[x].backup, 1, k - 1 - c[x].own) OBVIOUS
  <2>3. d[x] = [c[x] EXCEPT !.path = q, !.backup = b] BY <1>4, <2>1, <2>2 DEF Back
  <2>4. /\ c[x] \in CursorRec /\ c[x].own \in 1 .. k - 1 /\ c[x].leaf \in DOMAIN Rt(f, SubSeq(s, 1, k - 1))
        /\ c[x].backup[k - c[x].own] \in PathRec
        /\ c[x].backup[k - c[x].own] = PathTo(f, SubSeq(s, 1, k - 1), c[x].leaf)
        /\ SubSeq(c[x].backup, 1, k - 1 - c[x].own) \in Seq(PathRec)
        /\ Len(SubSeq(c[x].backup, 1, k - 1 - c[x].own)) = k - 1 - c[x].own
        /\ \A j \in c[x].own .. k - 2 :
              /\ c[x].leaf \in DOMAIN Rt(f, SubSeq(s, 1, j))
              /\ SubSeq(c[x].backup, 1, k - 1 - c[x].own)[j - c[x].own + 1] = PathTo(f, SubSeq(s, 1, j), c[x].leaf)
    BY <1>1, <1>2, <1>3, <2>1, BackParts
  <2>5. q \in PathRec /\ b \in Seq(PathRec) BY <2>2, <2>4
  <2>6. /\ d[x] \in CursorRec /\ d[x].own = c[x].own /\ d[x].leaf = c[x].leaf
        /\ d[x].path = q /\ d[x].backup = b
    BY <2>3, <2>4, <2>5 DEF CursorRec
  <2> QED BY <1>4, <2>2, <2>4, <2>6
<1>11. d \in CursorTable
  <2>1. d \in [DOMAIN d -> CursorRec]
    <3>1. d = [x \in DOMAIN d |-> d[x]] BY <1>4, <1>9 DEF Back
    <3> QED BY <1>10, <3>1
  <2>2. DOMAIN d \in SUBSET Cursor
    <3>1. DOMAIN c \subseteq Cursor BY <1>1, CursorTypes
    <3> QED BY <1>9, <3>1
  <2> QED BY <2>1, <2>2 DEF CursorTable
<1>12. a = <<>> => h = NoPages /\ DOMAIN d = {}
  <2>1. SUFFICES ASSUME a = <<>> PROVE h = NoPages /\ DOMAIN d = {} OBVIOUS
  <2>2. Level(f, a, h) BY <1>5, <1>6, StackTop
  <2>3. h = NoPages BY <2>1, <2>2 DEF Level, Bottom
  <2>4. k - 1 = 0 BY <1>6, <2>1
  <2>5. 1 .. k - 1 = {} BY <2>4
  <2> QED BY <1>10, <2>3, <2>5
<1>13. a # <<>> => CursTop(f, a, d) /\ CursLow(f, Front(a), d)
  <2>1. SUFFICES ASSUME a # <<>> PROVE CursTop(f, a, d) /\ CursLow(f, Front(a), d) OBVIOUS
  <2>2. CursTop(f, a, d) BY <1>10 DEF CursTop
  <2>3. k - 1 # 0 BY <1>6, <2>1
  <2>4. PICK b : b = Front(a) OBVIOUS
  <2>5. b = SubSeq(s, 1, k - 2)
    <3>1. k - 1 - 1 = k - 2 BY <1>2
    <3> QED BY <1>1, <1>2, <1>4, <2>3, <2>4, <3>1, Lower
  <2>6. Len(b) = k - 2 /\ Len(b) + 1 = k - 1 /\ \A j \in 0 .. k - 2 : SubSeq(b, 1, j) = SubSeq(s, 1, j)
    <3>1. k - 2 \in 0 .. Len(s) /\ k - 2 + 1 = k - 1 BY <1>2, <2>3
    <3> QED BY <1>1, <2>5, <3>1, Lower
  <2>7. ASSUME NEW x \in DOMAIN d
        PROVE  /\ d[x].own \in 1 .. Len(b) + 1
               /\ Len(d[x].backup) = Len(b) + 1 - d[x].own
               /\ \A j \in d[x].own .. Len(b) :
                    /\ d[x].leaf \in DOMAIN Rt(f, SubSeq(b, 1, j))
                    /\ d[x].backup[j - d[x].own + 1] = PathTo(f, SubSeq(b, 1, j), d[x].leaf)
    <3>1. \A j \in d[x].own .. k - 2 : SubSeq(b, 1, j) = SubSeq(s, 1, j)
      <4>1. d[x].own \in 1 .. k - 1 BY <1>10
      <4>2. \A j \in d[x].own .. k - 2 : j \in 0 .. k - 2 BY <1>2, <4>1
      <4> QED BY <2>6, <4>2
    <3>2. d[x].own \in 1 .. Len(b) + 1 BY <1>10, <2>6
    <3>3. Len(d[x].backup) = Len(b) + 1 - d[x].own BY <1>10, <2>6
    <3>4. ASSUME NEW j \in d[x].own .. Len(b)
          PROVE  /\ d[x].leaf \in DOMAIN Rt(f, SubSeq(b, 1, j))
                 /\ d[x].backup[j - d[x].own + 1] = PathTo(f, SubSeq(b, 1, j), d[x].leaf)
      <4>1. d[x].own = c[x].own /\ d[x].leaf = c[x].leaf BY <1>10
      <4>2. j \in c[x].own .. k - 2 BY <2>6, <4>1
      <4>3. /\ c[x].leaf \in DOMAIN Rt(f, SubSeq(s, 1, j))
            /\ d[x].backup[j - c[x].own + 1] = PathTo(f, SubSeq(s, 1, j), c[x].leaf)
        BY <1>10, <4>2
      <4>4. SubSeq(b, 1, j) = SubSeq(s, 1, j) BY <3>1, <4>1, <4>2
      <4> QED BY <4>1, <4>3, <4>4
    <3> QED BY <3>2, <3>3, <3>4
  <2> QED BY <2>2, <2>4, <2>7 DEF CursLow
<1> QED BY <1>1, <1>4, <1>5, <1>6, <1>7, <1>8, <1>11, <1>12, <1>13 DEF Inv, Types

\* What mdb_txn_abort does to a state.
LEMMA Aborted ==
  ASSUME NInv, NEW k, k \in DOMAIN txns, AbortTxn(k)
  PROVE  /\ Inv(file, SubSeq(txns, 1, k - 1), pg', cursors') /\ MetaOK
         /\ file' = file /\ meta' = meta
<1>1. Inv(file, SubSeq(txns, 1, k - 1), txns[k].saved, Back(cursors, k)) BY AbortInv DEF NInv
<1>2. pg' = txns[k].saved BY DEF AbortTxn, SavedState
<1>3. cursors' = Back(cursors, k) BY DEF AbortTxn, Reverted, Older, Back
<1> QED BY <1>1, <1>2, <1>3 DEF AbortTxn, NInv

LEMMA AbortStep ==
  ASSUME NInv, NEW k, Abort(k)
  PROVE  NInv'
<1>1. k \in DOMAIN txns /\ AbortTxn(k) /\ txns' = SubSeq(txns, 1, k - 1) BY DEF Abort
<1>2. PICK f, s, g, c : f = file /\ s = SubSeq(txns, 1, k - 1) /\ g = pg' /\ c = cursors' OBVIOUS
<1>3. Inv(f, s, g, c) /\ MetaOK /\ file' = f /\ meta' = meta BY <1>1, <1>2, Aborted
<1> QED BY <1>1, <1>2, <1>3, SameMeta

\* A transaction that gets MDB_TXN_ERROR.
LEMMA FlagSet ==
  ASSUME NEW s \in Seq(TxnRec), s # <<>>
  PROVE  \E r \in Seq(TxnRec) : \E t, u \in TxnRec :
            /\ s = Push(r, t) /\ Front(s) = r /\ [s EXCEPT ![Len(s)].bad = TRUE] = Push(r, u)
            /\ u.root = t.root /\ u.next = t.next /\ u.free = t.free /\ u.saved = t.saved
            /\ u.dirty = t.dirty /\ u.spill = t.spill /\ u.room = t.room
<1>1. PICK r \in Seq(TxnRec), t \in TxnRec : s = Push(r, t) /\ Front(s) = r BY Popped
<1>2. PICK u \in TxnRec : u = [t EXCEPT !.bad = TRUE]
  <2>1. [t EXCEPT !.bad = TRUE] \in TxnRec BY DEF TxnRec
  <2> QED BY <2>1
<1>3. /\ u.root = t.root /\ u.next = t.next /\ u.free = t.free /\ u.saved = t.saved
      /\ u.dirty = t.dirty /\ u.spill = t.spill /\ u.room = t.room
  BY <1>2 DEF TxnRec
<1>4. [s EXCEPT ![Len(s)].bad = TRUE] = Push(r, u)
  <2>1. s[Len(s)] = t
    <3>1. Len(Push(r, t)) = Len(r) + 1 /\ Push(r, t)[Len(r) + 1] = t BY Pushed
    <3> QED BY <1>1, <3>1
  <2>2. [s EXCEPT ![Len(s)].bad = TRUE] = [s EXCEPT ![Len(s)] = [s[Len(s)] EXCEPT !.bad = TRUE]] OBVIOUS
  <2>3. [Push(r, t) EXCEPT ![Len(Push(r, t))] = u] = Push(r, u) BY SetLast
  <2> QED BY <1>1, <1>2, <2>1, <2>2, <2>3
<1> QED BY <1>1, <1>3, <1>4

LEMMA Flagged ==
  ASSUME NEW f, NEW s, s # <<>>, NEW g, NEW c, Inv(f, s, g, c)
  PROVE  Inv(f, [s EXCEPT ![Len(s)].bad = TRUE], g, c)
<1>1. /\ f \in [PageNo -> PageData] /\ s \in Seq(TxnRec) /\ g \in PgRec /\ c \in CursorTable
      /\ Stack(f, s, g) /\ ListsApart(s) /\ CursTop(f, s, c) /\ CursLow(f, Front(s), c)
  BY DEF Inv, Types
<1>2. PICK r \in Seq(TxnRec), t \in TxnRec, u \in TxnRec :
         /\ s = Push(r, t) /\ Front(s) = r /\ [s EXCEPT ![Len(s)].bad = TRUE] = Push(r, u)
         /\ u.root = t.root /\ u.next = t.next /\ u.free = t.free /\ u.saved = t.saved
         /\ u.dirty = t.dirty /\ u.spill = t.spill /\ u.room = t.room
  BY <1>1, FlagSet
<1>4. /\ u.root = t.root /\ u.next = t.next /\ u.free = t.free /\ u.saved = t.saved
      /\ u.dirty = t.dirty /\ u.spill = t.spill /\ u.room = t.room
  BY <1>2
<1>5. [s EXCEPT ![Len(s)].bad = TRUE] = Push(r, u) BY <1>2
<1> DEFINE v == Push(r, u)
<1>6. \A p : Where(v, p) = Where(s, p) BY <1>2, <1>4, WherePushed
<1>7. \A p : Page(f, v, p) = Page(f, s, p) BY <1>2, <1>4, PagePushed
<1>8. Root(v) = Root(s)
  <2>1. Root(Push(r, t)) = t.root BY Parts
  <2>2. Root(v) = u.root BY Parts
  <2> QED BY <1>2, <1>4, <2>1, <2>2
<1>9. Rt(f, v) = Rt(f, s) BY <1>7, <1>8 DEF Rt
<1>10. \A l : PathTo(f, v, l) = PathTo(f, s, l) BY <1>6, <1>8, <1>9 DEF PathTo, Rt
<1>11. Lists(u) = Lists(t) BY <1>4 DEF Lists
<1>12. Listed(v) = Listed(Push(r, t))
  <2>1. Listed(Push(r, t)) = Listed(r) \cup Lists(t) BY Parts
  <2>2. Listed(v) = Listed(r) \cup Lists(u) BY Parts
  <2> QED BY <1>11, <2>1, <2>2
<1>13. Level(f, Push(r, t), g) /\ Stack(f, r, t.saved) BY <1>1, <1>2, StackPushed
<1>14. u.room = UmMax - Cardinality(Visible(v))
  <2>1. Visible(Push(r, t)) = (Visible(r) \cup DOMAIN t.dirty) \ t.spill BY SeenPushed
  <2>2. Visible(v) = (Visible(r) \cup DOMAIN u.dirty) \ u.spill BY SeenPushed
  <2>3. Last(Push(r, t)) = t /\ Push(r, t) # <<>> BY Pushed
  <2> QED BY <1>4, <1>13, <2>1, <2>2, <2>3 DEF Level, RoomOK
<1> HIDE DEF v
<1>15. Level(f, v, g)
  <2>1. Rt(f, v) = Rt(f, Push(r, t)) BY <1>2, <1>9
  <2> QED BY <1>4, <1>12, <1>13, <1>14, <2>1, SameTree DEF v
<1>16. Stack(f, v, g) BY <1>4, <1>13, <1>15, StackPushed DEF v
<1>17. ListsApart(v)
  <2>1. ListsApart(Push(r, t)) BY <1>1, <1>2
  <2> QED BY <1>4, <2>1, ApartPushed DEF v
<1>18. CursTop(f, v, c) BY <1>1, <1>9, <1>10 DEF CursTop
<1>19. v \in Seq(TxnRec) /\ v # <<>> /\ Front(v) = r BY Pushed DEF v
<1> QED BY <1>1, <1>2, <1>5, <1>16, <1>17, <1>18, <1>19 DEF Inv, Types, v

LEMMA CommitFailsStep ==
  ASSUME NInv, NEW k, CommitFails(k)
  PROVE  NInv'
<1>1. /\ k \in DOMAIN txns /\ AbortTxn(k)
      /\ \/ txns' = SubSeq(txns, 1, k - 1)
         \/ k > 1 /\ txns' = [SubSeq(txns, 1, k - 1) EXCEPT ![k - 1].bad = TRUE]
  BY DEF CommitFails
<1>2. PICK f, s, g, c : f = file /\ s = SubSeq(txns, 1, k - 1) /\ g = pg' /\ c = cursors' OBVIOUS
<1>3. Inv(f, s, g, c) /\ MetaOK /\ file' = f /\ meta' = meta BY <1>1, <1>2, Aborted
<1>4. CASE txns' = SubSeq(txns, 1, k - 1) BY <1>2, <1>3, <1>4, SameMeta
<1>5. CASE k > 1 /\ txns' = [SubSeq(txns, 1, k - 1) EXCEPT ![k - 1].bad = TRUE]
  <2>1. txns \in Seq(TxnRec) BY DEF NInv, Inv, Types
  <2>2. k \in 1 .. Len(txns) /\ k - 1 \in 0 .. Len(txns) /\ k - 1 # 0 BY <1>1, <1>5, <2>1
  <2>3. s # <<>> /\ Len(s) = k - 1 BY <1>2, <2>1, <2>2, Lower
  <2>4. PICK v : v = [s EXCEPT ![Len(s)].bad = TRUE] OBVIOUS
  <2>5. Inv(f, v, g, c) BY <1>3, <2>3, <2>4, Flagged
  <2>6. txns' = v BY <1>2, <1>5, <2>3, <2>4
  <2> QED BY <1>2, <1>3, <2>5, <2>6, SameMeta
<1> QED BY <1>1, <1>4, <1>5

-----------------------------------------------------------------------------
(* Commit.                                                                  *)

\* No transaction, and the file as it was.
LEMMA Ended ==
  ASSUME NEW f, NEW s, NEW g, NEW c, Inv(f, s, g, c)
  PROVE  Inv(f, <<>>, NoPages, <<>>)
<1>1. f \in [PageNo -> PageData] /\ s \in Seq(TxnRec) /\ Stack(f, s, g) BY DEF Inv, Types
<1>2. Level(f, <<>>, NoPages) BY <1>1, StackEmpty
<1>3. NoPages \in PgRec BY DEF NoPages, PgRec
<1>4. DOMAIN <<>> = {} /\ <<>> \in CursorTable
  <2>1. DOMAIN <<>> = {} OBVIOUS
  <2>2. <<>> \in [{} -> CursorRec] OBVIOUS
  <2> QED BY <2>1, <2>2 DEF CursorTable
<1>5. PICK e \in Seq(TxnRec) : e = <<>>
  <2>1. <<>> \in Seq(TxnRec) OBVIOUS
  <2> QED BY <2>1
<1>6. Stack(f, e, NoPages)
  <2>1. Len(e) = 0 BY <1>5
  <2>2. ASSUME NEW k \in 0 .. 0 PROVE Level(f, SubSeq(e, 1, k), PgAt(e, NoPages, k))
    <3>1. k = 0 OBVIOUS
    <3>2. SubSeq(e, 1, 0) = <<>> BY <1>5
    <3>3. PgAt(e, NoPages, 0) = NoPages BY <2>1 DEF PgAt
    <3> QED BY <1>2, <3>1, <3>2, <3>3
  <2> QED BY <2>1, <2>2 DEF Stack
<1>7. ListsApart(e)
  <2>1. DOMAIN e = {} BY <1>4, <1>5
  <2> QED BY <2>1 DEF ListsApart
<1> HIDE DEF NoPages
<1> QED BY <1>1, <1>3, <1>4, <1>5, <1>6, <1>7 DEF Inv, Types

LEMMA MergeAbortsStep ==
  ASSUME NInv, MergeAborts
  PROVE  NInv'
<1>1. PICK f, g, e : f = file /\ g = NoPages /\ e = <<>> OBVIOUS
<1>2. Inv(f, e, g, e) BY <1>1, Ended DEF NInv
<1>3. file' = f /\ txns' = e /\ pg' = g /\ cursors' = e /\ meta' = meta BY <1>1 DEF MergeAborts
<1>4. MetaOK BY DEF NInv
<1> QED BY <1>2, <1>3, <1>4, SameMeta

\* Transaction q is what its child t leaves of p.
Joined(p, t, q) ==
  /\ p \in TxnRec /\ t \in TxnRec /\ q \in TxnRec
  /\ q.root = t.root /\ q.next = t.next /\ q.room = t.room /\ q.saved = p.saved
  /\ q.free = p.free \cup t.free /\ q.spill = (p.spill \ DOMAIN t.dirty) \cup t.spill
  /\ DOMAIN q.dirty = DOMAIN p.dirty \cup DOMAIN t.dirty
  /\ \A x \in DOMAIN t.dirty : q.dirty[x] = t.dirty[x]
  /\ \A x \in DOMAIN p.dirty \ DOMAIN t.dirty : q.dirty[x] = p.dirty[x]
  /\ p.spill \cap DOMAIN p.dirty = {} /\ t.spill \cap DOMAIN t.dirty = {}
  /\ p.spill \cap t.spill = {} /\ DOMAIN p.dirty \cap t.spill = {}

\* Where the memory of a page is when the child n has handed over its list.
Handed(n, t, mem) ==
  IF mem[1] = n THEN Dirty(n - 1, mem[2])
  ELSE IF mem[1] = n - 1 /\ mem[2] \in DOMAIN t.dirty THEN Freed(mem[2])
  ELSE mem

LEMMA JoinedPlaces ==
  ASSUME NEW r \in Seq(TxnRec), NEW p, NEW t, NEW q, Joined(p, t, q)
  PROVE  \A x : Where(Push(r, q), x) = Handed(Len(r) + 2, t, Where(Push(Push(r, p), t), x))
<1> USE DEF Joined
<1> TAKE x
<1>1. Push(r, p) \in Seq(TxnRec) /\ Len(Push(r, p)) = Len(r) + 1 /\ Len(r) \in Nat BY Pushed
<1>2. PICK n : n = Len(r) + 2 OBVIOUS
<1>3. n \in Nat /\ n - 1 = Len(r) + 1 /\ n > 1 BY <1>1, <1>2
<1>4. PICK a : a = Where(r, x) OBVIOUS
<1>5. Where(Push(Push(r, p), t), x)
        = IF x \in t.spill THEN InMap(x)
          ELSE IF x \in DOMAIN t.dirty THEN Dirty(n, x)
          ELSE IF x \in p.spill THEN InMap(x)
          ELSE IF x \in DOMAIN p.dirty THEN Dirty(n - 1, x) ELSE a
  <2>1. Where(Push(r, p), x) = IF x \in p.spill THEN InMap(x)
                               ELSE IF x \in DOMAIN p.dirty THEN Dirty(Len(r) + 1, x) ELSE a
    BY <1>4, WherePushed
  <2>2. PICK m : m = Push(r, p) OBVIOUS
  <2>3. Where(Push(m, t), x) = IF x \in t.spill THEN InMap(x)
                               ELSE IF x \in DOMAIN t.dirty THEN Dirty(Len(m) + 1, x) ELSE Where(m, x)
    BY <1>1, <2>2, WherePushed
  <2>4. Len(m) + 1 = n BY <1>1, <1>2, <2>2
  <2> QED BY <1>3, <2>1, <2>2, <2>3, <2>4
<1>6. Where(Push(r, q), x)
        = IF x \in q.spill THEN InMap(x) ELSE IF x \in DOMAIN q.dirty THEN Dirty(n - 1, x) ELSE a
  BY <1>3, <1>4, WherePushed
<1>7. Handed(n, t, InMap(x)) = InMap(x) BY <1>3 DEF Handed, InMap
<1>8. Handed(n, t, Dirty(n, x)) = Dirty(n - 1, x) BY DEF Handed, Dirty
<1>9. x \notin DOMAIN t.dirty => Handed(n, t, Dirty(n - 1, x)) = Dirty(n - 1, x)
  BY <1>3 DEF Handed, Dirty
<1>10. Handed(n, t, a) = a
  <2>1. CASE a = InMap(x) BY <1>7, <2>1
  <2>2. CASE a # InMap(x)
    <3>1. PICK k \in 1 .. Len(r) : a = Dirty(k, x) BY <1>4, <2>2, WhereType
    <3>2. a[1] # n /\ a[1] # n - 1 BY <1>1, <1>3, <3>1 DEF Dirty
    <3> QED BY <3>2 DEF Handed
  <2> QED BY <2>1, <2>2
<1> QED BY <1>2, <1>5, <1>6, <1>7, <1>8, <1>9, <1>10

LEMMA JoinedPages ==
  ASSUME NEW f, NEW r \in Seq(TxnRec), NEW p, NEW t, NEW q, Joined(p, t, q)
  PROVE  \A x : Page(f, Push(r, q), x) = Page(f, Push(Push(r, p), t), x)
<1> USE DEF Joined
<1> TAKE x
<1>1. PICK m \in Seq(TxnRec) : m = Push(r, p) BY Pushed
<1>2. Page(f, m, x) = IF x \in p.spill THEN f[x]
                      ELSE IF x \in DOMAIN p.dirty THEN p.dirty[x] ELSE Page(f, r, x)
  BY <1>1, PagePushed
<1>3. Page(f, Push(m, t), x) = IF x \in t.spill THEN f[x]
                               ELSE IF x \in DOMAIN t.dirty THEN t.dirty[x] ELSE Page(f, m, x)
  BY PagePushed
<1>4. Page(f, Push(r, q), x) = IF x \in q.spill THEN f[x]
                               ELSE IF x \in DOMAIN q.dirty THEN q.dirty[x] ELSE Page(f, r, x)
  BY PagePushed
<1> QED BY <1>1, <1>2, <1>3, <1>4

LEMMA JoinedLists ==
  ASSUME NEW r \in Seq(TxnRec), NEW p, NEW t, NEW q, Joined(p, t, q), NEW s, s = Push(Push(r, p), t)
  PROVE  /\ Root(Push(r, q)) = Root(s) /\ NextPg(Push(r, q)) = NextPg(s)
         /\ Listed(Push(r, q)) = Listed(s) /\ Gone(Push(r, q)) = Gone(s)
         /\ FreedApart(s) => FreedApart(Push(r, q))
         /\ Visible(Push(r, q)) = Visible(s)
<1> USE DEF Joined
<1>1. PICK m \in Seq(TxnRec) : m = Push(r, p) BY Pushed
<1>2. /\ Listed(m) = Listed(r) \cup Lists(p) /\ Gone(m) = Gone(r) \cup p.free
      /\ FreedApart(m) <=> FreedApart(r) /\ p.free \cap Gone(r) = {}
      /\ Visible(m) = (Visible(r) \cup DOMAIN p.dirty) \ p.spill
  <2>1. /\ Listed(Push(r, p)) = Listed(r) \cup Lists(p) /\ Gone(Push(r, p)) = Gone(r) \cup p.free
        /\ FreedApart(Push(r, p)) <=> FreedApart(r) /\ p.free \cap Gone(r) = {}
    BY Parts
  <2>2. Visible(Push(r, p)) = (Visible(r) \cup DOMAIN p.dirty) \ p.spill BY SeenPushed
  <2> QED BY <1>1, <2>1, <2>2
<1>3. /\ Root(s) = t.root /\ NextPg(s) = t.next
      /\ Listed(s) = Listed(m) \cup Lists(t) /\ Gone(s) = Gone(m) \cup t.free
      /\ FreedApart(s) <=> FreedApart(m) /\ t.free \cap Gone(m) = {}
      /\ Visible(s) = (Visible(m) \cup DOMAIN t.dirty) \ t.spill
  <2>1. /\ Root(Push(m, t)) = t.root /\ NextPg(Push(m, t)) = t.next
        /\ Listed(Push(m, t)) = Listed(m) \cup Lists(t) /\ Gone(Push(m, t)) = Gone(m) \cup t.free
        /\ FreedApart(Push(m, t)) <=> FreedApart(m) /\ t.free \cap Gone(m) = {}
    BY Parts
  <2>2. Visible(Push(m, t)) = (Visible(m) \cup DOMAIN t.dirty) \ t.spill BY SeenPushed
  <2> QED BY <1>1, <2>1, <2>2
<1>4. /\ Root(Push(r, q)) = q.root /\ NextPg(Push(r, q)) = q.next
      /\ Listed(Push(r, q)) = Listed(r) \cup Lists(q) /\ Gone(Push(r, q)) = Gone(r) \cup q.free
      /\ FreedApart(Push(r, q)) <=> FreedApart(r) /\ q.free \cap Gone(r) = {}
  BY Parts
<1>5. Visible(Push(r, q)) = (Visible(r) \cup DOMAIN q.dirty) \ q.spill BY SeenPushed
<1>6. Visible(Push(r, q)) = Visible(s) BY <1>2, <1>3, <1>5
<1>7. Lists(q) = Lists(p) \cup Lists(t) BY DEF Lists
<1>8. Listed(Push(r, q)) = Listed(s) BY <1>2, <1>3, <1>4, <1>7
<1>9. Gone(Push(r, q)) = Gone(s) BY <1>2, <1>3, <1>4
<1>10. FreedApart(s) => FreedApart(Push(r, q)) BY <1>2, <1>3, <1>4
<1> QED BY <1>3, <1>4, <1>6, <1>8, <1>9, <1>10

\* A commit of a nested transaction merges two transactions into one.  That the
\* parent has no old copy of a page its child has spilled is the assertion of the
\* code for a child of the top-level transaction, and the bound for a deeper one.
LEMMA NoOldCopy ==
  ASSUME NInv, FewStaleCopies, ListsFit,
         NEW r \in Seq(TxnRec), NEW p \in TxnRec, NEW t \in TxnRec, txns = Push(Push(r, p), t)
  PROVE  DOMAIN p.dirty \cap t.spill = {}
<1>1. PICK m \in Seq(TxnRec) : m = Push(r, p) /\ Len(m) = Len(r) + 1 /\ m[Len(r) + 1] = p
  BY Pushed
<1>2. PICK n \in Nat : n = Len(r) + 2 /\ n >= 2 OBVIOUS
<1>3. PICK s : s = txns OBVIOUS
<1>4. /\ s \in Seq(TxnRec) /\ Len(s) = n /\ Last(s) = t /\ s # <<>> /\ s[n] = t /\ s[n - 1] = p
      /\ DOMAIN s = 1 .. n
  <2>1. /\ Push(m, t) \in Seq(TxnRec) /\ Len(Push(m, t)) = Len(m) + 1 /\ Last(Push(m, t)) = t
        /\ Push(m, t) # <<>> /\ Push(m, t)[Len(m) + 1] = t
        /\ DOMAIN Push(m, t) = 1 .. Len(m) + 1
        /\ \A k \in 1 .. Len(m) : Push(m, t)[k] = m[k]
    BY Pushed
  <2>2. Len(m) + 1 = n /\ Len(m) = n - 1 /\ n - 1 \in 1 .. Len(m) /\ n - 1 = Len(r) + 1 BY <1>1, <1>2
  <2> QED BY <1>1, <1>3, <2>1, <2>2
<1>5. CASE n > 2
  <2>1. n - 1 \in DOMAIN s /\ n \in n - 1 .. n BY <1>2, <1>4
  <2>2. Here = n BY <1>3, <1>4 DEF Here
  <2> QED BY <1>3, <1>4, <1>5, <2>1, <2>2 DEF FewStaleCopies
<1>6. CASE n = 2
  <2>1. Len(r) = 0 /\ r = <<>> BY <1>2, <1>6
  <2>2. Visible(r) = {} BY <2>1 DEF Visible
  <2>3. Visible(Push(r, p)) = (Visible(r) \cup DOMAIN p.dirty) \ p.spill BY SeenPushed
  <2>4. Visible(Push(m, t)) = (Visible(m) \cup DOMAIN t.dirty) \ t.spill BY SeenPushed
  <2>5. PICK U : U = DOMAIN p.dirty \cup DOMAIN t.dirty OBVIOUS
  <2>6. IsFiniteSet(U) BY <2>5, ListTypes, FS_Union
  <2>7. Visible(s) = U \ ((p.spill \ DOMAIN t.dirty) \cup t.spill)
    BY <1>1, <1>3, <2>2, <2>3, <2>4, <2>5
  <2>8. Level(file, s, pg)
    <3>1. Inv(file, s, pg, cursors) BY <1>3 DEF NInv
    <3>2. Stack(file, s, pg) BY <3>1 DEF Inv
    <3> QED BY <1>4, <3>2, StackTop
  <2>9. t.room = UmMax - Cardinality(Visible(s)) BY <1>4, <2>8 DEF Level, RoomOK
  <2>10. Cardinality(Visible(s)) = Cardinality(U)
    <3>1. Here = 2 BY <1>3, <1>4, <1>6 DEF Here
    <3>2. Parent = p /\ Child = t
      <4>1. n - 1 = 1 /\ Here - 1 = 1 BY <1>6, <3>1
      <4> QED BY <1>3, <1>4, <4>1 DEF Parent, Child
    <3>3. UmMax - t.room = Cardinality(U) BY <2>5, <3>1, <3>2 DEF ListsFit, Length
    <3>4. UmMax \in Nat BY NestedAssumption DEF NestedAssumption
    <3>5. Cardinality(Visible(s)) \in Nat BY <1>4, Seen
    <3> QED BY <2>9, <3>3, <3>4, <3>5
  <2>11. Visible(s) = U
    <3>1. Visible(s) \in SUBSET U BY <2>7
    <3> QED BY <2>6, <2>10, <3>1, FS_Subset
  <2> QED BY <2>5, <2>7, <2>11
<1> QED BY <1>2, <1>5, <1>6

LEMMA Merged ==
  ASSUME NInv, FewStaleCopies, CommitNested
  PROVE  \E r \in Seq(TxnRec) : \E p, t, q :
            txns = Push(Push(r, p), t) /\ txns' = Push(r, q) /\ Joined(p, t, q)
<1>1. PICK s : s = txns OBVIOUS
<1>2. Inv(file, s, pg, cursors) BY <1>1 DEF NInv
<1>3. s \in Seq(TxnRec) /\ ListsApart(s) BY <1>2 DEF Inv, Types
<1>4. Len(s) > 1 /\ ListsFit BY <1>1 DEF CommitNested, Here
<1>5. s # <<>>
  <2>1. Len(<<>>) = 0 OBVIOUS
  <2> QED BY <1>4, <2>1
<1>6. PICK m \in Seq(TxnRec), t \in TxnRec : s = Push(m, t) /\ Last(s) = t /\ Len(m) = Len(s) - 1
  BY <1>3, <1>5, Popped
<1>7. m # <<>>
  <2>1. Len(<<>>) = 0 OBVIOUS
  <2> QED BY <1>3, <1>4, <1>6, <2>1
<1>8. PICK r \in Seq(TxnRec), p \in TxnRec : m = Push(r, p) /\ Len(r) = Len(m) - 1 BY <1>7, Popped
<1>9. DOMAIN p.dirty \cap t.spill = {}
  <2>1. txns = Push(Push(r, p), t) BY <1>1, <1>6, <1>8
  <2> QED BY <1>4, <2>1, NoOldCopy
<1>10. PICK n \in Nat : n = Len(s) /\ n - 1 = Len(r) + 1 /\ n - 1 = Len(m) /\ n - 1 \in Nat
  BY <1>3, <1>4, <1>6, <1>8
<1>11. s[n - 1] = p
  <2>1. Push(r, p)[Len(r) + 1] = p BY Pushed
  <2>2. \A k \in 1 .. Len(m) : Push(m, t)[k] = m[k] BY Pushed
  <2>3. n - 1 \in 1 .. Len(m) BY <1>3, <1>4, <1>10
  <2> QED BY <1>6, <1>8, <1>10, <2>1, <2>2, <2>3
<1>12. SubSeq(s, 1, n - 1) = m
  <2>1. \A k \in 0 .. Len(m) : SubSeq(Push(m, t), 1, k) = SubSeq(m, 1, k) BY Pushed
  <2>2. SubSeq(m, 1, Len(m)) = m BY SubSeqFull
  <2>3. n - 1 \in 0 .. Len(m) BY <1>10
  <2> QED BY <1>6, <1>10, <2>1, <2>2, <2>3
<1>13. PICK d, x : d = Over(t.dirty, p.dirty) /\ x = (p.spill \ DOMAIN t.dirty) \cup t.spill OBVIOUS
<1>14. PICK q : q = [t EXCEPT !.dirty = d, !.spill = x, !.free = p.free \cup t.free, !.saved = p.saved]
  OBVIOUS
<1>15. q \in TxnRec /\ Joined(p, t, q)
  <2>1. /\ DOMAIN d = DOMAIN p.dirty \cup DOMAIN t.dirty
        /\ \A y \in DOMAIN t.dirty : d[y] = t.dirty[y]
        /\ \A y \in DOMAIN p.dirty \ DOMAIN t.dirty : d[y] = p.dirty[y]
    BY <1>13 DEF Over
  <2>2. d \in DirtyList
    <3>1. /\ DOMAIN t.dirty \subseteq PageNo /\ t.dirty \in [DOMAIN t.dirty -> PageData]
          /\ t.spill \subseteq PageNo /\ t.free \subseteq PageNo
      BY ListTypes
    <3>2. /\ DOMAIN p.dirty \subseteq PageNo /\ p.dirty \in [DOMAIN p.dirty -> PageData]
          /\ p.spill \subseteq PageNo /\ p.free \subseteq PageNo
      BY ListTypes
    <3>3. d = [y \in DOMAIN d |-> d[y]] BY <1>13 DEF Over
    <3>4. \A y \in DOMAIN d : d[y] \in PageData BY <2>1, <3>1, <3>2
    <3>5. d \in [DOMAIN d -> PageData] BY <3>3, <3>4
    <3>6. DOMAIN d \in SUBSET PageNo BY <2>1, <3>1, <3>2
    <3> QED BY <3>5, <3>6 DEF DirtyList
  <2>3. x \in SUBSET PageNo /\ p.free \cup t.free \in SUBSET PageNo /\ p.saved \in PgRec
    <3>1. t.spill \subseteq PageNo /\ t.free \subseteq PageNo BY ListTypes
    <3>2. p.spill \subseteq PageNo /\ p.free \subseteq PageNo BY ListTypes
    <3> QED BY <1>13, <3>1, <3>2 DEF TxnRec
  <2>4. /\ q \in TxnRec /\ q.root = t.root /\ q.next = t.next /\ q.room = t.room /\ q.saved = p.saved
        /\ q.free = p.free \cup t.free /\ q.spill = x /\ q.dirty = d
    BY <1>14, <2>2, <2>3 DEF TxnRec
  <2>5. /\ t.spill \cap DOMAIN t.dirty = {} /\ ListsApart(m) /\ \A j \in DOMAIN m : m[j].spill \cap t.spill = {}
    BY <1>3, <1>6, ApartPushed
  <2>6. p.spill \cap DOMAIN p.dirty = {}
    BY <1>8, <2>5, ApartPushed
  <2>7. p.spill \cap t.spill = {}
    <3>1. Push(r, p)[Len(r) + 1] = p /\ DOMAIN Push(r, p) = 1 .. Len(r) + 1 /\ Len(r) \in Nat BY Pushed
    <3>2. Len(r) + 1 \in DOMAIN m /\ m[Len(r) + 1] = p BY <1>8, <3>1
    <3> QED BY <2>5, <3>2
  <2> QED BY <1>9, <1>13, <2>1, <2>4, <2>5, <2>6, <2>7 DEF Joined
<1>16. txns' = Push(r, q)
  <2>1. Here = n /\ Parent = p /\ Child = t BY <1>1, <1>6, <1>10, <1>11 DEF Here, Parent, Child
  <2>2. Spills = x BY <1>13, <2>1 DEF Spills
  <2>3. txns' = [SubSeq(txns, 1, Here - 1) EXCEPT ![Here - 1] =
                [Child EXCEPT !.dirty = Over(Child.dirty, Parent.dirty), !.spill = Spills,
                              !.free = Parent.free \cup Child.free, !.saved = Parent.saved]]
    BY DEF CommitNested
  <2>4. txns' = [m EXCEPT ![n - 1] = q] BY <1>1, <1>12, <1>13, <1>14, <2>1, <2>2, <2>3
  <2>5. [Push(r, p) EXCEPT ![Len(r) + 1] = q] = Push(r, q) BY <1>15, SetLast
  <2> QED BY <1>8, <1>10, <2>4, <2>5
<1> QED BY <1>1, <1>6, <1>8, <1>15, <1>16

LEMMA JoinedStack ==
  ASSUME NEW f, NEW r \in Seq(TxnRec), NEW p, NEW t, NEW q, Joined(p, t, q), NEW g,
         NEW s, s = Push(Push(r, p), t), Stack(f, s, g), ListsApart(s)
  PROVE  /\ Stack(f, Push(r, q), g) /\ ListsApart(Push(r, q))
         /\ Rt(f, Push(r, q)) = Rt(f, s)
<1>1. p \in TxnRec /\ t \in TxnRec /\ q \in TxnRec BY DEF Joined
<1>2. PICK m \in Seq(TxnRec) : m = Push(r, p) BY <1>1, Pushed
<1>3. Stack(f, m, t.saved) /\ Level(f, s, g) BY <1>1, <1>2, StackPushed
<1>4. Stack(f, r, p.saved) BY <1>1, <1>2, <1>3, StackPushed
<1>5. PICK v : v = Push(r, q) OBVIOUS
<1>6. /\ Root(v) = Root(s) /\ NextPg(v) = NextPg(s) /\ Listed(v) = Listed(s) /\ Gone(v) = Gone(s)
      /\ FreedApart(s) => FreedApart(v)
      /\ Visible(v) = Visible(s)
  BY <1>5, JoinedLists
<1>7. Rt(f, v) = Rt(f, s)
  <2>1. Page(f, v, Root(s)) = Page(f, s, Root(s)) BY <1>5, JoinedPages
  <2> QED BY <1>6, <2>1 DEF Rt
<1>8. TreeOf(f, v) = TreeOf(f, s) BY <1>6, <1>7 DEF TreeOf
<1>9. v # <<>> /\ s # <<>> /\ Last(v) = q /\ Last(s) = t
  <2>1. Push(r, q) # <<>> /\ Last(Push(r, q)) = q BY <1>1, Pushed
  <2>2. Push(m, t) # <<>> /\ Last(Push(m, t)) = t BY <1>1, Pushed
  <2> QED BY <1>2, <1>5, <2>1, <2>2
<1>10. Level(f, v, g)
  <2>1. TreeOK(f, v) BY <1>3, <1>6, <1>7 DEF Level, TreeOK
  <2>2. PartOK(f, v, g) BY <1>3, <1>6, <1>8 DEF Level, PartOK
  <2>3. ListOK(f, v) BY <1>3, <1>6, <1>8 DEF Level, ListOK
  <2>4. AllocOK(v, g) BY <1>3, <1>6 DEF Level, AllocOK
  <2>5. RoomOK(v)
    <3>1. q.room = t.room BY DEF Joined
    <3> QED BY <1>3, <1>6, <1>9, <3>1 DEF Level, RoomOK
  <2> QED BY <1>9, <2>1, <2>2, <2>3, <2>4, <2>5 DEF Level, Bottom
<1>11. Stack(f, v, g)
  <2>1. q.saved = p.saved BY DEF Joined
  <2> QED BY <1>1, <1>4, <1>5, <1>10, <2>1, StackPushed
<1>12. ListsApart(v)
  <2>1. /\ ListsApart(m) /\ \A j \in DOMAIN m : m[j].spill \cap t.spill = {}
    BY <1>1, <1>2, ApartPushed
  <2>2. ListsApart(r) /\ \A j \in DOMAIN r : r[j].spill \cap p.spill = {}
    BY <1>1, <1>2, <2>1, ApartPushed
  <2>3. \A j \in DOMAIN r : r[j].spill \cap q.spill = {}
    <3>1. \A j \in DOMAIN r : j \in DOMAIN m /\ m[j] = r[j]
      <4>1. /\ DOMAIN r = 1 .. Len(r) /\ DOMAIN Push(r, p) = 1 .. Len(r) + 1 /\ Len(r) \in Nat
            /\ \A k \in 1 .. Len(r) : Push(r, p)[k] = r[k]
        BY <1>1, Pushed
      <4> QED BY <1>2, <4>1
    <3>2. q.spill \subseteq p.spill \cup t.spill BY DEF Joined
    <3> QED BY <2>1, <2>2, <3>1, <3>2
  <2>4. q.spill \cap DOMAIN q.dirty = {}
    BY DEF Joined
  <2> QED BY <1>1, <1>5, <2>2, <2>3, <2>4, ApartPushed
<1> QED BY <1>5, <1>7, <1>11, <1>12

\* The cursors of the parent once its child n has handed over its list.
Inherited(c, n, t) ==
  [x \in {y \in DOMAIN c : c[y].own < n} |->
     [c[x] EXCEPT !.path = [i \in {1, 2} |-> Handed(n, t, c[x].path[i])],
                  !.backup = Front(c[x].backup)]]

\* A sequence without its last element.
LEMMA FrontIs ==
  ASSUME NEW S, NEW b \in Seq(S), b # <<>>
  PROVE  /\ Front(b) \in Seq(S) /\ Len(Front(b)) = Len(b) - 1
         /\ \A i \in 1 .. Len(b) - 1 : Front(b)[i] = b[i]
<1>1. Len(b) \in Nat \ {0} OBVIOUS
<1>2. Front(b) = SubSeq(b, 1, Len(b) - 1) BY DEF Front
<1>3. PICK n : n = Len(b) - 1 OBVIOUS
<1>4. n \in Nat /\ n \in 0 .. Len(b) BY <1>1, <1>3
<1>5. PICK a : a = SubSeq(b, 1, n) OBVIOUS
<1>6. a \in Seq(S) /\ Len(a) = n /\ \A i \in 1 .. n : a[i] = b[i]
  <2>1. a \in Seq(S) /\ Len(a) = (IF 1 <= n THEN n - 1 + 1 ELSE 0)
        /\ \A i \in 1 .. n - 1 + 1 : a[i] = b[1 + i - 1]
    BY <1>1, <1>4, <1>5, SubSeqProperties
  <2> QED BY <1>4, <2>1
<1> QED BY <1>2, <1>3, <1>5, <1>6

LEMMA InheritedParts ==
  ASSUME NEW f, NEW r \in Seq(TxnRec), NEW p, NEW t, NEW q, Joined(p, t, q),
         NEW s, s = Push(Push(r, p), t), TreeOK(f, s),
         NEW c \in CursorTable, CursTop(f, s, c), CursLow(f, Push(r, p), c),
         Rt(f, Push(r, q)) = Rt(f, s), Root(Push(r, q)) = Root(s),
         NEW d, d = Inherited(c, Len(r) + 2, t), NEW x \in DOMAIN d
  PROVE  /\ d[x] \in CursorRec /\ d[x].own = c[x].own /\ d[x].leaf = c[x].leaf
         /\ x \in DOMAIN c /\ c[x].own \in 1 .. Len(r) + 1
         /\ d[x].leaf \in DOMAIN Rt(f, Push(r, q))
         /\ d[x].path = PathTo(f, Push(r, q), d[x].leaf)
         /\ d[x].backup = Front(c[x].backup) /\ c[x].backup # <<>> /\ c[x].backup \in Seq(PathRec)
<1>1. p \in TxnRec /\ t \in TxnRec /\ q \in TxnRec BY DEF Joined
<1>2. PICK m \in Seq(TxnRec) : m = Push(r, p) /\ Len(m) = Len(r) + 1 BY <1>1, Pushed
<1>3. s \in Seq(TxnRec)
  <2>1. Push(m, t) \in Seq(TxnRec) BY <1>1, Pushed
  <2> QED BY <1>2, <2>1
<1>4. PICK n \in Nat : n = Len(r) + 2 OBVIOUS
<1>5. x \in DOMAIN c /\ c[x].own < n BY <1>4 DEF Inherited
<1>6. c[x] \in CursorRec /\ c[x].backup \in Seq(PathRec) BY <1>5, CursorTypes DEF CursorRec
<1>7. c[x].own \in 1 .. Len(r) + 1 /\ c[x].backup # <<>>
  <2>1. c[x].own \in 1 .. Len(m) + 1 /\ Len(c[x].backup) = Len(m) + 1 - c[x].own
    BY <1>2, <1>5 DEF CursLow
  <2>2. Len(r) \in Nat /\ Len(<<>>) = 0 OBVIOUS
  <2>3. c[x].own \in 1 .. Len(r) + 1 /\ Len(c[x].backup) # 0 BY <1>2, <1>4, <1>5, <2>1, <2>2
  <2> QED BY <2>2, <2>3
<1>8. PICK l : l = c[x].leaf OBVIOUS
<1>9. l \in DOMAIN Rt(f, s) /\ c[x].path = PathTo(f, s, l) BY <1>5, <1>8 DEF CursTop
<1>10. PICK a, b : a = Where(s, Root(s)) /\ b = Where(s, Rt(f, s)[l]) OBVIOUS
<1>11. c[x].path[1] = a /\ c[x].path[2] = b BY <1>3, <1>9, <1>10, Paths
<1>12. PICK v \in Seq(TxnRec) : v = Push(r, q) BY <1>1, Pushed
<1>13. Where(v, Root(s)) = Handed(n, t, a) /\ Where(v, Rt(f, s)[l]) = Handed(n, t, b)
  BY <1>4, <1>10, <1>12, JoinedPlaces
<1>14. TreeOK(f, v) BY <1>12 DEF TreeOK
<1>15. PathTo(f, v, l) \in PathRec /\ PathTo(f, v, l) = <<Handed(n, t, a), Handed(n, t, b)>>
  <2>1. PathTo(f, v, l) \in PathRec /\ PathTo(f, v, l) = <<Where(v, Root(v)), Where(v, Rt(f, v)[l])>>
    BY <1>9, <1>12, <1>14, Paths
  <2> QED BY <1>12, <1>13, <2>1
<1>16. PICK h, b1 : h = [i \in {1, 2} |-> Handed(n, t, c[x].path[i])] /\ b1 = Front(c[x].backup) OBVIOUS
<1>17. h = PathTo(f, v, l)
  <2>1. h = <<Handed(n, t, c[x].path[1]), Handed(n, t, c[x].path[2])>>
    BY <1>16
  <2> QED BY <1>11, <1>15, <2>1
<1>18. b1 \in Seq(PathRec) BY <1>6, <1>7, <1>16, FrontIs
<1>19. d[x] = [c[x] EXCEPT !.path = h, !.backup = b1] BY <1>4, <1>5, <1>16 DEF Inherited
<1>20. d[x] \in CursorRec /\ d[x].own = c[x].own /\ d[x].leaf = c[x].leaf /\ d[x].path = h /\ d[x].backup = b1
  BY <1>6, <1>15, <1>17, <1>18, <1>19 DEF CursorRec
<1> QED BY <1>5, <1>6, <1>7, <1>8, <1>9, <1>12, <1>16, <1>17, <1>20

LEMMA InheritedLow ==
  ASSUME NEW f, NEW r \in Seq(TxnRec), NEW p, NEW t, NEW q, Joined(p, t, q),
         NEW s, s = Push(Push(r, p), t), TreeOK(f, s),
         NEW c \in CursorTable, CursTop(f, s, c), CursLow(f, Push(r, p), c),
         Rt(f, Push(r, q)) = Rt(f, s), Root(Push(r, q)) = Root(s),
         NEW d, d = Inherited(c, Len(r) + 2, t)
  PROVE  CursLow(f, r, d)
<1>1. p \in TxnRec /\ t \in TxnRec /\ q \in TxnRec BY DEF Joined
<1>2. PICK m \in Seq(TxnRec) : /\ m = Push(r, p) /\ Len(m) = Len(r) + 1 /\ Len(r) \in Nat
                               /\ \A k \in 0 .. Len(r) : SubSeq(m, 1, k) = SubSeq(r, 1, k)
  BY <1>1, Pushed
<1> SUFFICES ASSUME NEW x \in DOMAIN d
             PROVE  /\ d[x].own \in 1 .. Len(r) + 1
                    /\ Len(d[x].backup) = Len(r) + 1 - d[x].own
                    /\ \A k \in d[x].own .. Len(r) :
                         /\ d[x].leaf \in DOMAIN Rt(f, SubSeq(r, 1, k))
                         /\ d[x].backup[k - d[x].own + 1] = PathTo(f, SubSeq(r, 1, k), d[x].leaf)
  BY DEF CursLow
<1>3. PICK o, b, a, l : o = c[x].own /\ b = c[x].backup /\ a = d[x].backup /\ l = c[x].leaf OBVIOUS
<1>4. /\ d[x].own = o /\ d[x].leaf = l /\ x \in DOMAIN c /\ o \in 1 .. Len(r) + 1
      /\ a = Front(b) /\ b # <<>> /\ b \in Seq(PathRec)
  BY <1>3, InheritedParts
<1>5. /\ Len(b) = Len(m) + 1 - o
      /\ \A k \in o .. Len(m) : /\ l \in DOMAIN Rt(f, SubSeq(m, 1, k))
                                /\ b[k - o + 1] = PathTo(f, SubSeq(m, 1, k), l)
  BY <1>2, <1>3, <1>4 DEF CursLow
<1>6. Len(a) = Len(b) - 1 /\ \A i \in 1 .. Len(b) - 1 : a[i] = b[i] BY <1>4, FrontIs
<1>7. o \in Nat /\ Len(b) = Len(r) + 2 - o /\ Len(b) - 1 = Len(r) + 1 - o BY <1>2, <1>4, <1>5
<1>8. ASSUME NEW k \in o .. Len(r)
      PROVE  /\ l \in DOMAIN Rt(f, SubSeq(r, 1, k))
             /\ a[k - o + 1] = PathTo(f, SubSeq(r, 1, k), l)
  <2>1. k \in o .. Len(m) /\ k \in 0 .. Len(r) /\ k - o + 1 \in 1 .. Len(b) - 1 BY <1>2, <1>4, <1>7
  <2> QED BY <1>2, <1>5, <1>6, <2>1
<1> QED BY <1>3, <1>4, <1>6, <1>7, <1>8

LEMMA JoinedInv ==
  ASSUME NEW f, NEW r \in Seq(TxnRec), NEW p, NEW t, NEW q, Joined(p, t, q), NEW g, NEW c,
         NEW s, s = Push(Push(r, p), t), Inv(f, s, g, c)
  PROVE  Inv(f, Push(r, q), g, Inherited(c, Len(r) + 2, t))
<1>1. p \in TxnRec /\ t \in TxnRec /\ q \in TxnRec BY DEF Joined
<1>2. PICK m \in Seq(TxnRec) : m = Push(r, p) BY <1>1, Pushed
<1>3. s \in Seq(TxnRec) /\ s # <<>> /\ Front(s) = m
  <2>1. Push(m, t) \in Seq(TxnRec) /\ Push(m, t) # <<>> /\ Front(Push(m, t)) = m BY <1>1, Pushed
  <2> QED BY <1>2, <2>1
<1>4. /\ f \in [PageNo -> PageData] /\ g \in PgRec /\ c \in CursorTable
      /\ Stack(f, s, g) /\ ListsApart(s) /\ CursTop(f, s, c) /\ CursLow(f, Push(r, p), c)
  BY <1>2, <1>3 DEF Inv, Types
<1>5. PICK v : v = Push(r, q) OBVIOUS
<1>6. v \in Seq(TxnRec) /\ v # <<>> /\ Front(v) = r BY <1>1, <1>5, Pushed
<1>7. Stack(f, v, g) /\ ListsApart(v) /\ Rt(f, v) = Rt(f, s) BY <1>4, <1>5, JoinedStack
<1>8. Root(v) = Root(s) BY <1>5, JoinedLists
<1>9. TreeOK(f, s)
  <2>1. Level(f, s, g) BY <1>3, <1>4, StackTop
  <2> QED BY <2>1 DEF Level
<1>10. PICK d : d = Inherited(c, Len(r) + 2, t) OBVIOUS
<1>11. CursLow(f, r, d) BY <1>4, <1>5, <1>7, <1>8, <1>9, <1>10, InheritedLow
<1>12. \A x \in DOMAIN d :
          /\ d[x] \in CursorRec /\ x \in DOMAIN c
          /\ d[x].leaf \in DOMAIN Rt(f, v) /\ d[x].path = PathTo(f, v, d[x].leaf)
  BY <1>4, <1>5, <1>7, <1>8, <1>9, <1>10, InheritedParts
<1>13. d \in CursorTable
  <2>1. d = [x \in DOMAIN d |-> d[x]] BY <1>10 DEF Inherited
  <2>2. d \in [DOMAIN d -> CursorRec] BY <1>12, <2>1
  <2>3. DOMAIN c \subseteq Cursor BY <1>4, CursorTypes
  <2>4. DOMAIN d \in SUBSET Cursor BY <1>12, <2>3
  <2> QED BY <2>2, <2>4 DEF CursorTable
<1>14. CursTop(f, v, d) BY <1>12 DEF CursTop
<1> QED BY <1>4, <1>5, <1>6, <1>7, <1>10, <1>11, <1>13, <1>14 DEF Inv, Types

LEMMA CommitNestedStep ==
  ASSUME NInv, FewStaleCopies, CommitNested
  PROVE  NInv'
<1> PICK r \in Seq(TxnRec) :
       \E p, t, q : txns = Push(Push(r, p), t) /\ txns' = Push(r, q) /\ Joined(p, t, q)
  BY Merged
<1>1. PICK p, t, q : txns = Push(Push(r, p), t) /\ txns' = Push(r, q) /\ Joined(p, t, q)
  OBVIOUS
<1>2. PICK f, s, g, c : f = file /\ s = txns /\ g = pg /\ c = cursors OBVIOUS
<1>3. Inv(f, s, g, c) /\ MetaOK BY <1>2 DEF NInv
<1>4. PICK d : d = Inherited(c, Len(r) + 2, t) OBVIOUS
<1>5. Inv(f, Push(r, q), g, d) BY <1>1, <1>2, <1>3, <1>4, JoinedInv
<1>6. Len(s) = Len(r) + 2 /\ Last(s) = t
  <2>1. p \in TxnRec /\ t \in TxnRec BY <1>1 DEF Joined
  <2>2. PICK m \in Seq(TxnRec) : m = Push(r, p) /\ Len(m) = Len(r) + 1 BY <2>1, Pushed
  <2>3. Len(Push(m, t)) = Len(m) + 1 /\ Last(Push(m, t)) = t BY <2>1, Pushed
  <2>4. Len(r) \in Nat OBVIOUS
  <2> QED BY <1>1, <1>2, <2>2, <2>3, <2>4
<1>7. cursors' = d
  <2>1. Here = Len(r) + 2 /\ Child = t BY <1>2, <1>6 DEF Here, Child
  <2>2. \A mem : Owned(mem) = Handed(Here, t, mem) BY <2>1 DEF Owned, Handed
  <2>3. cursors' = [x \in Older(Here) |->
          [cursors[x] EXCEPT !.path = [i \in {1, 2} |-> Owned(cursors[x].path[i])],
                             !.backup = Front(cursors[x].backup)]]
    BY DEF CommitNested
  <2>4. Older(Here) = {y \in DOMAIN c : c[y].own < Here} BY <1>2 DEF Older
  <2> QED BY <1>2, <1>4, <2>1, <2>2, <2>3, <2>4 DEF Inherited
<1>8. file' = f /\ pg' = g /\ meta' = meta BY <1>2 DEF CommitNested
<1> QED BY <1>1, <1>3, <1>5, <1>7, <1>8, SameMeta

\* A sequence of sets of pages: no page is in two of them.
EachOnce(Q) == \A i, j \in DOMAIN Q : i # j => Q[i] \cap Q[j] = {}
AllOf(Q) == UNION {Q[i] : i \in DOMAIN Q}

LEMMA ConcatOnce ==
  ASSUME NEW S, NEW A \in Seq(SUBSET S), NEW B \in Seq(SUBSET S)
  PROVE  /\ A \o B \in Seq(SUBSET S) /\ AllOf(A \o B) = AllOf(A) \cup AllOf(B)
         /\ EachOnce(A) /\ EachOnce(B) /\ AllOf(A) \cap AllOf(B) = {} => EachOnce(A \o B)
<1>1. PICK Q : Q = A \o B OBVIOUS
<1>2. PICK m \in Nat, n \in Nat : m = Len(A) /\ n = Len(B) OBVIOUS
<1>3. /\ Q \in Seq(SUBSET S) /\ Len(Q) = m + n /\ DOMAIN Q = 1 .. m + n
      /\ DOMAIN A = 1 .. m /\ DOMAIN B = 1 .. n
      /\ \A i \in 1 .. m + n : Q[i] = IF i <= m THEN A[i] ELSE B[i - m]
  BY <1>1, <1>2, ConcatProperties
<1>4. \A i \in 1 .. m : i \in DOMAIN Q /\ Q[i] = A[i] BY <1>3
<1>5. \A i \in 1 .. n : i + m \in DOMAIN Q /\ Q[i + m] = B[i]
  <2>1. \A i \in 1 .. n : i + m \in 1 .. m + n /\ ~(i + m <= m) /\ i + m - m = i OBVIOUS
  <2> QED BY <1>3, <2>1
<1>6. \A k \in DOMAIN Q : \/ k \in 1 .. m /\ Q[k] = A[k]
                          \/ k - m \in 1 .. n /\ Q[k] = B[k - m]
  BY <1>3
<1>7. AllOf(Q) = AllOf(A) \cup AllOf(B)
  <2>1. AllOf(Q) \subseteq AllOf(A) \cup AllOf(B)
    <3>1. ASSUME NEW k \in DOMAIN Q PROVE Q[k] \subseteq AllOf(A) \cup AllOf(B)
      BY <1>3, <1>6 DEF AllOf
    <3> QED BY <3>1 DEF AllOf
  <2>2. AllOf(A) \subseteq AllOf(Q) BY <1>3, <1>4 DEF AllOf
  <2>3. AllOf(B) \subseteq AllOf(Q)
    <3>1. ASSUME NEW i \in DOMAIN B PROVE B[i] \subseteq AllOf(Q) BY <1>3, <1>5 DEF AllOf
    <3> QED BY <3>1 DEF AllOf
  <2> QED BY <2>1, <2>2, <2>3
<1>8. ASSUME EachOnce(A), EachOnce(B), AllOf(A) \cap AllOf(B) = {}
      PROVE  EachOnce(Q)
  <2>1. ASSUME NEW i \in DOMAIN Q, NEW j \in DOMAIN Q, i # j PROVE Q[i] \cap Q[j] = {}
    <3>1. i \in Int /\ j \in Int BY <1>3
    <3>2. \A k \in 1 .. m : A[k] \subseteq AllOf(A) BY <1>3 DEF AllOf
    <3>3. \A k \in 1 .. n : B[k] \subseteq AllOf(B) BY <1>3 DEF AllOf
    <3>4. CASE i \in 1 .. m /\ Q[i] = A[i] /\ j \in 1 .. m /\ Q[j] = A[j]
      BY <1>3, <1>8, <2>1, <3>4 DEF EachOnce
    <3>5. CASE i - m \in 1 .. n /\ Q[i] = B[i - m] /\ j - m \in 1 .. n /\ Q[j] = B[j - m]
      <4>1. i - m # j - m BY <2>1, <3>1
      <4> QED BY <1>3, <1>8, <3>5, <4>1 DEF EachOnce
    <3>6. CASE i \in 1 .. m /\ Q[i] = A[i] /\ j - m \in 1 .. n /\ Q[j] = B[j - m]
      BY <1>8, <3>2, <3>3, <3>6
    <3>7. CASE i - m \in 1 .. n /\ Q[i] = B[i - m] /\ j \in 1 .. m /\ Q[j] = A[j]
      BY <1>8, <3>2, <3>3, <3>7
    <3> QED BY <1>6, <3>4, <3>5, <3>6, <3>7
  <2> QED BY <2>1 DEF EachOnce
<1> QED BY <1>1, <1>3, <1>7, <1>8

LEMMA OneOnce ==
  ASSUME NEW S, NEW x \in SUBSET S
  PROVE  /\ <<x>> \in Seq(SUBSET S) /\ AllOf(<<x>>) = x /\ EachOnce(<<x>>)
         /\ <<>> \in Seq(SUBSET S) /\ AllOf(<<>>) = {} /\ EachOnce(<<>>)
<1>1. <<x>> \in Seq(SUBSET S) /\ DOMAIN <<x>> = {1} /\ <<x>>[1] = x OBVIOUS
<1>2. <<>> \in Seq(SUBSET S) /\ DOMAIN <<>> = {} OBVIOUS
<1> QED BY <1>1, <1>2 DEF AllOf, EachOnce

\* A sequence without its first k elements.
LEMMA Upper ==
  ASSUME NEW S, NEW M \in Seq(S), NEW k \in Nat, k <= Len(M)
  PROVE  /\ SubSeq(M, k + 1, Len(M)) \in Seq(S) /\ Len(SubSeq(M, k + 1, Len(M))) = Len(M) - k
         /\ \A i \in 1 .. Len(M) - k : SubSeq(M, k + 1, Len(M))[i] = M[k + i]
<1>1. PICK n \in Int, a \in Int : n = Len(M) /\ a = k + 1 OBVIOUS
<1>2. \A i \in a .. n : M[i] \in S BY <1>1
<1>3. /\ SubSeq(M, a, n) \in Seq(S) /\ Len(SubSeq(M, a, n)) = (IF a <= n THEN n - a + 1 ELSE 0)
      /\ \A i \in 1 .. n - a + 1 : SubSeq(M, a, n)[i] = M[a + i - 1]
  BY <1>2, SubSeqProperties
<1>4. n - a + 1 = n - k /\ Len(SubSeq(M, a, n)) = n - k BY <1>1, <1>3
<1>5. \A i \in 1 .. n - k : a + i - 1 = k + i BY <1>1
<1> QED BY <1>1, <1>3, <1>4, <1>5

\* The records that the allocator has not read.
LEMMA UnreadOnce ==
  ASSUME MetaOK, NEW g \in PgRec, g.last <= Len(meta.recs), NEW B,
         B = SubSeq(meta.recs, g.last + 1, Len(meta.recs))
  PROVE  B \in Seq(SUBSET PageNo) /\ AllOf(B) = Unread(g) /\ EachOnce(B)
<1>1. PICK M : M = meta.recs OBVIOUS
<1>2. M \in Seq(SUBSET PageNo) /\ \A i, j \in DOMAIN M : i # j => M[i] \cap M[j] = {}
  BY <1>1 DEF MetaOK
<1>3. PICK n \in Nat, k \in Nat : n = Len(M) /\ k = g.last /\ k <= n /\ DOMAIN M = 1 .. n
  BY <1>1, <1>2 DEF PgRec
<1>4. /\ B \in Seq(SUBSET PageNo) /\ Len(B) = n - k /\ DOMAIN B = 1 .. n - k
      /\ \A i \in 1 .. n - k : B[i] = M[k + i]
  <2>1. PICK S : S = SUBSET PageNo OBVIOUS
  <2>2. /\ SubSeq(M, k + 1, Len(M)) \in Seq(S) /\ Len(SubSeq(M, k + 1, Len(M))) = Len(M) - k
        /\ \A i \in 1 .. Len(M) - k : SubSeq(M, k + 1, Len(M))[i] = M[k + i]
    <3>1. M \in Seq(S) /\ k \in Nat /\ k <= Len(M) BY <1>2, <1>3, <2>1
    <3> QED BY <3>1, Upper
  <2> QED BY <1>1, <1>3, <2>1, <2>2
<1>5. AllOf(B) = UNION {M[r] : r \in k + 1 .. n}
  <2>1. ASSUME NEW i \in 1 .. n - k PROVE k + i \in k + 1 .. n BY <1>3
  <2>2. ASSUME NEW r \in k + 1 .. n PROVE r - k \in 1 .. n - k /\ k + (r - k) = r BY <1>3
  <2>3. {B[i] : i \in 1 .. n - k} = {M[r] : r \in k + 1 .. n}
    <3>1. ASSUME NEW r \in k + 1 .. n PROVE M[r] = B[r - k] BY <1>4, <2>2
    <3>2. {M[r] : r \in k + 1 .. n} \subseteq {B[i] : i \in 1 .. n - k} BY <2>2, <3>1
    <3>3. ASSUME NEW i \in 1 .. n - k PROVE B[i] \in {M[r] : r \in k + 1 .. n} BY <1>4, <2>1
    <3> QED BY <3>2, <3>3
  <2> QED BY <1>4, <2>3 DEF AllOf
<1>6. EachOnce(B)
  <2>1. ASSUME NEW i \in 1 .. n - k, NEW j \in 1 .. n - k, i # j PROVE B[i] \cap B[j] = {}
    <3>1. /\ k \in Nat /\ n \in Nat /\ i \in Int /\ j \in Int /\ i # j
          /\ 1 <= i /\ i <= n - k /\ 1 <= j /\ j <= n - k
      BY <1>3, <2>1
    <3>2. k + i \in 1 .. n /\ k + j \in 1 .. n /\ k + i # k + j BY <3>1
    <3>3. M[k + i] \cap M[k + j] = {} BY <1>2, <1>3, <3>2
    <3>4. B[i] = M[k + i] /\ B[j] = M[k + j] BY <1>4
    <3> QED BY <3>3, <3>4
  <2> QED BY <1>4, <2>1 DEF EachOnce
<1>7. Unread(g) = UNION {M[r] : r \in k + 1 .. n} BY <1>1, <1>3 DEF Unread
<1> QED BY <1>4, <1>5, <1>6, <1>7

\* The records that a commit leaves.
LEMMA RecsAfter ==
  ASSUME MetaOK, NEW g \in PgRec, g.last <= Len(meta.recs), NEW F \in SUBSET PageNo,
         g.head \cap (F \cup Unread(g)) = {}, F \cap Unread(g) = {}, NEW Q,
         Q = (IF g.head = {} THEN <<>> ELSE <<g.head>>) \o
             SubSeq(meta.recs, g.last + 1, Len(meta.recs)) \o <<F>>
  PROVE  Q \in Seq(SUBSET PageNo) /\ EachOnce(Q) /\ AllOf(Q) = g.head \cup Unread(g) \cup F
<1>1. PICK A : A = IF g.head = {} THEN <<>> ELSE <<g.head>> OBVIOUS
<1>2. PICK B : B = SubSeq(meta.recs, g.last + 1, Len(meta.recs)) OBVIOUS
<1>3. PICK C : C = <<F>> OBVIOUS
<1>4. A \in Seq(SUBSET PageNo) /\ EachOnce(A) /\ AllOf(A) = g.head
  <2>1. g.head \in SUBSET PageNo BY DEF PgRec
  <2> QED BY <1>1, <2>1, OneOnce
<1>5. B \in Seq(SUBSET PageNo) /\ AllOf(B) = Unread(g) /\ EachOnce(B) BY <1>2, UnreadOnce
<1>6. C \in Seq(SUBSET PageNo) /\ EachOnce(C) /\ AllOf(C) = F BY <1>3, OneOnce
<1>7. PICK D : D = A \o B OBVIOUS
<1>8. D \in Seq(SUBSET PageNo) /\ EachOnce(D) /\ AllOf(D) = g.head \cup Unread(g)
  <2>1. AllOf(A) \cap AllOf(B) = {} BY <1>4, <1>5
  <2>2. /\ A \o B \in Seq(SUBSET PageNo) /\ AllOf(A \o B) = AllOf(A) \cup AllOf(B)
        /\ EachOnce(A) /\ EachOnce(B) /\ AllOf(A) \cap AllOf(B) = {} => EachOnce(A \o B)
    BY <1>4, <1>5, ConcatOnce
  <2> QED BY <1>4, <1>5, <1>7, <2>1, <2>2
<1>9. /\ D \o C \in Seq(SUBSET PageNo) /\ EachOnce(D \o C)
      /\ AllOf(D \o C) = g.head \cup Unread(g) \cup F
  <2>1. AllOf(D) \cap AllOf(C) = {} BY <1>6, <1>8
  <2>2. /\ D \o C \in Seq(SUBSET PageNo) /\ AllOf(D \o C) = AllOf(D) \cup AllOf(C)
        /\ EachOnce(D) /\ EachOnce(C) /\ AllOf(D) \cap AllOf(C) = {} => EachOnce(D \o C)
    BY <1>6, <1>8, ConcatOnce
  <2> QED BY <1>6, <1>8, <2>1, <2>2
<1> QED BY <1>1, <1>2, <1>3, <1>7, <1>9

\* The database between transactions.
Rest(e) ==
  /\ MetaOK /\ e \in [PageNo -> PageData] /\ e[meta.root] \in RootPage
  /\ \A l, m \in DOMAIN e[meta.root] : e[meta.root][l] = e[meta.root][m] => l = m
  /\ \A l \in DOMAIN e[meta.root] : e[meta.root][l] # meta.root
  /\ {meta.root} \cup {e[meta.root][l] : l \in DOMAIN e[meta.root]} \cup AllOf(meta.recs)
       = FirstPg .. meta.next - 1
  /\ ({meta.root} \cup {e[meta.root][l] : l \in DOMAIN e[meta.root]}) \cap AllOf(meta.recs) = {}
  /\ meta.next <= MaxPg

LEMMA RestInv == \A e : Rest(e) => MetaOK /\ Inv(e, <<>>, NoPages, <<>>)
<1> SUFFICES ASSUME NEW e, Rest(e) PROVE MetaOK /\ Inv(e, <<>>, NoPages, <<>>) OBVIOUS
<1>1. PICK s : s = <<>> OBVIOUS
<1>2. s \in Seq(TxnRec) /\ DOMAIN s = {} /\ Len(s) = 0 BY <1>1
<1>3. PICK g \in PgRec : g = NoPages /\ g.head = {} /\ g.last = 0
  <2>1. NoPages \in PgRec BY DEF NoPages, PgRec
  <2> QED BY <2>1 DEF NoPages
<1>4. Root(s) = meta.root /\ NextPg(s) = meta.next BY <1>1 DEF Root, NextPg
<1>5. Rt(e, s) = e[meta.root] BY <1>1, <1>4, WhereNone DEF Rt
<1>6. TreeOf(e, s) = {meta.root} \cup {e[meta.root][l] : l \in DOMAIN e[meta.root]}
  BY <1>4, <1>5 DEF TreeOf
<1>7. Gone(s) = {} /\ Listed(s) = {} BY <1>2 DEF Gone, Listed
<1>8. meta.root \in PageNo /\ meta.recs \in Seq(SUBSET PageNo) /\ MetaOK BY DEF Rest, MetaOK
<1>9. Unread(g) = AllOf(meta.recs)
  <2>1. 0 + 1 .. Len(meta.recs) = DOMAIN meta.recs BY <1>8
  <2> QED BY <1>3, <2>1 DEF Unread, AllOf
<1>10. Level(e, s, g)
  <2>1. TreeOK(e, s) BY <1>4, <1>5, <1>8 DEF TreeOK, Rest
  <2>2. PartOK(e, s, g)
    <3>1. FreedApart(s) BY <1>2 DEF FreedApart
    <3> QED BY <1>3, <1>4, <1>6, <1>7, <1>9, <3>1 DEF PartOK, Rest
  <2>3. ListOK(e, s) BY <1>1, <1>7 DEF ListOK
  <2>4. AllocOK(s, g)
    <3>1. meta.next \in Nat /\ MaxPg \in Nat BY NestedAssumption DEF Rest, MetaOK, NestedAssumption
    <3>2. 0 <= Len(meta.recs) BY <1>8
    <3> QED BY <1>3, <1>4, <3>1, <3>2 DEF AllocOK, Rest
  <2> QED BY <1>1, <1>3, <2>1, <2>2, <2>3, <2>4 DEF Level, RoomOK, Bottom
<1>11. Stack(e, s, g)
  <2>1. ASSUME NEW k \in 0 .. 0 PROVE Level(e, SubSeq(s, 1, k), PgAt(s, g, k))
    <3>1. k = 0 /\ SubSeq(s, 1, 0) = s BY <1>1
    <3> QED BY <1>2, <1>10, <3>1 DEF PgAt
  <2> QED BY <1>2, <2>1 DEF Stack
<1>12. ListsApart(s) BY <1>2 DEF ListsApart
<1>13. s \in CursorTable
  <2>1. s \in [{} -> CursorRec] BY <1>1
  <2> QED BY <2>1 DEF CursorTable
<1>14. e \in [PageNo -> PageData] BY DEF Rest
<1> HIDE DEF NoPages
<1> QED BY <1>1, <1>2, <1>3, <1>8, <1>11, <1>12, <1>13, <1>14 DEF Inv, Types

LEMMA RestInvNext == (\A e : Rest(e) => MetaOK /\ Inv(e, <<>>, NoPages, <<>>))'
BY RestInv, PTL

\* The dirty pages of the only transaction, written to the file.
LEMMA Stored ==
  ASSUME NEW f \in [PageNo -> PageData], NEW t \in TxnRec, NEW g, NEW s,
         s = Push(<<>>, t), Level(f, s, g), ListsApart(s), NEW e, e = Over(t.dirty, f)
  PROVE  /\ e \in [PageNo -> PageData] /\ e[t.root] = Rt(f, s) /\ Root(s) = t.root /\ t.root \in PageNo
         /\ \A x \in PageNo : e[x] = Page(f, s, x)
<1>1. PICK r \in Seq(TxnRec) : r = <<>>
  <2>1. <<>> \in Seq(TxnRec) OBVIOUS
  <2> QED BY <2>1
<1>2. Root(s) = t.root /\ t.root \in PageNo
  <2>1. Root(Push(r, t)) = t.root BY Parts
  <2> QED BY <1>1, <2>1 DEF TxnRec
<1>3. \A x : Page(f, s, x) = IF x \in t.spill THEN f[x]
                             ELSE IF x \in DOMAIN t.dirty THEN t.dirty[x] ELSE f[x]
  <2>1. \A x : Page(f, Push(r, t), x) = IF x \in t.spill THEN f[x]
                             ELSE IF x \in DOMAIN t.dirty THEN t.dirty[x] ELSE Page(f, r, x)
    BY PagePushed
  <2> QED BY <1>1, <2>1, WhereNone
<1>4. t.spill \cap DOMAIN t.dirty = {}
  <2>1. ListsApart(Push(r, t)) BY <1>1
  <2> QED BY <2>1, ApartPushed
<1>5. DOMAIN t.dirty \subseteq PageNo /\ t.dirty \in [DOMAIN t.dirty -> PageData] BY ListTypes
<1>6. \A x \in PageNo : e[x] = Page(f, s, x) BY <1>3, <1>4, <1>5 DEF Over
<1>7. DOMAIN e = PageNo BY <1>5 DEF Over
<1>8. e \in [PageNo -> PageData]
  <2>1. e = [x \in DOMAIN e |-> e[x]] BY DEF Over
  <2>2. \A x \in PageNo : e[x] \in PageData BY <1>5 DEF Over
  <2> QED BY <1>7, <2>1, <2>2
<1>9. e[t.root] = Rt(f, s) BY <1>2, <1>6 DEF Rt
<1> QED BY <1>2, <1>6, <1>8, <1>9

LEMMA CommitStep ==
  ASSUME NInv, Commit
  PROVE  NInv'
<1>1. PICK f, s, g, c : f = file /\ s = txns /\ g = pg /\ c = cursors OBVIOUS
<1>2. Inv(f, s, g, c) /\ MetaOK BY <1>1 DEF NInv
<1>3. PICK z, h : z = <<>> /\ h = NoPages OBVIOUS
<1>4. txns' = z /\ pg' = h /\ cursors' = z BY <1>3 DEF Commit
<1>5. CASE file' = file /\ meta' = meta
  <2>1. Inv(f, z, h, z) BY <1>2, <1>3, Ended
  <2> QED BY <1>1, <1>2, <1>4, <1>5, <2>1, SameMeta
<1>6. CASE ~(Child.dirty = <<>> /\ Child.spill = {})
  <2>1. /\ f \in [PageNo -> PageData] /\ s \in Seq(TxnRec) /\ g \in PgRec
        /\ Stack(f, s, g) /\ ListsApart(s)
    BY <1>2 DEF Inv, Types
  <2>2. Len(s) = 1 BY <1>1 DEF Commit, Here
  <2>3. s # <<>> BY <2>2
  <2>4. PICK r \in Seq(TxnRec), t \in TxnRec : s = Push(r, t) /\ Last(s) = t /\ Len(r) = Len(s) - 1
    BY <2>1, <2>3, Popped
  <2>5. r = <<>>
    <3>1. Len(r) = 0 BY <2>2, <2>4
    <3> QED BY <3>1
  <2>6. Level(f, s, g) BY <2>1, StackTop
  <2>7. PICK e : e = Over(t.dirty, f) OBVIOUS
  <2>8. e \in [PageNo -> PageData] /\ e[t.root] = Rt(f, s) /\ Root(s) = t.root /\ t.root \in PageNo
    BY <2>1, <2>4, <2>5, <2>6, <2>7, Stored
  <2>9. PICK Q : Q = (IF g.head = {} THEN <<>> ELSE <<g.head>>) \o
                     SubSeq(meta.recs, g.last + 1, Len(meta.recs)) \o <<t.free>>
    OBVIOUS
  <2>10. Child = t BY <1>1, <2>4 DEF Child
  <2>11. file' = e /\ meta' = [root |-> t.root, next |-> t.next, recs |-> Q]
    BY <1>1, <1>6, <2>7, <2>9, <2>10 DEF Commit
  <2>12. Gone(s) = t.free /\ NextPg(s) = t.next
    <3>1. Gone(Push(r, t)) = Gone(r) \cup t.free /\ NextPg(Push(r, t)) = t.next BY Parts
    <3>2. Gone(r) = {} BY <2>5 DEF Gone
    <3> QED BY <2>4, <3>1, <3>2
  <2>13. /\ TreeOK(f, s) /\ TreeOf(f, s) \cup g.head \cup t.free \cup Unread(g) = FirstPg .. t.next - 1
         /\ TreeOf(f, s) \cap (g.head \cup t.free \cup Unread(g)) = {}
         /\ g.head \cap (t.free \cup Unread(g)) = {} /\ t.free \cap Unread(g) = {}
         /\ g.last <= Len(meta.recs) /\ t.next <= MaxPg
    BY <2>6, <2>12 DEF Level, PartOK, AllocOK
  <2>14. t.free \in SUBSET PageNo /\ t.next \in Nat BY DEF TxnRec
  <2>15. Q \in Seq(SUBSET PageNo) /\ EachOnce(Q) /\ AllOf(Q) = g.head \cup Unread(g) \cup t.free
    BY <1>2, <2>1, <2>9, <2>13, <2>14, RecsAfter
  <2>16. meta'.root = t.root /\ meta'.next = t.next /\ meta'.recs = Q BY <2>11
  <2>17. MetaOK'
    <3>1. meta' \in [root : PageNo, next : Nat, recs : Seq(SUBSET PageNo)] BY <2>8, <2>11, <2>14, <2>15
    <3> QED BY <2>15, <2>16, <3>1 DEF MetaOK, EachOnce
  <2>18. TreeOf(f, s) = {t.root} \cup {e[t.root][l] : l \in DOMAIN e[t.root]}
    BY <2>8 DEF TreeOf
  <2>19. TreeOf(f, s) \cup AllOf(Q) = FirstPg .. t.next - 1 /\ TreeOf(f, s) \cap AllOf(Q) = {}
    BY <2>13, <2>15
  <2>20. /\ e[t.root] \in RootPage
         /\ \A l, m \in DOMAIN e[t.root] : e[t.root][l] = e[t.root][m] => l = m
         /\ \A l \in DOMAIN e[t.root] : e[t.root][l] # t.root
    BY <2>8, <2>13 DEF TreeOK
  <2>21. Rest(e)' BY <2>8, <2>13, <2>16, <2>17, <2>18, <2>19, <2>20 DEF Rest
  <2>22. (MetaOK /\ Inv(e, <<>>, NoPages, <<>>))' BY <2>21, RestInvNext
  <2>23. file' = e /\ txns' = <<>> /\ pg' = NoPages /\ cursors' = <<>> BY <2>11 DEF Commit
  <2> QED BY <2>22, <2>23 DEF NInv
<1> QED BY <1>5, <1>6 DEF Commit

-----------------------------------------------------------------------------
(* The invariant.                                                           *)

\* The leaf pages of the first database fill the numbers that they can have.
LEMMA FirstLeaves ==
  ASSUME NEW end, end = FirstPg + Cardinality(Leaf) + 1,
         NEW at \in [Leaf -> FirstPg + 1 .. end - 1], IsInjective(at)
  PROVE  {at[l] : l \in Leaf} = FirstPg + 1 .. end - 1
<1>1. PICK n \in Nat : n = Cardinality(Leaf)
  BY FS_CardinalityType, NestedAssumption DEF NestedAssumption
<1>2. PICK a \in Int, b \in Int : a = FirstPg + 1 /\ b = end - 1 /\ b - a + 1 = n /\ (a > b => n = 0)
  <2>1. FirstPg + 1 = 4 /\ end - 1 = n + 3 BY <1>1 DEF FirstPg
  <2> QED BY <2>1
<1>3. PICK T : T = a .. b OBVIOUS
<1>4. IsFiniteSet(T) /\ Cardinality(T) = n BY <1>2, <1>3, FS_Interval
<1>5. at \in Injection(Leaf, T)
  <2>1. \A x, y \in Leaf : at[x] = at[y] => x = y BY DEF IsInjective
  <2> QED BY <1>2, <1>3, <2>1 DEF Injection, IsInjective
<1>6. at \in Surjection(Leaf, T) BY <1>1, <1>4, <1>5, FS_Injection
<1> QED BY <1>2, <1>3, <1>6 DEF Surjection

LEMMA InitStep == Init => NInv
<1> SUFFICES ASSUME Init PROVE NInv OBVIOUS
<1>1. PICK end : end = FirstPg + Cardinality(Leaf) + 1 OBVIOUS
<1>2. PICK n \in Nat, k \in Nat : n = Cardinality(Leaf) /\ k = Records
  BY FS_CardinalityType, NestedAssumption DEF NestedAssumption
<1>3. FirstPg = 3 /\ end = n + 4 /\ end + k <= MaxPg /\ MaxPg \in Nat
  BY <1>1, <1>2, NestedAssumption DEF NestedAssumption, FirstPg
<1>4. PICK v \in Value, at \in [Leaf -> FirstPg + 1 .. end - 1] :
         /\ IsInjective(at)
         /\ file = [p \in FirstPg .. MaxPg - 1 |-> IF p = FirstPg THEN at ELSE v]
  BY <1>1 DEF Init
<1>5. meta = [root |-> FirstPg, next |-> end + k, recs |-> [i \in 1 .. k |-> {end + i - 1}]]
  BY <1>1, <1>2 DEF Init
<1>6. {at[l] : l \in Leaf} = FirstPg + 1 .. end - 1 BY <1>1, <1>4, FirstLeaves
<1>7. at \in RootPage
  <2>1. \A l \in Leaf : at[l] \in PageNo BY <1>3, <1>4 DEF PageNo
  <2>2. at \in [Leaf -> PageNo] BY <1>4, <2>1
  <2> QED BY <2>2 DEF RootPage
<1>8. file \in [PageNo -> PageData]
  <2>1. \A p \in PageNo : (IF p = FirstPg THEN at ELSE v) \in PageData BY <1>7 DEF PageData
  <2> QED BY <1>4, <2>1 DEF PageNo
<1>9. FirstPg \in PageNo /\ file[FirstPg] = at
  <2>1. FirstPg \in FirstPg .. MaxPg - 1 BY <1>3
  <2> QED BY <1>4, <2>1 DEF PageNo
<1>10. PICK Q : Q = [i \in 1 .. k |-> {end + i - 1}] OBVIOUS
<1>11. meta.root = FirstPg /\ meta.next = end + k /\ meta.recs = Q BY <1>5, <1>10
<1>12. \A i \in 1 .. k : end + i - 1 \in PageNo BY <1>3 DEF PageNo
<1>13. Q \in Seq(SUBSET PageNo) /\ DOMAIN Q = 1 .. k
  <2>1. \A i \in 1 .. k : {end + i - 1} \in SUBSET PageNo BY <1>12
  <2>2. Q \in [1 .. k -> SUBSET PageNo] BY <1>10, <2>1
  <2> QED BY <1>10, <2>2, SeqDef
<1>14. MetaOK
  <2>1. meta \in [root : PageNo, next : Nat, recs : Seq(SUBSET PageNo)]
    BY <1>3, <1>5, <1>9, <1>10, <1>13
  <2>2. ASSUME NEW i \in 1 .. k, NEW j \in 1 .. k, i # j PROVE Q[i] \cap Q[j] = {}
    <3>1. Q[i] = {end + i - 1} /\ Q[j] = {end + j - 1} BY <1>10
    <3>2. end + i - 1 # end + j - 1 BY <1>3, <2>2
    <3> QED BY <3>1, <3>2
  <2> QED BY <1>11, <1>13, <2>1, <2>2 DEF MetaOK
<1>15. AllOf(Q) = end .. end + k - 1
  <2>1. AllOf(Q) = UNION {{end + i - 1} : i \in 1 .. k} BY <1>10, <1>13 DEF AllOf
  <2>2. ASSUME NEW x \in end .. end + k - 1 PROVE x \in UNION {{end + i - 1} : i \in 1 .. k}
    <3>1. x - end + 1 \in 1 .. k /\ end + (x - end + 1) - 1 = x BY <1>3
    <3> QED BY <3>1
  <2>3. ASSUME NEW i \in 1 .. k PROVE end + i - 1 \in end .. end + k - 1 BY <1>3
  <2> QED BY <2>1, <2>2, <2>3
<1>16. PICK T : T = {FirstPg} \cup {at[l] : l \in DOMAIN at} OBVIOUS
<1>17. T = FirstPg .. end - 1
  <2>1. DOMAIN at = Leaf BY <1>4
  <2> QED BY <1>3, <1>6, <1>16, <2>1
<1>18. T \cup AllOf(Q) = FirstPg .. end + k - 1 /\ T \cap AllOf(Q) = {} BY <1>3, <1>15, <1>17
<1>19. \A l \in DOMAIN at : at[l] # FirstPg BY <1>3, <1>4
<1>20. \A l, m \in DOMAIN at : at[l] = at[m] => l = m BY <1>4 DEF IsInjective
<1>21. PICK e : e = file OBVIOUS
<1>22. Rest(e)
  BY <1>3, <1>7, <1>8, <1>9, <1>11, <1>14, <1>16, <1>18, <1>19, <1>20, <1>21 DEF Rest
<1>23. MetaOK /\ Inv(e, <<>>, NoPages, <<>>) BY <1>22, RestInv
<1>24. txns = <<>> /\ pg = NoPages /\ cursors = <<>> BY DEF Init
<1> QED BY <1>21, <1>23, <1>24 DEF NInv

LEMMA NextStep == NInv /\ FewStaleCopies /\ [Next]_vars => NInv'
<1> SUFFICES ASSUME NInv, FewStaleCopies, [Next]_vars PROVE NInv' OBVIOUS
<1>1. CASE Begin BY <1>1, BeginStep
<1>2. CASE BeginNested BY <1>2, BeginNestedStep
<1>3. CASE CommitNested BY <1>3, CommitNestedStep
<1>4. CASE MergeAborts BY <1>4, MergeAbortsStep
<1>5. CASE Commit BY <1>5, CommitStep
<1>6. ASSUME NEW k \in 1 .. MaxDepth, Abort(k) \/ CommitFails(k) PROVE NInv'
  BY <1>6, AbortStep, CommitFailsStep
<1>7. ASSUME NEW l \in Leaf, NEW v \in Value, Put(l, v) PROVE NInv' BY <1>7, PutStep
<1>8. ASSUME NEW l \in Leaf, NEW m \in Leaf, DelMerges(l, m) PROVE NInv' BY <1>8, DelMergesStep
<1>9. ASSUME NEW l \in Leaf, NEW m \in Leaf, NEW v \in Value, PutSplits(m, l, v) PROVE NInv'
  BY <1>9, PutSplitsStep
<1>10. ASSUME NEW c \in Cursor, NEW l \in Leaf, CursorOpen(c, l) \/ CursorMove(c, l) PROVE NInv'
  BY <1>10, CursorOpenStep, CursorMoveStep
<1>11. ASSUME NEW c \in Cursor, NEW v \in Value, CursorPut(c, v) PROVE NInv' BY <1>11, CursorPutStep
<1>12. CASE UNCHANGED vars
  <2>1. PICK f, s, g, c : f = file /\ s = txns /\ g = pg /\ c = cursors OBVIOUS
  <2>2. Inv(f, s, g, c) /\ MetaOK BY <2>1 DEF NInv
  <2>3. file' = f /\ txns' = s /\ pg' = g /\ cursors' = c /\ meta' = meta BY <1>12, <2>1 DEF vars
  <2> QED BY <2>2, <2>3, SameMeta
<1> QED BY <1>1, <1>2, <1>3, <1>4, <1>5, <1>6, <1>7, <1>8, <1>9, <1>10, <1>11, <1>12 DEF Next

\* Every transaction of the stack is in order, within the bound FewStaleCopies.
THEOREM NestedInvariant == Spec /\ []FewStaleCopies => []NInv
<1>1. Init => NInv BY InitStep
<1>2. NInv /\ FewStaleCopies /\ [Next]_vars => NInv' BY NextStep
<1> QED BY <1>1, <1>2, PTL DEF Spec

-----------------------------------------------------------------------------
(* What follows from it.                                                    *)

\* A part of the stack, with what the allocator will be there.
LEMMA StackOf ==
  ASSUME NInv, NEW s \in Stacks
  PROVE  /\ Len(s) \in 0 .. Len(txns) /\ s = SubSeq(txns, 1, Len(s)) /\ s \in Seq(TxnRec)
         /\ PgState(Len(s)) \in PgRec /\ Level(file, s, PgState(Len(s)))
<1>1. txns \in Seq(TxnRec) /\ pg \in PgRec /\ Stack(file, txns, pg) BY DEF NInv, Inv, Types
<1>2. PICK k \in 0 .. Len(txns) : s = SubSeq(txns, 1, k) BY DEF Stacks, Here
<1>3. s \in Seq(TxnRec) /\ Len(s) = k BY <1>1, <1>2, Lower
<1>4. Level(file, s, PgAt(txns, pg, k)) BY <1>1, <1>2 DEF Stack
<1>5. PgState(k) = PgAt(txns, pg, k)
  <2>1. CASE k = 0
    <3>1. s = <<>> BY <1>3, <2>1
    <3>2. PgAt(txns, pg, k) = NoPages BY <1>4, <3>1 DEF Level, Bottom
    <3> QED BY <2>1, <3>2 DEF PgState
  <2>2. CASE k # 0 BY <2>2 DEF PgState, PgAt, Here
  <2> QED BY <2>1, <2>2
<1>6. PgState(k) \in PgRec
  <2>1. CASE k = 0
    <3>1. NoPages \in PgRec BY DEF NoPages, PgRec
    <3> QED BY <2>1, <3>1 DEF PgState
  <2>2. CASE k # 0 /\ k = Len(txns) BY <1>1, <2>2 DEF PgState, Here
  <2>3. CASE k # 0 /\ k # Len(txns)
    <3>1. k + 1 \in 1 .. Len(txns) BY <1>1, <2>3
    <3>2. txns[k + 1] \in TxnRec BY <1>1, <3>1
    <3> QED BY <2>3, <3>2 DEF PgState, Here, TxnRec
  <2> QED BY <2>1, <2>2, <2>3
<1> QED BY <1>2, <1>3, <1>4, <1>5, <1>6

LEMMA TreeIs ==
  ASSUME NEW s
  PROVE  Tree(s) = TreeOf(file, s)
<1>1. PICK r : r = Page(file, s, Root(s)) OBVIOUS
<1>2. Tree(s) = {Root(s)} \cup Range(r) BY <1>1 DEF Tree
<1>3. Range(r) = {r[l] : l \in DOMAIN r} BY DEF Range
<1> QED BY <1>1, <1>2, <1>3 DEF TreeOf, Rt

\* The pages of one level, as one sequence of sets.
LEMMA ListsOnce ==
  ASSUME MetaOK, NEW s \in Seq(TxnRec), NEW g \in PgRec, Level(file, s, g), NEW Q,
         Q = << Tree(s), g.head >> \o [i \in DOMAIN s |-> s[i].free] \o
             SubSeq(meta.recs, g.last + 1, Len(meta.recs))
  PROVE  EachOnce(Q) /\ AllOf(Q) = FirstPg .. NextPg(s) - 1
<1>1. /\ TreeOf(file, s) \cup g.head \cup Gone(s) \cup Unread(g) = FirstPg .. NextPg(s) - 1
      /\ TreeOf(file, s) \cap (g.head \cup Gone(s) \cup Unread(g)) = {}
      /\ g.head \cap (Gone(s) \cup Unread(g)) = {}
      /\ Gone(s) \cap Unread(g) = {}
      /\ FreedApart(s) /\ g.last <= Len(meta.recs)
  BY DEF Level, PartOK, AllocOK
<1>2. PICK T, H : T = Tree(s) /\ H = g.head OBVIOUS
<1>3. T = TreeOf(file, s) BY <1>2, TreeIs
<1>4. T \in SUBSET PageNo /\ H \in SUBSET PageNo
  <2>1. TreeOf(file, s) \subseteq PageNo BY TreePages
  <2> QED BY <1>2, <1>3, <2>1 DEF PgRec
<1>5. PICK A : A = <<T, H>> OBVIOUS
<1>6. PICK B : B = [i \in DOMAIN s |-> s[i].free] OBVIOUS
<1>7. PICK C : C = SubSeq(meta.recs, g.last + 1, Len(meta.recs)) OBVIOUS
<1>8. A \in Seq(SUBSET PageNo) /\ AllOf(A) = T \cup H /\ EachOnce(A)
  <2>1. A \in Seq(SUBSET PageNo) /\ DOMAIN A = {1, 2} /\ A[1] = T /\ A[2] = H BY <1>4, <1>5
  <2>2. T \cap H = {} BY <1>1, <1>2, <1>3
  <2> QED BY <2>1, <2>2 DEF AllOf, EachOnce
<1>9. B \in Seq(SUBSET PageNo) /\ AllOf(B) = Gone(s) /\ EachOnce(B)
  <2>1. DOMAIN s = 1 .. Len(s) /\ Len(s) \in Nat OBVIOUS
  <2>2. ASSUME NEW i \in DOMAIN s PROVE s[i].free \in SUBSET PageNo
    <3>1. s[i] \in TxnRec OBVIOUS
    <3> QED BY <3>1 DEF TxnRec
  <2>3. B \in [1 .. Len(s) -> SUBSET PageNo] BY <1>6, <2>1, <2>2
  <2>4. B \in Seq(SUBSET PageNo)
    <3>1. PICK P : P = SUBSET PageNo OBVIOUS
    <3>2. \A k \in Nat : \A x \in [1 .. k -> P] : x \in Seq(P) OBVIOUS
    <3> QED BY <2>1, <2>3, <3>1, <3>2
  <2>5. DOMAIN B = DOMAIN s /\ \A i \in DOMAIN s : B[i] = s[i].free BY <1>6
  <2>6. AllOf(B) = Gone(s) BY <2>5 DEF AllOf, Gone
  <2>7. EachOnce(B) BY <1>1, <2>5 DEF EachOnce, FreedApart
  <2> QED BY <2>4, <2>6, <2>7
<1>10. C \in Seq(SUBSET PageNo) /\ AllOf(C) = Unread(g) /\ EachOnce(C) BY <1>1, <1>7, UnreadOnce
<1>11. PICK D : D = A \o B OBVIOUS
<1>12. D \in Seq(SUBSET PageNo) /\ EachOnce(D) /\ AllOf(D) = T \cup H \cup Gone(s)
  <2>1. AllOf(A) \cap AllOf(B) = {} BY <1>1, <1>2, <1>3, <1>8, <1>9
  <2>2. /\ A \o B \in Seq(SUBSET PageNo) /\ AllOf(A \o B) = AllOf(A) \cup AllOf(B)
        /\ EachOnce(A) /\ EachOnce(B) /\ AllOf(A) \cap AllOf(B) = {} => EachOnce(A \o B)
    BY <1>8, <1>9, ConcatOnce
  <2> QED BY <1>8, <1>9, <1>11, <2>1, <2>2
<1>13. EachOnce(D \o C) /\ AllOf(D \o C) = T \cup H \cup Gone(s) \cup Unread(g)
  <2>1. AllOf(D) \cap AllOf(C) = {} BY <1>1, <1>2, <1>3, <1>10, <1>12
  <2>2. /\ D \o C \in Seq(SUBSET PageNo) /\ AllOf(D \o C) = AllOf(D) \cup AllOf(C)
        /\ EachOnce(D) /\ EachOnce(C) /\ AllOf(D) \cap AllOf(C) = {} => EachOnce(D \o C)
    BY <1>10, <1>12, ConcatOnce
  <2> QED BY <1>10, <1>12, <2>1, <2>2
<1>14. Q = D \o C BY <1>2, <1>5, <1>6, <1>7, <1>11
<1> QED BY <1>1, <1>2, <1>3, <1>13, <1>14

LEMMA PagesHold == NInv => PagesAtEveryLevel
<1> SUFFICES ASSUME NInv PROVE PagesAtEveryLevel OBVIOUS
<1> SUFFICES ASSUME NEW s \in Stacks, NEW g, g = PgState(Len(s)), NEW lists,
                    lists = << Tree(s), g.head >> \o [i \in DOMAIN s |-> s[i].free] \o
                            SubSeq(meta.recs, g.last + 1, Len(meta.recs))
             PROVE  /\ UNION ToSet(lists) = FirstPg .. NextPg(s) - 1
                    /\ \A i, j \in DOMAIN lists : i # j => lists[i] \cap lists[j] = {}
  BY DEF PagesAtEveryLevel
<1>1. s \in Seq(TxnRec) /\ g \in PgRec /\ Level(file, s, g) BY StackOf
<1>2. EachOnce(lists) /\ AllOf(lists) = FirstPg .. NextPg(s) - 1 BY <1>1, ListsOnce DEF NInv
<1>3. UNION ToSet(lists) = AllOf(lists) BY DEF ToSet, AllOf
<1> QED BY <1>2, <1>3 DEF EachOnce

LEMMA RoomHolds == NInv => RoomRight
<1> SUFFICES ASSUME NInv, NEW s \in Stacks, s # <<>>
             PROVE  Last(s).room >= 0 /\ Last(s).room = UmMax - Cardinality(Visible(s))
  BY DEF RoomRight
<1>1. s \in Seq(TxnRec) /\ Level(file, s, PgState(Len(s))) BY StackOf
<1>2. Last(s) \in TxnRec BY <1>1, Popped
<1> QED BY <1>1, <1>2 DEF Level, RoomOK, TxnRec

LEMMA CursorsHold == NInv => CursorsCurrent
<1> SUFFICES ASSUME NInv, NEW c \in DOMAIN cursors
             PROVE  /\ cursors[c].path = PathTo(file, txns, cursors[c].leaf)
                    /\ \A i \in DOMAIN cursors[c].backup :
                         cursors[c].backup[i] =
                           PathTo(file, SubSeq(txns, 1, cursors[c].own + i - 1), cursors[c].leaf)
  BY DEF CursorsCurrent
<1>1. /\ txns \in Seq(TxnRec) /\ cursors \in CursorTable /\ txns # <<>>
      /\ CursTop(file, txns, cursors) /\ CursLow(file, Front(txns), cursors)
  BY DEF NInv, Inv, Types
<1>2. cursors[c].path = PathTo(file, txns, cursors[c].leaf) BY <1>1 DEF CursTop
<1>3. PICK r \in Seq(TxnRec), t \in TxnRec : r = Front(txns) /\ txns = Push(r, t) BY <1>1, Popped
<1>4. PICK o, b, l : o = cursors[c].own /\ b = cursors[c].backup /\ l = cursors[c].leaf OBVIOUS
<1>5. /\ o \in 1 .. Len(r) + 1 /\ Len(b) = Len(r) + 1 - o
      /\ \A k \in o .. Len(r) : b[k - o + 1] = PathTo(file, SubSeq(r, 1, k), l)
  BY <1>1, <1>3, <1>4 DEF CursLow
<1>6. b \in Seq(PathRec)
  <2>1. cursors[c] \in CursorRec BY <1>1, CursorTypes
  <2> QED BY <1>4, <2>1 DEF CursorRec
<1>7. ASSUME NEW i \in DOMAIN b PROVE b[i] = PathTo(file, SubSeq(txns, 1, o + i - 1), l)
  <2>1. Len(r) \in Nat /\ i \in 1 .. Len(b) BY <1>6
  <2>2. o + i - 1 \in o .. Len(r) /\ o + i - 1 \in 0 .. Len(r) /\ o + i - 1 - o + 1 = i BY <1>5, <2>1
  <2>3. \A k \in 0 .. Len(r) : SubSeq(Push(r, t), 1, k) = SubSeq(r, 1, k) BY Pushed
  <2>4. PICK k : k = o + i - 1 OBVIOUS
  <2>5. b[k - o + 1] = PathTo(file, SubSeq(r, 1, k), l) BY <1>5, <2>2, <2>4
  <2>6. SubSeq(txns, 1, k) = SubSeq(r, 1, k) BY <1>3, <2>2, <2>3, <2>4
  <2>7. k - o + 1 = i
    <3>1. o \in Int /\ i \in Int BY <1>5, <2>1
    <3> QED BY <2>4, <3>1
  <2>8. SubSeq(txns, 1, o + i - 1) = SubSeq(txns, 1, k) BY <2>4
  <2> QED BY <2>5, <2>6, <2>7, <2>8
<1> QED BY <1>2, <1>4, <1>7

\* Within the bound FewStaleCopies, every transaction of the stack has every page
\* in exactly one place.
THEOREM PagesAlwaysPlaced == Spec /\ []FewStaleCopies => []PagesAtEveryLevel
BY NestedInvariant, PagesHold, PTL

\* The nested transactions have none of their own.
Shallow == Here <= 2
LEMMA ShallowBound == NInv /\ Shallow => FewStaleCopies
<1> SUFFICES ASSUME NInv, Here <= 2 PROVE FewStaleCopies BY DEF Shallow
<1>1. Here \in Nat BY DEF NInv, Inv, Types, Here
<1>2. ~(Here > 2) BY <1>1
<1> QED BY <1>2 DEF FewStaleCopies

\* While that is so each transaction knows the room in its dirty list, without the
\* bound.  (Deeper down it does not: see README.)
THEOREM RoomOfTwo == Spec /\ []Shallow => []RoomRight
<1>1. Init => NInv BY InitStep
<1>2. NInv /\ Shallow /\ [Next]_vars => NInv' BY NextStep, ShallowBound
<1> QED BY <1>1, <1>2, RoomHolds, PTL DEF Spec

\* Within the bound FewStaleCopies, every cursor, and every copy an abort would restore, is where its
\* pages are.
THEOREM CursorsAlwaysCurrent == Spec /\ []FewStaleCopies => []CursorsCurrent
BY NestedInvariant, CursorsHold, PTL
-----------------------------------------------------------------------------
(* NestedTxn implements DraftStack.                                         *)

\* What the transactions of a stack see, each in turn, and what is committed.
View == UNION {[D -> Value] : D \in SUBSET Leaf}
HeldAt(f, p, s) == [l \in DOMAIN Page(f, s, p) |-> Page(f, s, Page(f, s, p)[l])]
Top(f, s)   == HeldAt(f, Last(s).root, s)
Views(f, s) == [k \in 1 .. Len(s) |-> Top(f, SubSeq(s, 1, k))]
Base(f, m)  == HeldAt(f, m.root, <<>>)

\* The same as items.
ItemsOf(H) == {<<l, H[l]>> : l \in DOMAIN H}
Itemised(V) == [k \in 1 .. Len(V) |-> ItemsOf(V[k])]

HInv == Base(file, meta) \in View /\ Views(file, txns) \in Seq(View)

\* A step of DraftStack.
Drafted(b, c, V, W) ==
  /\ Drafts!Step(ItemsOf(b), ItemsOf(c), Itemised(V), Itemised(W))
  /\ c \in View /\ W \in Seq(View)


LEMMA ReadIs ==
  ASSUME NEW s, NEW p, Root(s) = p
  PROVE  Read(s) = ItemsOf(HeldAt(file, p, s))
<1>1. PICK r : r = Page(file, s, p) OBVIOUS
<1>2. Read(s) = Items(s, r) BY <1>1 DEF Read
<1>3. HeldAt(file, p, s) = [l \in DOMAIN r |-> Page(file, s, r[l])] BY <1>1 DEF HeldAt
<1>4. Items(s, r) = {<<l, Page(file, s, r[l])>> : l \in DOMAIN r} BY DEF Items
<1> QED BY <1>2, <1>3, <1>4 DEF ItemsOf

LEMMA ReadsAre ==
  txns \in Seq(TxnRec) =>
    /\ Read(<<>>) = ItemsOf(Base(file, meta))
    /\ SubSeq(Reads, 1, Here) = Itemised(Views(file, txns))
<1> SUFFICES ASSUME txns \in Seq(TxnRec)
             PROVE  /\ Read(<<>>) = ItemsOf(Base(file, meta))
                    /\ SubSeq(Reads, 1, Here) = Itemised(Views(file, txns))
  OBVIOUS
<1>1. Read(<<>>) = ItemsOf(Base(file, meta))
  <2>1. PICK e : e = <<>> OBVIOUS
  <2>2. Root(e) = meta.root BY <2>1 DEF Root
  <2>3. Read(e) = ItemsOf(HeldAt(file, meta.root, e)) BY <2>2, ReadIs
  <2> QED BY <2>1, <2>3 DEF Base
<1>2. PICK n \in Nat : n = Len(txns) /\ DOMAIN txns = 1 .. n OBVIOUS
<1>3. ASSUME NEW k \in 1 .. n
      PROVE  Reads[k] = ItemsOf(Top(file, SubSeq(txns, 1, k)))
  <2>1. PICK s : s = SubSeq(txns, 1, k) OBVIOUS
  <2>2. s # <<>> BY <1>2, <2>1, Lower
  <2>3. Root(s) = Last(s).root BY <2>2 DEF Root
  <2>4. Read(s) = ItemsOf(HeldAt(file, Last(s).root, s)) BY <2>3, ReadIs
  <2>5. Reads[k] = UNION {Read(x) : x \in {SubSeq(txns, 1, k)}} BY <1>2 DEF Reads
  <2> QED BY <2>1, <2>4, <2>5 DEF Top
<1>4. SubSeq(Reads, 1, n) = [k \in 1 .. n |-> Reads[k]]
  BY DEF Reads
<1>5. Itemised(Views(file, txns)) = [k \in 1 .. n |-> ItemsOf(Top(file, SubSeq(txns, 1, k)))]
  <2>1. PICK V : V = Views(file, txns) OBVIOUS
  <2>2. DOMAIN V = 1 .. n /\ \A k \in 1 .. n : V[k] = Top(file, SubSeq(txns, 1, k)) BY <1>2, <2>1 DEF Views
  <2>3. Len(V) = n BY <1>2, <2>2
  <2> QED BY <2>1, <2>2, <2>3 DEF Itemised
<1>6. SubSeq(Reads, 1, Here) = Itemised(Views(file, txns)) BY <1>2, <1>3, <1>4, <1>5 DEF Here
<1> QED BY <1>1, <1>6

LEMMA ReadsAreNext ==
  (txns \in Seq(TxnRec) =>
    /\ Read(<<>>) = ItemsOf(Base(file, meta))
    /\ SubSeq(Reads, 1, Here) = Itemised(Views(file, txns)))'
BY ReadsAre, PTL

LEMMA DraftNext ==
  ASSUME txns \in Seq(TxnRec), txns' \in Seq(TxnRec),
         Drafted(Base(file, meta), Base(file', meta'), Views(file, txns), Views(file', txns'))
  PROVE  Drafts!Next
<1>1. /\ Read(<<>>) = ItemsOf(Base(file, meta))
      /\ SubSeq(Reads, 1, Here) = Itemised(Views(file, txns))
  BY ReadsAre
<1>2. /\ Read(<<>>)' = ItemsOf(Base(file', meta'))
      /\ SubSeq(Reads, 1, Here)' = Itemised(Views(file', txns'))
  BY ReadsAreNext
<1>3. Drafts!Step(Read(<<>>), Read(<<>>)', SubSeq(Reads, 1, Here), SubSeq(Reads, 1, Here)')
  BY <1>1, <1>2 DEF Drafted
<1> QED BY <1>3 DEF Drafts!Next

-----------------------------------------------------------------------------
(* The steps of DraftStack, on what is seen.                                *)

Item == Leaf \X Value

LEMMA MapItems ==
  ASSUME NEW H \in View
  PROVE  /\ ItemsOf(H) \in SUBSET Item /\ Drafts!IsMap(ItemsOf(H))
         /\ DOMAIN H \subseteq Leaf /\ \A l \in DOMAIN H : H[l] \in Value
<1>1. PICK D \in SUBSET Leaf : H \in [D -> Value] BY DEF View
<1>2. DOMAIN H \subseteq Leaf /\ \A l \in DOMAIN H : H[l] \in Value BY <1>1
<1>3. ItemsOf(H) \in SUBSET Item BY <1>2 DEF ItemsOf, Item
<1>4. ASSUME NEW i \in ItemsOf(H), NEW j \in ItemsOf(H), i[1] = j[1] PROVE i = j
  <2>1. PICK l \in DOMAIN H : i = <<l, H[l]>> BY DEF ItemsOf
  <2>2. PICK m \in DOMAIN H : j = <<m, H[m]>> BY DEF ItemsOf
  <2> QED BY <1>4, <2>1, <2>2
<1>5. Drafts!IsMap(ItemsOf(H)) BY <1>3, <1>4 DEF Drafts!IsMap, Item
<1> QED BY <1>2, <1>3, <1>5

LEMMA ItemisedIs ==
  ASSUME NEW V \in Seq(View)
  PROVE  /\ Itemised(V) \in Seq(SUBSET Item) /\ Len(Itemised(V)) = Len(V) /\ Len(V) \in Nat
         /\ \A k \in 1 .. Len(V) : Itemised(V)[k] = ItemsOf(V[k]) /\ V[k] \in View
         /\ Itemised(V) = <<>> <=> V = <<>>
<1>1. Len(V) \in Nat /\ \A k \in 1 .. Len(V) : V[k] \in View OBVIOUS
<1>2. PICK n \in Nat : n = Len(V) BY <1>1
<1>3. PICK T : T = SUBSET Item OBVIOUS
<1>4. \A k \in 1 .. n : ItemsOf(V[k]) \in T BY <1>1, <1>2, <1>3, MapItems
<1>5. PICK I : I = Itemised(V) OBVIOUS
<1>6. I = [k \in 1 .. n |-> ItemsOf(V[k])] BY <1>2, <1>5 DEF Itemised
<1>7. I \in [1 .. n -> T] BY <1>4, <1>6
<1>8. I \in Seq(T) /\ Len(I) = n
  <2>1. \A i \in Nat : \A x \in [1 .. i -> T] : x \in Seq(T) OBVIOUS
  <2>2. I \in Seq(T) BY <1>7, <2>1
  <2>3. DOMAIN I = 1 .. n BY <1>7
  <2> QED BY <1>2, <2>2, <2>3
<1>9. \A k \in 1 .. n : I[k] = ItemsOf(V[k]) BY <1>6
<1>10. I = <<>> <=> V = <<>> BY <1>2, <1>8
<1> QED BY <1>1, <1>2, <1>3, <1>5, <1>8, <1>9, <1>10

LEMMA ItemisedAppend ==
  ASSUME NEW V \in Seq(View), NEW v \in View
  PROVE  /\ Itemised(Append(V, v)) = Append(Itemised(V), ItemsOf(v))
         /\ Append(V, v) \in Seq(View) /\ Itemised(Append(V, v)) \in Seq(SUBSET Item)
<1>1. PICK W \in Seq(View) : W = Append(V, v)
  <2>1. Append(V, v) \in Seq(View) OBVIOUS
  <2> QED BY <2>1
<1>2. PICK n \in Nat : n = Len(V) OBVIOUS
<1>3. Len(W) = n + 1 /\ W[n + 1] = v /\ \A k \in 1 .. n : W[k] = V[k] BY <1>1, <1>2
<1>4. PICK I, J, a : I = Itemised(V) /\ J = Itemised(W) /\ a = ItemsOf(v) OBVIOUS
<1>5. I \in Seq(SUBSET Item) /\ Len(I) = n /\ \A k \in 1 .. n : I[k] = ItemsOf(V[k])
  BY <1>2, <1>4, ItemisedIs
<1>6. J \in Seq(SUBSET Item) /\ Len(J) = n + 1 /\ \A k \in 1 .. n + 1 : J[k] = ItemsOf(W[k])
  BY <1>3, <1>4, ItemisedIs
<1>7. a \in SUBSET Item BY <1>4, MapItems
<1>8. \A k \in 1 .. n : k \in 1 .. n + 1 OBVIOUS
<1>9. (\A k \in 1 .. n : J[k] = I[k]) /\ J[n + 1] = a BY <1>3, <1>4, <1>5, <1>6, <1>8
<1>10. J = Append(I, a)
  <2>1. PICK K : K = Append(I, a) OBVIOUS
  <2>2. K \in Seq(SUBSET Item) /\ Len(K) = n + 1 /\ K[n + 1] = a /\ \A k \in 1 .. n : K[k] = I[k]
    BY <1>5, <1>7, <2>1
  <2>3. \A k \in 1 .. n + 1 : k \in 1 .. n \/ k = n + 1 OBVIOUS
  <2>4. \A k \in 1 .. n + 1 : K[k] = J[k] BY <1>9, <2>2, <2>3
  <2> QED BY <1>6, <2>1, <2>2, <2>4
<1> QED BY <1>1, <1>4, <1>6, <1>10

\* The last of a sequence and the others.
LEMMA Ends ==
  ASSUME NEW S, NEW X \in Seq(S), NEW x \in S
  PROVE  /\ Append(X, x) \in Seq(S) /\ Append(X, x) # <<>> /\ Len(Append(X, x)) = Len(X) + 1
         /\ Last(Append(X, x)) = x /\ Front(Append(X, x)) = X
<1>1. PICK Y \in Seq(S) : Y = Append(X, x)
  <2>1. Append(X, x) \in Seq(S) OBVIOUS
  <2> QED BY <2>1
<1>2. Len(X) \in Nat /\ Len(Y) = Len(X) + 1 /\ Y[Len(Y)] = x /\ Y # <<>> BY <1>1
<1>3. Front(Y) = X
  <2>1. PICK n \in Nat : n = Len(X) /\ Len(Y) - 1 = n BY <1>2
  <2>2. Front(Y) = SubSeq(Y, 1, n) BY <2>1 DEF Front
  <2>3. SubSeq(Y, 1, n) = SubSeq(X, 1, n) BY <1>1, <2>1
  <2>4. SubSeq(X, 1, n) = X BY <2>1, SubSeqFull
  <2> QED BY <2>2, <2>3, <2>4
<1> QED BY <1>1, <1>2, <1>3 DEF Last

LEMMA DraftEnds ==
  ASSUME NEW X
  PROVE  Drafts!Last(X) = Last(X) /\ Drafts!Front(X) = Front(X)
BY DEF Drafts!Last, Drafts!Front, Last, Front

LEMMA Begins ==
  ASSUME NEW b \in View, NEW V \in Seq(View), NEW v \in View,
         v = IF V = <<>> THEN b ELSE Last(V)
  PROVE  Drafted(b, b, V, Append(V, v))
<1>1. PICK I, a, d : I = Itemised(V) /\ a = ItemsOf(b) /\ d = ItemsOf(v) OBVIOUS
<1>2. Itemised(Append(V, v)) = Append(I, d) /\ Append(V, v) \in Seq(View) BY <1>1, ItemisedAppend
<1>3. d = IF I = <<>> THEN a ELSE Last(I)
  <2>1. V = <<>> <=> I = <<>> BY <1>1, ItemisedIs
  <2>2. CASE V = <<>> BY <1>1, <2>1, <2>2
  <2>3. CASE V # <<>>
    <3>1. Len(V) \in 1 .. Len(V) BY <2>3
    <3>2. I[Len(I)] = ItemsOf(V[Len(V)]) BY <1>1, <3>1, ItemisedIs
    <3>3. v = V[Len(V)] BY <2>3 DEF Last
    <3> QED BY <1>1, <2>1, <2>3, <3>2, <3>3 DEF Last
  <2> QED BY <2>2, <2>3
<1>4. Drafts!Begin(a, a, I, Append(I, d)) BY <1>3, DraftEnds DEF Drafts!Begin
<1> QED BY <1>1, <1>2, <1>4 DEF Drafted, Drafts!Step

LEMMA WritesOne ==
  ASSUME NEW b \in View, NEW X \in Seq(View), NEW v \in View, NEW w \in View, NEW l,
         DOMAIN w \ {l} = DOMAIN v \ {l}, \A m \in DOMAIN w \ {l} : w[m] = v[m]
  PROVE  Drafted(b, b, Append(X, v), Append(X, w))
<1>1. PICK I \in Seq(SUBSET Item) : I = Itemised(X) BY ItemisedIs
<1>2. PICK c \in SUBSET Item, d \in SUBSET Item : c = ItemsOf(v) /\ d = ItemsOf(w) BY MapItems
<1>3. PICK a : a = ItemsOf(b) OBVIOUS
<1>4. /\ Itemised(Append(X, v)) = Append(I, c) /\ Itemised(Append(X, w)) = Append(I, d)
      /\ Append(X, w) \in Seq(View)
  BY <1>1, <1>2, ItemisedAppend
<1>5. Drafts!IsMap(d) BY <1>2, MapItems
<1>6. \A i \in (d \ c) \cup (c \ d) : i[1] = l
  <2>1. ASSUME NEW i \in d \ c PROVE i[1] = l
    <3>1. PICK m \in DOMAIN w : i = <<m, w[m]>> BY <1>2 DEF ItemsOf
    <3>2. m # l => m \in DOMAIN v /\ v[m] = w[m] OBVIOUS
    <3> QED BY <1>2, <2>1, <3>1, <3>2 DEF ItemsOf
  <2>2. ASSUME NEW i \in c \ d PROVE i[1] = l
    <3>1. PICK m \in DOMAIN v : i = <<m, v[m]>> BY <1>2 DEF ItemsOf
    <3>2. m # l => m \in DOMAIN w /\ v[m] = w[m] OBVIOUS
    <3> QED BY <1>2, <2>2, <3>1, <3>2 DEF ItemsOf
  <2> QED BY <2>1, <2>2
<1>7. \A i, j \in (d \ c) \cup (c \ d) : i[1] = j[1] BY <1>6
<1>8. PICK Y, Z : Y = Append(I, c) /\ Z = Append(I, d) OBVIOUS
<1>9. /\ Y # <<>> /\ Len(Z) = Len(Y) /\ Front(Z) = Front(Y) /\ Last(Y) = c /\ Last(Z) = d
  BY <1>1, <1>2, <1>8, Ends
<1>10. Drafts!Write(a, a, Y, Z) BY <1>5, <1>7, <1>9, DraftEnds DEF Drafts!Write
<1> QED BY <1>3, <1>4, <1>8, <1>10 DEF Drafted, Drafts!Step

LEMMA CommitsOne ==
  ASSUME NEW b, NEW v \in View
  PROVE  Drafted(b, v, Append(<<>>, v), <<>>)
<1>1. PICK X \in Seq(View) : X = <<>>
  <2>1. <<>> \in Seq(View) OBVIOUS
  <2> QED BY <2>1
<1>2. PICK I \in Seq(SUBSET Item) : I = Itemised(X) /\ I = <<>> BY <1>1, ItemisedIs
<1>3. PICK c \in SUBSET Item : c = ItemsOf(v) BY MapItems
<1>4. PICK Y : Y = Append(I, c) /\ Itemised(Append(X, v)) = Y BY <1>2, <1>3, ItemisedAppend
<1>5. Len(Y) = 1 /\ Last(Y) = c
  <2>1. Len(I) = 0 BY <1>2
  <2>2. Len(Append(I, c)) = Len(I) + 1 /\ Last(Append(I, c)) = c BY Ends
  <2> QED BY <1>2, <1>4, <2>1, <2>2
<1>6. Drafts!Keep(ItemsOf(b), c, Y, I) BY <1>2, <1>5, DraftEnds DEF Drafts!Keep
<1> QED BY <1>1, <1>2, <1>3, <1>4, <1>6 DEF Drafted, Drafts!Step

LEMMA CommitsNested ==
  ASSUME NEW b \in View, NEW X \in Seq(View), NEW p \in View, NEW v \in View
  PROVE  Drafted(b, b, Append(Append(X, p), v), Append(X, v))
<1>1. PICK I \in Seq(SUBSET Item) : I = Itemised(X) BY ItemisedIs
<1>2. PICK c \in SUBSET Item, d \in SUBSET Item : c = ItemsOf(p) /\ d = ItemsOf(v) BY MapItems
<1>3. PICK P \in Seq(View) : P = Append(X, p)
  <2>1. Append(X, p) \in Seq(View) OBVIOUS
  <2> QED BY <2>1
<1>4. PICK J \in Seq(SUBSET Item) : J = Append(I, c) /\ Itemised(P) = J
  BY <1>1, <1>2, <1>3, ItemisedAppend
<1>5. PICK Y, Z : Y = Append(J, d) /\ Z = Append(I, d) OBVIOUS
<1>6. Itemised(Append(P, v)) = Y /\ Itemised(Append(X, v)) = Z /\ Append(X, v) \in Seq(View)
  BY <1>1, <1>2, <1>4, <1>5, ItemisedAppend
<1>7. Len(Y) > 1
  <2>1. Len(Y) = Len(I) + 2 /\ Len(I) \in Nat BY <1>4, <1>5
  <2> QED BY <2>1
<1>8. Front(Front(Y)) = I /\ Last(Y) = d
  <2>1. Front(Append(I, c)) = I BY Ends
  <2>2. Front(Append(J, d)) = J /\ Last(Append(J, d)) = d BY Ends
  <2> QED BY <1>4, <1>5, <2>1, <2>2
<1>9. Drafts!Keep(ItemsOf(b), ItemsOf(b), Y, Z) BY <1>5, <1>7, <1>8, DraftEnds DEF Drafts!Keep
<1> QED BY <1>3, <1>6, <1>9 DEF Drafted, Drafts!Step

LEMMA Discards ==
  ASSUME NEW b \in View, NEW V \in Seq(View), NEW k \in 0 .. Len(V), k # Len(V)
  PROVE  Drafted(b, b, V, SubSeq(V, 1, k))
<1>1. PICK n \in Nat : n = Len(V) OBVIOUS
<1>2. k \in Nat /\ k < n BY <1>1
<1>3. PICK W \in Seq(View) : W = SubSeq(V, 1, k) /\ Len(W) = k /\ \A i \in 1 .. k : W[i] = V[i]
  <2>1. PICK W : W = SubSeq(V, 1, k) OBVIOUS
  <2>2. W \in Seq(View) /\ Len(W) = k /\ \A i \in 1 .. k : W[i] = V[i]
    <3>1. W \in Seq(View) /\ Len(W) = (IF 1 <= k THEN k - 1 + 1 ELSE 0)
          /\ \A i \in 1 .. k - 1 + 1 : W[i] = V[1 + i - 1]
      BY <1>1, <1>2, <2>1, SubSeqProperties
    <3> QED BY <1>2, <3>1
  <2> QED BY <2>1, <2>2
<1>4. PICK I \in Seq(SUBSET Item) : I = Itemised(V) /\ Len(I) = n /\ \A i \in 1 .. n : I[i] = ItemsOf(V[i])
  BY <1>1, ItemisedIs
<1>5. PICK J \in Seq(SUBSET Item) : J = Itemised(W) /\ Len(J) = k /\ \A i \in 1 .. k : J[i] = ItemsOf(W[i])
  BY <1>3, ItemisedIs
<1>6. \A i \in 1 .. k : i \in 1 .. n /\ J[i] = I[i] BY <1>2, <1>3, <1>4, <1>5
<1>7. SubSeq(J, 1, k) = SubSeq(I, 1, k) BY <1>2, <1>4, <1>5, <1>6
<1>8. IsStrictPrefix(J, I) BY <1>2, <1>4, <1>5, <1>7 DEF IsStrictPrefix, IsPrefix
<1>9. Drafts!Discard(ItemsOf(b), ItemsOf(b), I, J) 
  BY <1>8 DEF Drafts!Discard, Drafts!IsStrictPrefix, Drafts!IsPrefix, IsStrictPrefix, IsPrefix
<1> QED BY <1>3, <1>4, <1>5, <1>9 DEF Drafted, Drafts!Step
-----------------------------------------------------------------------------
(* What a stack shows.                                                      *)

LEMMA HeldIs ==
  ASSUME NEW f, NEW s
  PROVE  Held(f, s) = HeldAt(f, Root(s), s)
BY DEF Held, HeldAt, Rt

LEMMA TopIs ==
  ASSUME NEW f, NEW s, s # <<>>
  PROVE  Top(f, s) = Held(f, s)
<1>1. Root(s) = Last(s).root BY DEF Root
<1> QED BY <1>1, HeldIs DEF Top

LEMMA BaseIs ==
  ASSUME NEW f
  PROVE  Base(f, meta) = Held(f, <<>>)
<1>1. PICK e : e = <<>> OBVIOUS
<1>2. Root(e) = meta.root BY <1>1 DEF Root
<1>3. Held(f, e) = HeldAt(f, meta.root, e) BY <1>2, HeldIs
<1> QED BY <1>1, <1>3 DEF Base

LEMMA ViewsAre ==
  ASSUME NEW f, NEW s \in Seq(TxnRec)
  PROVE  /\ Len(Views(f, s)) = Len(s) /\ Len(s) \in Nat
         /\ \A k \in 1 .. Len(s) : Views(f, s)[k] = Held(f, SubSeq(s, 1, k))
         /\ Views(f, s) \in Seq({Held(f, SubSeq(s, 1, k)) : k \in 1 .. Len(s)})
<1>1. PICK n \in Nat : n = Len(s) OBVIOUS
<1>2. PICK V : V = Views(f, s) OBVIOUS
<1>3. PICK T : T = {Held(f, SubSeq(s, 1, k)) : k \in 1 .. n} OBVIOUS
<1>4. V = [k \in 1 .. n |-> Top(f, SubSeq(s, 1, k))] BY <1>1, <1>2 DEF Views
<1>5. ASSUME NEW k \in 1 .. n PROVE V[k] = Held(f, SubSeq(s, 1, k))
  <2>1. k \in 0 .. Len(s) /\ k # 0 BY <1>1
  <2>2. SubSeq(s, 1, k) # <<>> BY <2>1, Lower
  <2>3. Top(f, SubSeq(s, 1, k)) = Held(f, SubSeq(s, 1, k)) BY <2>2, TopIs
  <2> QED BY <1>4, <2>3
<1>6. \A k \in 1 .. n : V[k] \in T BY <1>3, <1>5
<1>7. V \in [1 .. n -> T] BY <1>4, <1>6
<1>8. V \in Seq(T) /\ Len(V) = n
  <2>1. \A i \in Nat : \A x \in [1 .. i -> T] : x \in Seq(T) OBVIOUS
  <2>2. V \in Seq(T) BY <1>7, <2>1
  <2>3. DOMAIN V = 1 .. n BY <1>7
  <2> QED BY <2>2, <2>3
<1> QED BY <1>1, <1>2, <1>3, <1>5, <1>8

LEMMA ViewsSame ==
  ASSUME NEW f, NEW s \in Seq(TxnRec), NEW e, NEW z \in Seq(TxnRec), Len(z) = Len(s),
         \A k \in 1 .. Len(s) : Held(e, SubSeq(z, 1, k)) = Held(f, SubSeq(s, 1, k))
  PROVE  Views(e, z) = Views(f, s)
<1>1. PICK n \in Nat : n = Len(s) OBVIOUS
<1>2. PICK V, W : V = Views(f, s) /\ W = Views(e, z) OBVIOUS
<1>3. \A k \in 1 .. n : W[k] = V[k] BY <1>1, <1>2, ViewsAre
<1>4. V = [k \in 1 .. n |-> V[k]] BY <1>1, <1>2 DEF Views
<1>5. W = [k \in 1 .. n |-> W[k]] BY <1>1, <1>2 DEF Views
<1> QED BY <1>2, <1>3, <1>4, <1>5

LEMMA ViewsNone ==
  ASSUME NEW f
  PROVE  Views(f, <<>>) = <<>>
BY DEF Views

LEMMA ViewsLower ==
  ASSUME NEW f, NEW s \in Seq(TxnRec), NEW k \in 0 .. Len(s)
  PROVE  Views(f, SubSeq(s, 1, k)) = SubSeq(Views(f, s), 1, k)
<1>1. PICK n \in Nat : n = Len(s) /\ k \in 0 .. n OBVIOUS
<1>2. PICK a : a = SubSeq(s, 1, k) OBVIOUS
<1>3. a \in Seq(TxnRec) /\ Len(a) = k /\ \A j \in 0 .. k : SubSeq(a, 1, j) = SubSeq(s, 1, j)
  BY <1>2, Lower
<1>4. PICK V, W : V = Views(f, s) /\ W = Views(f, a) OBVIOUS
<1>5. Len(V) = n /\ \A j \in 1 .. n : V[j] = Held(f, SubSeq(s, 1, j)) BY <1>1, <1>4, ViewsAre
<1>6. W = [j \in 1 .. k |-> W[j]] BY <1>3, <1>4 DEF Views
<1>7. ASSUME NEW j \in 1 .. k PROVE W[j] = V[j]
  <2>1. W[j] = Held(f, SubSeq(a, 1, j)) BY <1>3, <1>4, ViewsAre
  <2>2. j \in 0 .. k /\ j \in 1 .. n BY <1>1
  <2>3. SubSeq(a, 1, j) = SubSeq(s, 1, j) BY <1>3, <2>2
  <2> QED BY <1>5, <2>1, <2>2, <2>3
<1>8. SubSeq(V, 1, k) = [j \in 1 .. k |-> V[j]]
  <2>1. PICK T : V \in Seq(T) BY <1>4, ViewsAre
  <2>2. SubSeq(V, 1, k) = [j \in 1 .. k |-> V[1 + j - 1]] BY <1>1, <1>5, <2>1
  <2>3. \A j \in 1 .. k : 1 + j - 1 = j BY <1>1
  <2> QED BY <2>2, <2>3
<1> QED BY <1>2, <1>4, <1>6, <1>7, <1>8

LEMMA ViewsPushed ==
  ASSUME NEW f, NEW r \in Seq(TxnRec), NEW t \in TxnRec
  PROVE  Views(f, Push(r, t)) = Append(Views(f, r), Held(f, Push(r, t)))
<1>1. PICK s \in Seq(TxnRec) : s = Push(r, t) BY Pushed
<1>2. PICK n \in Nat : n = Len(r) OBVIOUS
<1>3. /\ Len(s) = n + 1 /\ SubSeq(s, 1, n + 1) = s
      /\ \A k \in 0 .. n : SubSeq(s, 1, k) = SubSeq(r, 1, k)
  <2>1. /\ Len(Push(r, t)) = Len(r) + 1 /\ SubSeq(Push(r, t), 1, Len(r) + 1) = Push(r, t)
        /\ \A k \in 0 .. Len(r) : SubSeq(Push(r, t), 1, k) = SubSeq(r, 1, k)
    BY Pushed
  <2> QED BY <1>1, <1>2, <2>1
<1>4. PICK V, W, h : V = Views(f, r) /\ W = Views(f, s) /\ h = Held(f, s) OBVIOUS
<1>5. PICK T : V \in Seq(T) BY <1>4, ViewsAre
<1>6. Len(V) = n /\ \A k \in 1 .. n : V[k] = Held(f, SubSeq(r, 1, k)) BY <1>2, <1>4, ViewsAre
<1>7. \A k \in 1 .. n + 1 : W[k] = Held(f, SubSeq(s, 1, k)) BY <1>3, <1>4, ViewsAre
<1>8. \A k \in 1 .. n : W[k] = V[k]
  <2>1. \A k \in 1 .. n : k \in 0 .. n /\ k \in 1 .. n + 1 OBVIOUS
  <2> QED BY <1>3, <1>6, <1>7, <2>1
<1>9. W[n + 1] = h
  <2>1. n + 1 \in 1 .. n + 1 OBVIOUS
  <2> QED BY <1>3, <1>4, <1>7, <2>1
<1>10. W = [k \in 1 .. n + 1 |-> W[k]] BY <1>3, <1>4 DEF Views
<1>11. Append(V, h) = [k \in 1 .. n + 1 |-> IF k = n + 1 THEN h ELSE V[k]]
  <2>1. PICK U : U = T \cup {h} OBVIOUS
  <2>2. V \in [1 .. n -> T] BY <1>5, <1>6
  <2>3. V \in [1 .. n -> U] BY <2>1, <2>2
  <2>4. \A i \in Nat : \A x \in [1 .. i -> U] : x \in Seq(U) OBVIOUS
  <2>5. V \in Seq(U) /\ h \in U BY <2>1, <2>3, <2>4
  <2>6. PICK A : A = Append(V, h) OBVIOUS
  <2>7. A \in Seq(U) /\ Len(A) = n + 1 /\ A[n + 1] = h /\ \A k \in 1 .. n : A[k] = V[k]
    BY <1>6, <2>5, <2>6
  <2>8. A = [k \in 1 .. n + 1 |-> A[k]] BY <2>7
  <2>9. \A k \in 1 .. n + 1 : A[k] = IF k = n + 1 THEN h ELSE V[k]
    <3>1. \A k \in 1 .. n + 1 : k = n + 1 \/ k \in 1 .. n OBVIOUS
    <3> QED BY <2>7, <3>1
  <2> QED BY <2>6, <2>8, <2>9
<1>12. \A k \in 1 .. n + 1 : W[k] = IF k = n + 1 THEN h ELSE V[k]
  <2>1. \A k \in 1 .. n + 1 : k = n + 1 \/ k \in 1 .. n OBVIOUS
  <2> QED BY <1>8, <1>9, <2>1
<1> QED BY <1>1, <1>4, <1>10, <1>11, <1>12

\* The same pages from the same root.
LEMMA HeldPages ==
  ASSUME NEW f, NEW e, NEW s, NEW z, Root(z) = Root(s), \A x : Page(e, z, x) = Page(f, s, x)
  PROVE  Held(e, z) = Held(f, s)
<1>1. Rt(e, z) = Rt(f, s) BY DEF Rt
<1> QED BY <1>1, HeldSame

-----------------------------------------------------------------------------
(* Every step is a step of the stack of drafts.                             *)

DraftStep == Drafted(Base(file, meta), Base(file', meta'), Views(file, txns), Views(file', txns'))

LEMMA SeenNow ==
  ASSUME NInv, HInv, NEW f, f = file, NEW s, s = txns
  PROVE  /\ s \in Seq(TxnRec) /\ Base(f, meta) \in View /\ Views(f, s) \in Seq(View)
         /\ Base(file, meta) = Base(f, meta) /\ Views(file, txns) = Views(f, s)
BY DEF NInv, HInv, Inv, Types

\* A transaction begins.
LEMMA BeginsDraft ==
  ASSUME NInv, HInv, file' = file, meta' = meta,
         NEW t \in TxnRec, Begun(txns, t, pg), txns' = Push(txns, t)
  PROVE  DraftStep
<1>1. PICK f, s, g : f = file /\ s = txns /\ g = pg OBVIOUS
<1>2. PICK b, V : b = Base(f, meta) /\ V = Views(f, s) OBVIOUS
<1>3. /\ s \in Seq(TxnRec) /\ b \in View /\ V \in Seq(View) 
      /\ Base(file, meta) = b /\ Views(file, txns) = V
  BY <1>1, <1>2, SeenNow
<1>4. Begun(s, t, g) BY <1>1
<1>5. Held(f, Push(s, t)) = Held(f, s)
  <2>1. Root(Push(s, t)) = Root(s) BY <1>3, <1>4, BegunSame
  <2>2. \A p : Page(f, Push(s, t), p) = Page(f, s, p) BY <1>3, <1>4, PagePushed DEF Begun
  <2> QED BY <2>1, <2>2, HeldPages
<1>6. PICK v : v = Held(f, s) OBVIOUS
<1>7. v \in View /\ v = IF V = <<>> THEN b ELSE Last(V)
  <2>1. Len(V) = Len(s) /\ Len(s) \in Nat BY <1>2, <1>3, ViewsAre
  <2>2. CASE s = <<>>
    <3>1. V = <<>> BY <1>2, <2>2, ViewsNone
    <3> QED BY <1>2, <1>3, <1>6, <2>2, <3>1, BaseIs
  <2>3. CASE s # <<>>
    <3>1. Len(s) \in 1 .. Len(s) BY <1>3, <2>3
    <3>2. V[Len(s)] = Held(f, SubSeq(s, 1, Len(s)))
      <4>1. \A k \in 1 .. Len(s) : Views(f, s)[k] = Held(f, SubSeq(s, 1, k)) BY <1>3, ViewsAre
      <4> QED BY <1>2, <3>1, <4>1
    <3>3. SubSeq(s, 1, Len(s)) = s BY <1>3, SubSeqFull
    <3>4. V[Len(V)] \in View /\ V # <<>> BY <1>3, <2>1, <3>1
    <3> QED BY <1>6, <2>1, <3>2, <3>3, <3>4 DEF Last
  <2> QED BY <2>2, <2>3
<1>8. Views(f, Push(s, t)) = Append(V, v) BY <1>2, <1>3, <1>5, <1>6, ViewsPushed
<1>9. Drafted(b, b, V, Append(V, v)) BY <1>3, <1>7, Begins
<1>10. Base(file', meta') = b /\ Views(file', txns') = Append(V, v) BY <1>1, <1>2, <1>8
<1> QED BY <1>3, <1>9, <1>10 DEF DraftStep

\* The last transactions are lost.
LEMMA DiscardsDraft ==
  ASSUME NInv, HInv, file' = file, meta' = meta, NEW k \in DOMAIN txns,
         Views(file', txns') = Views(file, SubSeq(txns, 1, k - 1))
  PROVE  DraftStep
<1>1. PICK f, s : f = file /\ s = txns OBVIOUS
<1>2. PICK b, V : b = Base(f, meta) /\ V = Views(f, s) OBVIOUS
<1>3. /\ s \in Seq(TxnRec) /\ b \in View /\ V \in Seq(View)
      /\ Base(file, meta) = b /\ Views(file, txns) = V
  BY <1>1, <1>2, SeenNow
<1>4. Len(V) = Len(s) /\ k \in 1 .. Len(s) /\ Len(s) \in Nat
  <2>1. Len(V) = Len(s) BY <1>2, <1>3, ViewsAre
  <2>2. k \in DOMAIN s BY <1>1
  <2> QED BY <1>3, <2>1, <2>2
<1>5. PICK j : j = k - 1 OBVIOUS
<1>6. j \in 0 .. Len(s) /\ j \in 0 .. Len(V) /\ j # Len(V) BY <1>4, <1>5
<1>7. Drafted(b, b, V, SubSeq(V, 1, j)) BY <1>3, <1>6, Discards
<1>8. Views(f, SubSeq(s, 1, j)) = SubSeq(V, 1, j) BY <1>2, <1>3, <1>6, ViewsLower
<1>9. Base(file', meta') = b /\ Views(file', txns') = SubSeq(V, 1, j)
  BY <1>1, <1>2, <1>5, <1>8
<1> QED BY <1>3, <1>7, <1>9 DEF DraftStep

LEMMA AbortDraft ==
  ASSUME NInv, HInv, NEW k, Abort(k)
  PROVE  DraftStep
BY DiscardsDraft DEF Abort, AbortTxn

\* MDB_TXN_ERROR changes no page.
LEMMA FlagViews ==
  ASSUME NEW f, NEW s \in Seq(TxnRec), s # <<>>
  PROVE  Views(f, [s EXCEPT ![Len(s)].bad = TRUE]) = Views(f, s)
<1>1. PICK r \in Seq(TxnRec), t \in TxnRec, u \in TxnRec :
         /\ s = Push(r, t) /\ [s EXCEPT ![Len(s)].bad = TRUE] = Push(r, u)
         /\ u.root = t.root /\ u.dirty = t.dirty /\ u.spill = t.spill
  BY FlagSet
<1>2. Held(f, Push(r, u)) = Held(f, Push(r, t))
  <2>1. Root(Push(r, u)) = u.root BY Parts
  <2>2. Root(Push(r, t)) = t.root BY Parts
  <2>3. \A p : Page(f, Push(r, u), p) = Page(f, Push(r, t), p) BY <1>1, PagePushed
  <2> QED BY <1>1, <2>1, <2>2, <2>3, HeldPages
<1>3. Views(f, Push(r, t)) = Append(Views(f, r), Held(f, Push(r, t))) BY ViewsPushed
<1>4. Views(f, Push(r, u)) = Append(Views(f, r), Held(f, Push(r, u))) BY ViewsPushed
<1> QED BY <1>1, <1>2, <1>3, <1>4

LEMMA CommitFailsDraft ==
  ASSUME NInv, HInv, NEW k, CommitFails(k)
  PROVE  DraftStep
<1>1. /\ k \in DOMAIN txns /\ file' = file /\ meta' = meta
      /\ \/ txns' = SubSeq(txns, 1, k - 1)
         \/ k > 1 /\ txns' = [SubSeq(txns, 1, k - 1) EXCEPT ![k - 1].bad = TRUE]
  BY DEF CommitFails, AbortTxn
<1>2. CASE txns' = SubSeq(txns, 1, k - 1) BY <1>1, <1>2, DiscardsDraft
<1>3. CASE k > 1 /\ txns' = [SubSeq(txns, 1, k - 1) EXCEPT ![k - 1].bad = TRUE]
  <2>1. PICK f, s : f = file /\ s = SubSeq(txns, 1, k - 1) OBVIOUS
  <2>2. txns \in Seq(TxnRec) BY DEF NInv, Inv, Types
  <2>3. k \in 1 .. Len(txns) /\ k - 1 \in 0 .. Len(txns) /\ k - 1 # 0 BY <1>1, <1>3, <2>2
  <2>4. s \in Seq(TxnRec) /\ s # <<>> /\ Len(s) = k - 1 BY <2>1, <2>2, <2>3, Lower
  <2>5. Views(f, [s EXCEPT ![Len(s)].bad = TRUE]) = Views(f, s) BY <2>4, FlagViews
  <2>6. txns' = [s EXCEPT ![Len(s)].bad = TRUE] BY <1>3, <2>1, <2>4
  <2> QED BY <1>1, <2>1, <2>5, <2>6, DiscardsDraft
<1> QED BY <1>1, <1>2, <1>3

LEMMA MergeAbortsDraft ==
  ASSUME NInv, HInv, MergeAborts
  PROVE  DraftStep
<1>1. txns \in Seq(TxnRec) BY DEF NInv, Inv, Types
<1>2. file' = file /\ meta' = meta /\ txns' = <<>> /\ Len(txns) > 1 BY DEF MergeAborts, Here
<1>3. 1 \in DOMAIN txns BY <1>1, <1>2
<1>4. SubSeq(txns, 1, 1 - 1) = <<>> BY <1>1
<1> QED BY <1>2, <1>3, <1>4, DiscardsDraft
-----------------------------------------------------------------------------
\* The levels of a stack that is seen.
LEMMA PushedViews ==
  ASSUME NEW f, NEW r \in Seq(TxnRec), NEW t \in TxnRec, Views(f, Push(r, t)) \in Seq(View)
  PROVE  /\ Views(f, r) \in Seq(View) /\ Held(f, Push(r, t)) \in View
         /\ Views(f, Push(r, t)) = Append(Views(f, r), Held(f, Push(r, t)))
<1>1. PICK V, X, h : V = Views(f, Push(r, t)) /\ X = Views(f, r) /\ h = Held(f, Push(r, t)) OBVIOUS
<1>2. V = Append(X, h) BY <1>1, ViewsPushed
<1>3. PICK n \in Nat : n = Len(r) OBVIOUS
<1>4. Push(r, t) \in Seq(TxnRec) /\ Len(Push(r, t)) = n + 1 /\ SubSeq(Push(r, t), 1, n) = r
  <2>1. n \in 0 .. Len(r) BY <1>3
  <2>2. SubSeq(r, 1, n) = r BY <1>3, SubSeqFull
  <2> QED BY <1>3, <2>1, <2>2, Pushed
<1>5. Len(V) = n + 1 BY <1>1, <1>4, ViewsAre
<1>6. n \in 0 .. Len(Push(r, t)) BY <1>4
<1>7. X = SubSeq(V, 1, n) BY <1>1, <1>4, <1>6, ViewsLower
<1>8. X \in Seq(View)
  <2>1. SubSeq(V, 1, n) \in Seq(View) BY <1>1, <1>5, SubSeqProperties
  <2> QED BY <1>7, <2>1
<1>9. n + 1 \in 1 .. Len(V) /\ n + 1 \in 1 .. Len(Push(r, t)) BY <1>4, <1>5
<1>10. V[n + 1] = Held(f, SubSeq(Push(r, t), 1, n + 1)) BY <1>1, <1>4, <1>9, ViewsAre
<1>11. SubSeq(Push(r, t), 1, n + 1) = Push(r, t) BY <1>3, Pushed
<1>12. h \in View
  <2>1. V[n + 1] \in View BY <1>1, <1>9
  <2> QED BY <1>1, <2>1, <1>10, <1>11
<1> QED BY <1>1, <1>2, <1>8, <1>12

\* A write changes one leaf of what the last transaction sees.
LEMMA WritesDraft ==
  ASSUME NInv, HInv, NEW v, v.file = file, v.txns = txns, txns # <<>>,
         NEW w, NEW l, NEW k, Sound(w, k), OnlyAt(v, w, l), Wrote(w)
  PROVE  DraftStep
<1>1. PICK f, s, e, z : f = file /\ s = txns /\ e = w.file /\ z = w.txns OBVIOUS
<1>2. PICK b, V : b = Base(f, meta) /\ V = Views(f, s) OBVIOUS
<1>3. /\ s \in Seq(TxnRec) /\ s # <<>> /\ b \in View /\ V \in Seq(View)
      /\ Base(file, meta) = b /\ Views(file, txns) = V
  BY <1>1, <1>2, SeenNow
<1>4. /\ z \in Seq(TxnRec) /\ TreeOK(e, z)
  <2>1. Inv(e, z, w.pg, w.cur) BY <1>1, SoundInv
  <2>2. z \in Seq(TxnRec) /\ Stack(e, z, w.pg) BY <2>1 DEF Inv, Types
  <2>3. Level(e, z, w.pg) BY <2>2, StackTop
  <2> QED BY <2>2, <2>3 DEF Level
<1>5. PICK n \in Nat : n = Len(s) /\ n > 0 /\ n - 1 \in Nat BY <1>3
<1>6. Len(z) = n /\ \A i \in 0 .. n - 1 : Held(e, SubSeq(z, 1, i)) = Held(f, SubSeq(s, 1, i))
  BY <1>1, <1>5 DEF OnlyAt, Below, Depth
<1>7. PICK r \in Seq(TxnRec), t \in TxnRec : s = Push(r, t) /\ Len(r) = n - 1
  BY <1>3, <1>5, Popped
<1>8. z # <<>> BY <1>4, <1>5, <1>6
<1>9. PICK q \in Seq(TxnRec), u \in TxnRec : z = Push(q, u) /\ Len(q) = n - 1
  BY <1>4, <1>6, <1>8, Popped
<1>10. PICK X : X = Views(f, r) OBVIOUS
<1>11. Views(e, q) = X
  <2>1. \A i \in 0 .. Len(r) : SubSeq(Push(r, t), 1, i) = SubSeq(r, 1, i) BY Pushed
  <2>2. \A i \in 0 .. Len(q) : SubSeq(Push(q, u), 1, i) = SubSeq(q, 1, i) BY Pushed
  <2>3. \A i \in 1 .. Len(r) : i \in 0 .. n - 1 BY <1>7
  <2>4. \A i \in 1 .. Len(r) : Held(e, SubSeq(q, 1, i)) = Held(f, SubSeq(r, 1, i))
    BY <1>6, <1>7, <1>9, <2>1, <2>2, <2>3
  <2> QED BY <1>7, <1>9, <1>10, <2>4, ViewsSame
<1>12. PICK h, g : h = Held(f, s) /\ g = Held(e, z) OBVIOUS
<1>13. V = Append(X, h) BY <1>2, <1>7, <1>10, <1>12, ViewsPushed
<1>14. Views(e, z) = Append(X, g) BY <1>9, <1>11, <1>12, ViewsPushed
<1>15. X \in Seq(View) /\ h \in View BY <1>2, <1>3, <1>7, <1>10, <1>12, PushedViews
<1>16. /\ DOMAIN g \ {l} = DOMAIN h \ {l} /\ \A m \in DOMAIN g \ {l} : g[m] = h[m]
       /\ l \in DOMAIN g => g[l] \in Value \/ (l \in DOMAIN h /\ g[l] = h[l])
  <2>1. HeldIn(v) = h /\ HeldIn(w) = g BY <1>1, <1>12 DEF HeldIn
  <2>2. DOMAIN HeldIn(v) = LeavesOf(v) /\ DOMAIN HeldIn(w) = LeavesOf(w) BY DEF HeldIn, Held, LeavesOf
  <2>3. LeavesOf(v) = DOMAIN h /\ LeavesOf(w) = DOMAIN g BY <2>1, <2>2
  <2>4. /\ LeavesOf(w) \ {l} = LeavesOf(v) \ {l}
        /\ \A m \in LeavesOf(w) \ {l} : HeldIn(w)[m] = HeldIn(v)[m]
        /\ l \in LeavesOf(w) => HeldIn(w)[l] \in Value \/ (l \in LeavesOf(v) /\ HeldIn(w)[l] = HeldIn(v)[l])
    BY DEF OnlyAt
  <2> QED BY <2>1, <2>3, <2>4
<1>17. g \in View
  <2>1. DOMAIN h \subseteq Leaf /\ \A m \in DOMAIN h : h[m] \in Value BY <1>15, MapItems
  <2>2. DOMAIN g \subseteq Leaf
    <3>1. DOMAIN Rt(e, z) \subseteq Leaf BY <1>4, RootOf
    <3> QED BY <1>12, <3>1 DEF Held
  <2>3. ASSUME NEW m \in DOMAIN g PROVE g[m] \in Value
    <3>1. CASE m = l BY <1>16, <2>1, <2>3, <3>1
    <3>2. CASE m # l BY <1>16, <2>1, <3>2
    <3> QED BY <3>1, <3>2
  <2>4. g = [m \in DOMAIN g |-> g[m]] BY <1>12 DEF Held
  <2>5. g \in [DOMAIN g -> Value] BY <2>3, <2>4
  <2> QED BY <2>2, <2>5 DEF View
<1>18. Drafted(b, b, Append(X, h), Append(X, g)) BY <1>3, <1>15, <1>16, <1>17, WritesOne
<1>19. Base(e, meta) = b
  <2>1. 0 \in 0 .. n - 1 BY <1>5
  <2>2. Held(e, SubSeq(z, 1, 0)) = Held(f, SubSeq(s, 1, 0)) BY <1>6, <2>1
  <2>3. SubSeq(z, 1, 0) = <<>> /\ SubSeq(s, 1, 0) = <<>> BY <1>3, <1>4
  <2>4. Held(e, <<>>) = Held(f, <<>>) BY <2>2, <2>3
  <2>5. Base(e, meta) = Held(e, <<>>) BY BaseIs
  <2>6. Base(f, meta) = Held(f, <<>>) BY BaseIs
  <2> QED BY <1>2, <2>4, <2>5, <2>6
<1>20. file' = e /\ txns' = z /\ meta' = meta BY <1>1 DEF Wrote
<1>21. Base(file', meta') = b /\ Views(file', txns') = Append(X, g) BY <1>14, <1>19, <1>20
<1> QED BY <1>3, <1>13, <1>18, <1>21 DEF DraftStep

LEMMA WorldIs ==
  ASSUME NEW q
  PROVE  World(q).file = file /\ World(q).txns = txns
BY DEF World

LEMMA PutDraft ==
  ASSUME NInv, HInv, NEW l, NEW v \in Value, Put(l, v)
  PROVE  DraftStep
<1>1. MetaOK /\ txns # <<>> /\ l \in Leaves BY DEF NInv, Put, Running
<1>2. PICK w : w = World(PathTo(file, txns, l)) OBVIOUS
<1>3. Sound(w, l) BY <1>1, <1>2, Starts
<1>4. Sound(PutAt(w, l, v), l) /\ OnlyAt(w, PutAt(w, l, v), l) BY <1>1, <1>3, PutSound
<1>5. Wrote(PutAt(w, l, v)) BY <1>2 DEF Put
<1> QED BY <1>1, <1>2, <1>4, <1>5, WorldIs, WritesDraft

LEMMA CursorPutDraft ==
  ASSUME NInv, HInv, NEW c, NEW v \in Value, CursorPut(c, v)
  PROVE  DraftStep
<1>1. MetaOK /\ txns # <<>> /\ c \in DOMAIN cursors BY DEF NInv, CursorPut, Running, Usable
<1>2. PICK l : l = cursors[c].leaf OBVIOUS
<1>3. l \in Leaves /\ cursors[c].path = PathTo(file, txns, l)
  <2>1. CursTop(file, txns, cursors) BY <1>1 DEF NInv, Inv
  <2> QED BY <1>1, <1>2, <2>1 DEF CursTop, Leaves, Rt
<1>4. PICK w : w = World(cursors[c].path) OBVIOUS
<1>5. Sound(w, l) BY <1>1, <1>3, <1>4, Starts
<1>6. Sound(PutAt(w, l, v), l) /\ OnlyAt(w, PutAt(w, l, v), l) BY <1>1, <1>5, PutSound
<1>7. Wrote(PutAt(w, l, v)) BY <1>2, <1>4 DEF CursorPut
<1> QED BY <1>1, <1>4, <1>6, <1>7, WorldIs, WritesDraft

LEMMA PutSplitsDraft ==
  ASSUME NInv, HInv, NEW m, NEW l, NEW v \in Value, PutSplits(m, l, v)
  PROVE  DraftStep
<1>1. MetaOK /\ txns # <<>> /\ m \in Leaves /\ l \in Leaf /\ l \notin Leaves
  BY DEF NInv, PutSplits, Running
<1>2. PICK w : w = World(PathTo(file, txns, m)) OBVIOUS
<1>3. Sound(w, m) /\ LeavesOf(w) = Leaves BY <1>1, <1>2, Starts
<1>4. Sound(Grow(w, m, l, v), m) /\ OnlyAt(w, Grow(w, m, l, v), l) BY <1>1, <1>3, GrowSound
<1>5. Wrote(Grow(w, m, l, v)) BY <1>2 DEF PutSplits
<1> QED BY <1>1, <1>2, <1>4, <1>5, WorldIs, WritesDraft

LEMMA DelMergesDraft ==
  ASSUME NInv, HInv, NEW l, NEW m, DelMerges(l, m)
  PROVE  DraftStep
<1>1. MetaOK /\ txns # <<>> /\ m \in Leaves /\ l \in Leaves /\ l # m
      /\ \A x \in DOMAIN cursors : cursors[x].leaf # l
  BY DEF NInv, DelMerges, Running
<1>2. PICK w : w = World(PathTo(file, txns, l)) OBVIOUS
<1>3. Sound(w, l) /\ LeavesOf(w) = Leaves /\ CurLeaves(w) = {cursors[x].leaf : x \in DOMAIN cursors}
  BY <1>1, <1>2, Starts
<1>4. OnlyAt(w, MergeInto(w, l, m), l) /\ \E k : Sound(MergeInto(w, l, m), k)
  BY <1>1, <1>3, MergeSound
<1>5. PICK k : Sound(MergeInto(w, l, m), k) BY <1>4
<1>6. Wrote(MergeInto(w, l, m)) BY <1>2 DEF DelMerges
<1> QED BY <1>1, <1>2, <1>4, <1>5, <1>6, WorldIs, WritesDraft
-----------------------------------------------------------------------------
LEMMA CommitNestedDraft ==
  ASSUME NInv, HInv, FewStaleCopies, CommitNested
  PROVE  DraftStep
<1>0. PICK r \in Seq(TxnRec) : \E p, t, q :
         txns = Push(Push(r, p), t) /\ txns' = Push(r, q) /\ Joined(p, t, q)
  BY Merged
<1>1. PICK p, t, q : txns = Push(Push(r, p), t) /\ txns' = Push(r, q) /\ Joined(p, t, q)
  BY <1>0
<1>2. PICK f, s, g : f = file /\ s = txns /\ g = pg OBVIOUS
<1>3. PICK b, V : b = Base(f, meta) /\ V = Views(f, s) OBVIOUS
<1>4. /\ s \in Seq(TxnRec) /\ b \in View /\ V \in Seq(View)
      /\ Base(file, meta) = b /\ Views(file, txns) = V
  BY <1>2, <1>3, SeenNow
<1>5. p \in TxnRec /\ t \in TxnRec /\ q \in TxnRec BY <1>1 DEF Joined
<1>6. PICK m \in Seq(TxnRec) : m = Push(r, p) BY <1>5, Pushed
<1>7. s = Push(m, t) BY <1>1, <1>2, <1>6
<1>8. PICK X, M, h, v : X = Views(f, r) /\ M = Views(f, m) /\ h = Held(f, m) /\ v = Held(f, s) OBVIOUS
<1>9. M \in Seq(View) /\ v \in View /\ V = Append(M, v)
  <2>1. Views(f, Push(m, t)) \in Seq(View) BY <1>3, <1>4, <1>7
  <2> QED BY <1>3, <1>5, <1>7, <1>8, <2>1, PushedViews
<1>10. X \in Seq(View) /\ h \in View /\ M = Append(X, h)
  <2>1. Views(f, Push(r, p)) \in Seq(View) BY <1>6, <1>8, <1>9
  <2> QED BY <1>5, <1>6, <1>8, <2>1, PushedViews
<1>11. Held(f, Push(r, q)) = v
  <2>1. Root(Push(r, q)) = Root(s) BY <1>1, <1>6, <1>7, JoinedLists
  <2>2. \A x : Page(f, Push(r, q), x) = Page(f, s, x) BY <1>1, <1>6, <1>7, JoinedPages
  <2> QED BY <1>8, <2>1, <2>2, HeldPages
<1>12. Views(f, Push(r, q)) = Append(X, v) BY <1>5, <1>8, <1>11, ViewsPushed
<1>13. Drafted(b, b, Append(Append(X, h), v), Append(X, v)) BY <1>4, <1>9, <1>10, CommitsNested
<1>14. Base(file', meta') = b /\ Views(file', txns') = Append(X, v)
  <2>1. file' = file /\ meta' = meta BY DEF CommitNested
  <2> QED BY <1>1, <1>2, <1>3, <1>12, <2>1
<1> QED BY <1>4, <1>9, <1>10, <1>13, <1>14 DEF DraftStep

LEMMA CommitDraft ==
  ASSUME NInv, HInv, Commit
  PROVE  DraftStep
<1>1. PICK f, s, g : f = file /\ s = txns /\ g = pg OBVIOUS
<1>2. PICK b, V : b = Base(f, meta) /\ V = Views(f, s) OBVIOUS
<1>3. /\ s \in Seq(TxnRec) /\ b \in View /\ V \in Seq(View)
      /\ Base(file, meta) = b /\ Views(file, txns) = V
  BY <1>1, <1>2, SeenNow
<1>4. f \in [PageNo -> PageData] /\ Stack(f, s, g) /\ ListsApart(s)
  BY <1>1 DEF NInv, Inv, Types
<1>5. Len(s) = 1 /\ txns' = <<>> BY <1>1 DEF Commit, Here
<1>6. s # <<>> BY <1>5
<1>7. PICK r \in Seq(TxnRec), t \in TxnRec : s = Push(r, t) /\ Last(s) = t /\ Len(r) = Len(s) - 1
  BY <1>3, <1>6, Popped
<1>8. r = <<>>
  <2>1. Len(r) = 0 BY <1>5, <1>7
  <2> QED BY <2>1
<1>9. Level(f, s, g) BY <1>3, <1>4, StackTop
<1>10. PICK v : v = Held(f, s) OBVIOUS
<1>11. v \in View /\ V = Append(<<>>, v)
  <2>1. Views(f, Push(r, t)) \in Seq(View) BY <1>2, <1>3, <1>7
  <2>2. v \in View /\ V = Append(Views(f, r), v) BY <1>2, <1>7, <1>10, <2>1, PushedViews
  <2>3. Views(f, r) = <<>> BY <1>8, ViewsNone
  <2> QED BY <2>2, <2>3
<1>12. Drafted(b, v, V, <<>>) BY <1>11, CommitsOne
<1>13. Child = t BY <1>1, <1>7 DEF Child
<1>14. Views(file', txns') = <<>> BY <1>5, ViewsNone
<1>15. Base(file', meta') = v
  <2>1. CASE t.dirty = <<>> /\ t.spill = {}
    <3>1. file' = f /\ meta' = meta BY <1>1, <1>13, <2>1 DEF Commit
    <3>2. DOMAIN t.dirty = {} BY <2>1, EmptyList
    <3>3. Root(s) = Root(r)
      <4>1. Listed(Push(r, t)) = Listed(r) \cup Lists(t) BY Parts
      <4>2. Listed(r) = {} BY <1>8 DEF Listed
      <4>3. Listed(s) = {} BY <1>7, <2>1, <3>2, <4>1, <4>2 DEF Lists
      <4> QED BY <1>8, <1>9, <4>3 DEF Level, ListOK
    <3>4. \A p : Page(f, Push(r, t), p) = Page(f, r, p) BY <2>1, <3>2, PagePushed
    <3>5. Held(f, s) = Held(f, r) BY <1>7, <3>3, <3>4, HeldPages
    <3>6. Base(f, meta) = Held(f, <<>>) BY BaseIs
    <3> QED BY <1>8, <1>10, <3>1, <3>5, <3>6
  <2>2. CASE ~(t.dirty = <<>> /\ t.spill = {})
    <3>1. PICK e : e = Over(t.dirty, f) OBVIOUS
    <3>2. /\ e[t.root] = Rt(f, s) /\ Root(s) = t.root
          /\ \A x \in PageNo : e[x] = Page(f, s, x)
      <4>1. s = Push(<<>>, t) BY <1>7, <1>8
      <4> QED BY <1>4, <1>9, <3>1, <4>1, Stored
    <3>3. file' = e /\ meta'.root = t.root BY <1>1, <1>13, <2>2, <3>1 DEF Commit
    <3>4. PICK R : R = Rt(f, s) OBVIOUS
    <3>5. \A l \in DOMAIN R : R[l] \in PageNo BY <1>9, <3>4, RootOf DEF Level
    <3>6. PICK z : z = <<>> OBVIOUS
    <3>7. \A p : Page(e, z, p) = e[p] BY <3>6, WhereNone
    <3>8. HeldAt(e, t.root, z) = [l \in DOMAIN R |-> Page(e, z, R[l])]
      <4>1. Page(e, z, t.root) = R BY <3>2, <3>4, <3>7
      <4> QED BY <4>1 DEF HeldAt
    <3>9. \A l \in DOMAIN R : Page(e, z, R[l]) = Page(f, s, R[l]) BY <3>2, <3>5, <3>7
    <3>10. v = [l \in DOMAIN R |-> Page(f, s, R[l])] BY <1>10, <3>4 DEF Held
    <3>11. HeldAt(e, t.root, z) = v BY <3>8, <3>9, <3>10
    <3> QED BY <3>3, <3>6, <3>11 DEF Base
  <2> QED BY <2>1, <2>2
<1> QED BY <1>3, <1>12, <1>14, <1>15 DEF DraftStep

\* A step that moves only cursors, or nothing.
Still == file' = file /\ meta' = meta /\ txns' = txns

LEMMA NextDraft ==
  ASSUME NInv, HInv, FewStaleCopies, [Next]_vars
  PROVE  DraftStep \/ Still
<1>1. ASSUME Begin \/ BeginNested PROVE DraftStep
  <2>1. file' = file /\ meta' = meta BY <1>1 DEF Begin, BeginNested
  <2>2. PICK t \in TxnRec : Begun(txns, t, pg) /\ txns' = Push(txns, t)
    BY <1>1, BeginAdds, BeginNestedAdds
  <2> QED BY <2>1, <2>2, BeginsDraft
<1>2. CASE CommitNested BY <1>2, CommitNestedDraft
<1>3. CASE MergeAborts BY <1>3, MergeAbortsDraft
<1>4. CASE Commit BY <1>4, CommitDraft
<1>5. ASSUME NEW k \in 1 .. MaxDepth, Abort(k) \/ CommitFails(k) PROVE DraftStep
  BY <1>5, AbortDraft, CommitFailsDraft
<1>6. ASSUME NEW l \in Leaf, NEW v \in Value, Put(l, v) PROVE DraftStep BY <1>6, PutDraft
<1>7. ASSUME NEW l \in Leaf, NEW m \in Leaf, DelMerges(l, m) PROVE DraftStep BY <1>7, DelMergesDraft
<1>8. ASSUME NEW l \in Leaf, NEW m \in Leaf, NEW v \in Value, PutSplits(m, l, v) PROVE DraftStep
  BY <1>8, PutSplitsDraft
<1>9. ASSUME NEW c \in Cursor, NEW l \in Leaf, CursorOpen(c, l) \/ CursorMove(c, l) PROVE Still
  BY <1>9 DEF CursorOpen, CursorMove, Still
<1>10. ASSUME NEW c \in Cursor, NEW v \in Value, CursorPut(c, v) PROVE DraftStep BY <1>10, CursorPutDraft
<1>11. CASE UNCHANGED vars BY <1>11 DEF vars, Still
<1> QED BY <1>1, <1>2, <1>3, <1>4, <1>5, <1>6, <1>7, <1>8, <1>9, <1>10, <1>11 DEF Next

LEMMA DraftsFollow ==
  NInv /\ HInv /\ FewStaleCopies /\ [Next]_vars =>
    HInv' /\ [Drafts!Next]_<<Read(<<>>), SubSeq(Reads, 1, Here)>>
<1> SUFFICES ASSUME NInv, HInv, FewStaleCopies, [Next]_vars
             PROVE  HInv' /\ [Drafts!Next]_<<Read(<<>>), SubSeq(Reads, 1, Here)>>
  OBVIOUS
<1>1. txns \in Seq(TxnRec) BY DEF NInv, Inv, Types
<1>2. NInv' BY NextStep
<1>3. txns' \in Seq(TxnRec) BY <1>2 DEF NInv, Inv, Types
<1>4. CASE DraftStep
  <2>1. HInv' BY <1>4 DEF DraftStep, Drafted, HInv
  <2>2. Drafts!Next BY <1>1, <1>3, <1>4, DraftNext DEF DraftStep
  <2> QED BY <2>1, <2>2
<1>5. CASE Still
  <2>1. Base(file', meta') = Base(file, meta) /\ Views(file', txns') = Views(file, txns) BY <1>5 DEF Still
  <2>2. HInv' BY <2>1 DEF HInv
  <2>3. /\ Read(<<>>) = ItemsOf(Base(file, meta))
        /\ SubSeq(Reads, 1, Here) = Itemised(Views(file, txns))
    BY <1>1, ReadsAre
  <2>4. /\ Read(<<>>)' = ItemsOf(Base(file', meta'))
        /\ SubSeq(Reads, 1, Here)' = Itemised(Views(file', txns'))
    BY <1>3, ReadsAreNext
  <2>5. Read(<<>>)' = Read(<<>>) /\ SubSeq(Reads, 1, Here)' = SubSeq(Reads, 1, Here) BY <2>1, <2>3, <2>4
  <2> QED BY <2>2, <2>5
<1> QED BY <1>4, <1>5, NextDraft

LEMMA DraftsInit == Init => HInv /\ Drafts!Init
<1> SUFFICES ASSUME Init PROVE HInv /\ Drafts!Init OBVIOUS
<1>1. txns = <<>> BY DEF Init
<1>2. PICK n \in Nat : n = Cardinality(Leaf) BY FS_CardinalityType, NestedAssumption DEF NestedAssumption
<1>3. PICK end : end = FirstPg + Cardinality(Leaf) + 1 OBVIOUS
<1>4. end = n + 4 /\ end <= MaxPg /\ MaxPg \in Nat
  <2>1. Records \in Nat BY NestedAssumption DEF NestedAssumption
  <2> QED BY <1>2, <1>3, <2>1, NestedAssumption DEF NestedAssumption, FirstPg
<1>5. PICK v \in Value, at \in [Leaf -> FirstPg + 1 .. end - 1] :
         file = [p \in FirstPg .. MaxPg - 1 |-> IF p = FirstPg THEN at ELSE v]
  BY <1>3 DEF Init
<1>6. meta.root = FirstPg BY DEF Init
<1>7. PICK f : f = file OBVIOUS
<1>8. f[FirstPg] = at BY <1>4, <1>5, <1>7 DEF FirstPg
<1>9. \A l \in Leaf : f[at[l]] = v
  <2>1. \A l \in Leaf : at[l] \in FirstPg .. MaxPg - 1 /\ at[l] # FirstPg BY <1>4, <1>5 DEF FirstPg
  <2> QED BY <1>5, <1>7, <2>1
<1>10. PICK z : z = <<>> OBVIOUS
<1>11. \A p : Page(f, z, p) = f[p] BY <1>10, WhereNone
<1>12. HeldAt(f, FirstPg, z) = [l \in Leaf |-> f[at[l]]]
  <2>1. DOMAIN at = Leaf BY <1>5
  <2> QED BY <1>8, <1>11, <2>1 DEF HeldAt
<1>13. PICK b : b = Base(file, meta) OBVIOUS
<1>14. b = [l \in Leaf |-> v] BY <1>6, <1>7, <1>9, <1>10, <1>12, <1>13 DEF Base
<1>15. b \in View
  <2>1. b \in [Leaf -> Value] BY <1>14
  <2> QED BY <2>1 DEF View
<1>16. Views(file, txns) = <<>> BY <1>1, ViewsNone
<1>17. HInv
  <2>1. <<>> \in Seq(View) OBVIOUS
  <2> QED BY <1>13, <1>15, <1>16, <2>1 DEF HInv
<1>18. Drafts!IsMap(ItemsOf(b)) BY <1>15, MapItems
<1>19. Read(<<>>) = ItemsOf(b) /\ SubSeq(Reads, 1, Here) = Itemised(<<>>)
  <2>1. txns \in Seq(TxnRec) BY <1>1
  <2> QED BY <1>13, <1>16, <2>1, ReadsAre
<1>20. Itemised(<<>>) = <<>> BY DEF Itemised
<1> QED BY <1>17, <1>18, <1>19, <1>20 DEF Drafts!Init

\* Nested transactions are a stack of drafts, within the bound FewStaleCopies:
\* NestedTxn implements DraftStack.
THEOREM DraftsRefined == Spec /\ []FewStaleCopies => DraftSpec
<1>1. Init => NInv /\ HInv /\ Drafts!Init BY InitStep, DraftsInit
<1>2. NInv /\ HInv /\ FewStaleCopies /\ [Next]_vars =>
        NInv' /\ HInv' /\ [Drafts!Next]_<<Read(<<>>), SubSeq(Reads, 1, Here)>>
  BY NextStep, DraftsFollow
<1> QED BY <1>1, <1>2, PTL DEF Spec, DraftSpec, Drafts!Spec

\* While nested transactions have none of their own there is no bound: whatever
\* is spilled, a child's changes are its parent's after its commit and gone after
\* its abort.
THEOREM DraftsOfTwo == Spec /\ []Shallow => DraftSpec
<1>1. Init => NInv /\ HInv /\ Drafts!Init BY InitStep, DraftsInit
<1>2. NInv /\ HInv /\ Shallow /\ [Next]_vars =>
        NInv' /\ HInv' /\ [Drafts!Next]_<<Read(<<>>), SubSeq(Reads, 1, Here)>>
  BY NextStep, DraftsFollow, ShallowBound
<1> QED BY <1>1, <1>2, PTL DEF Spec, DraftSpec, Drafts!Spec
=============================================================================
