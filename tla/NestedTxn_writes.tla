--------------------------- MODULE NestedTxn_writes ---------------------------
(***************************************************************************)
(* What the operations of NestedTxn do to the last transaction of the      *)
(* stack: a write that starts in a sound world ends in one.                *)
(***************************************************************************)
EXTENDS NestedTxn_lemmas

-----------------------------------------------------------------------------
(* The root page in the last transaction's list.                            *)

RootHere(t) == t.root \in DOMAIN t.dirty /\ t.root \notin t.spill

LEMMA RootIsHere ==
  ASSUME NEW r \in Seq(TxnRec), NEW t \in TxnRec
  PROVE  Where(Push(r, t), t.root) = Dirty(Len(r) + 1, t.root) <=> RootHere(t)
<1> DEFINE R == t.root
<1>0. Len(r) \in Nat BY Pushed
<1>1. Dirty(Len(r) + 1, R) # InMap(R) BY <1>0 DEF Dirty, InMap
<1>2. Where(r, R) # Dirty(Len(r) + 1, R)
  <2>1. SUFFICES ASSUME Where(r, R) # InMap(R) PROVE Where(r, R) # Dirty(Len(r) + 1, R) BY <1>1
  <2>2. PICK k \in 1 .. Len(r) : Where(r, R) = Dirty(k, R) BY <2>1, WhereType
  <2>3. k # Len(r) + 1 BY <1>0
  <2> QED BY <2>2, <2>3 DEF Dirty
<1> QED BY <1>1, <1>2, WherePushed DEF RootHere

\* It is written to, and the pages P may be put on the list besides.
RootSet(t, u, P, N) ==
  /\ RootHere(t) /\ P \cap t.spill = {}
  /\ u.root = t.root /\ u.spill = t.spill /\ u.saved = t.saved
  /\ DOMAIN u.dirty = DOMAIN t.dirty \cup P
  /\ u.dirty[t.root] = N
  /\ \A x \in DOMAIN t.dirty \ P : x # t.root => u.dirty[x] = t.dirty[x]

LEMMA RootPlaces ==
  ASSUME NEW r \in Seq(TxnRec), NEW t \in TxnRec, NEW u \in TxnRec, NEW P, NEW N,
         RootSet(t, u, P, N)
  PROVE  /\ Root(Push(r, u)) = t.root /\ Root(Push(r, t)) = t.root
         /\ \A x : x \notin P => Where(Push(r, u), x) = Where(Push(r, t), x)
         /\ \A x \in P : Where(Push(r, u), x) = Dirty(Len(r) + 1, x)
         /\ Where(Push(r, u), t.root) = Where(Push(r, t), t.root)
<1>1. Root(Push(r, u)) = t.root /\ Root(Push(r, t)) = t.root BY Parts DEF RootSet
<1>2. \A x : x \notin P => Where(Push(r, u), x) = Where(Push(r, t), x)
  BY WherePushed DEF RootSet, RootHere
<1>3. \A x \in P : Where(Push(r, u), x) = Dirty(Len(r) + 1, x) BY WherePushed DEF RootSet
<1>4. Where(Push(r, u), t.root) = Where(Push(r, t), t.root) BY WherePushed DEF RootSet, RootHere
<1> QED BY <1>1, <1>2, <1>3, <1>4

LEMMA RootRead ==
  ASSUME NEW f, NEW r \in Seq(TxnRec), NEW t \in TxnRec, RootHere(t)
  PROVE  Rt(f, Push(r, t)) = t.dirty[t.root]
<1>1. Root(Push(r, t)) = t.root BY Parts
<1>2. Page(f, Push(r, t), t.root) = t.dirty[t.root] BY PagePushed DEF RootHere
<1> QED BY <1>1, <1>2 DEF Rt

LEMMA RootWritten ==
  ASSUME NEW f, NEW r \in Seq(TxnRec), NEW t \in TxnRec, NEW u \in TxnRec, NEW P, NEW N,
         RootSet(t, u, P, N)
  PROVE  Rt(f, Push(r, u)) = N
<1>1. RootHere(u) /\ u.root = t.root /\ u.dirty[t.root] = N BY DEF RootSet, RootHere
<1> QED BY <1>1, RootRead

SetRoot(w, R, N) == [w EXCEPT !.txns[Depth(w)].dirty[R] = N]
Rewritten(t, R, N) == [t EXCEPT !.dirty = [t.dirty EXCEPT ![R] = N]]

LEMMA SetRootMade ==
  ASSUME NEW f, NEW r \in Seq(TxnRec), NEW t \in TxnRec, NEW g, NEW c, NEW q,
         NEW w, w = Made(f, Push(r, t), g, c, q), NEW R \in PageNo, R \in DOMAIN t.dirty,
         NEW N \in PageData
  PROVE  \E u \in TxnRec : /\ u = Rewritten(t, R, N)
                           /\ SetRoot(w, R, N) = Made(f, Push(r, u), g, c, q)
<1>1. [t.dirty EXCEPT ![R] = N] \in DirtyList
  <2>1. t.dirty \in [DOMAIN t.dirty -> PageData] /\ DOMAIN t.dirty \subseteq PageNo BY ListTypes
  <2>2. [t.dirty EXCEPT ![R] = N] \in [DOMAIN t.dirty -> PageData] BY <2>1
  <2> QED BY <2>1, <2>2 DEF DirtyList
<1>2. PICK u \in TxnRec : u = [t EXCEPT !.dirty = [t.dirty EXCEPT ![R] = N]]
  <2>1. PICK D \in DirtyList : D = [t.dirty EXCEPT ![R] = N] BY <1>1
  <2>2. [t EXCEPT !.dirty = D] \in TxnRec BY DEF TxnRec
  <2> QED BY <2>1, <2>2
<1>3. SetRoot(w, R, N) = SetTop(w, [w.txns[Depth(w)] EXCEPT !.dirty = [w.txns[Depth(w)].dirty EXCEPT ![R] = N]])
  BY DEF SetRoot, SetTop
<1>4. w.txns[Depth(w)] = t BY LastParts
<1>5. SetRoot(w, R, N) = SetTop(w, u) BY <1>2, <1>3, <1>4
<1> QED BY <1>2, <1>5, LastMade DEF Rewritten

\* The root page with one child changed.
LEMMA ChildSet ==
  ASSUME NEW f, NEW s, TreeOK(f, s), NEW l \in DOMAIN Rt(f, s), NEW p \in PageNo,
         p \notin TreeOf(f, s), NEW N, N = [Rt(f, s) EXCEPT ![l] = p],
         NEW z, Root(z) = Root(s), Rt(f, z) = N
  PROVE  /\ N \in RootPage /\ DOMAIN N = DOMAIN Rt(f, s) /\ N[l] = p
         /\ \A m \in DOMAIN Rt(f, s) : m # l => N[m] = Rt(f, s)[m]
         /\ TreeOK(f, z) /\ TreeOf(f, z) = (TreeOf(f, s) \ {Rt(f, s)[l]}) \cup {p}
<1> DEFINE A == Rt(f, s)
<1>1. A \in [DOMAIN A -> PageNo] /\ DOMAIN A \subseteq Leaf /\ Root(s) \in PageNo BY RootOf
<1>2. /\ \A k, m \in DOMAIN A : A[k] = A[m] => k = m
      /\ \A k \in DOMAIN A : A[k] # Root(s)
  BY DEF TreeOK
<1>3. p # Root(s) /\ \A m \in DOMAIN A : A[m] # p BY DEF TreeOf
<1> HIDE DEF A
<1>4. N \in [DOMAIN A -> PageNo] /\ DOMAIN N = DOMAIN A /\ N[l] = p
      /\ \A m \in DOMAIN A : m # l => N[m] = A[m]
  BY <1>1 DEF A
<1>5. N \in RootPage BY <1>1, <1>4 DEF RootPage
<1>6. l \in DOMAIN A BY DEF A
<1>7. TreeOK(f, z) BY <1>1, <1>2, <1>3, <1>4, <1>5 DEF TreeOK
<1>8. TreeOf(f, s) = {Root(s)} \cup {A[m] : m \in DOMAIN A} BY DEF TreeOf, A
<1>9. TreeOf(f, z) = {Root(s)} \cup {N[m] : m \in DOMAIN N} BY DEF TreeOf
<1>10. TreeOf(f, z) = (TreeOf(f, s) \ {A[l]}) \cup {p}
  BY <1>2, <1>3, <1>4, <1>6, <1>8, <1>9
<1> QED BY <1>4, <1>5, <1>7, <1>10 DEF A

\* The steps of it for a leaf page.
LEMMA RenumberIs ==
  ASSUME NEW w, NEW p, NEW l, NEW a, a = PageAlloc(w, w.file[p]), a.p # None
  PROVE  Renumber(w, 2, p, l)
           = CursorsOn([[a.w EXCEPT !.txns[Depth(w)].free = @ \cup {p}]
                          EXCEPT !.txns[Depth(w)].dirty[w.path[1][2]][l] = a.p],
                       2, Dirty(Depth(w), a.p))
<1>1. PICK i : i = 2 OBVIOUS
<1>2. Renumber(w, i, p, l)
        = CursorsOn([[a.w EXCEPT !.txns[Depth(w)].free = @ \cup {p}]
                       EXCEPT !.txns[Depth(w)].dirty[w.path[1][2]][l] = a.p],
                    i, Dirty(Depth(w), a.p))
  <2>1. i # 1 BY <1>1
  <2> QED BY <2>1, Zenon DEF Renumber
<1> QED BY <1>1, <1>2

LEMMA RenumberLeaf ==
  ASSUME MetaOK, NEW w, NEW l, Sound(w, l), w.path[2][1] = 0, ~Spilled(w, w.path[2][2]),
         RootHere(This(w))
  PROVE  Touched(w, Renumber(w, 2, w.path[2][2], l), l, 2)
<1> USE DEF Whole
<1>1. PICK f, r, t, g, c, q : Whole(w, l, f, r, t, g, c, q) BY SoundParts
<1> DEFINE s == Push(r, t)
<1>a. PICK R, p0 : R = t.root /\ p0 = Rt(f, s)[l] OBVIOUS
<1>2. p0 \in PageNo /\ q[2] = Where(s, p0) /\ q[2][2] = p0 /\ p0 \in TreeOf(f, s)
  BY <1>1, <1>a, PathPage DEF PageOn
<1>3. RootHere(t) /\ R \in PageNo /\ R = t.root BY <1>1, <1>a DEF TxnRec
<1>4. Root(s) = R /\ Rt(f, s) = t.dirty[R]
  <2>1. Root(s) = R BY <1>1, <1>3, Parts
  <2> QED BY <1>1, <1>3, <2>1, RootRead
<1>5. TreeOK(f, s) BY <1>1 DEF Level
<1>6. q[1][2] = R BY <1>1, <1>4, PathPage DEF PageOn
<1>7. f[p0] \in PageData BY <1>1, <1>2
<1>8. \/ PageAlloc(w, f[p0]) = [w |-> Fail(w), p |-> None]
      \/ \E h, p, n : \E v \in TxnRec :
           /\ Taken(f, s, h, p, n) /\ NewOn(t, v, p, f[p0], n) /\ t.room # 0
           /\ PageAlloc(w, f[p0]) = [w |-> Made(f, Push(r, v), h, c, q), p |-> p]
  BY <1>1, <1>7, AllocMade
<1>9. CASE PageAlloc(w, f[p0]) = [w |-> Fail(w), p |-> None]
  <2>1. PageAlloc(w, w.file[p0]).w = Fail(w) /\ PageAlloc(w, w.file[p0]).p = None BY <1>1, <1>9
  <2>2. Renumber(w, 2, p0, l) = Fail(w) BY <2>1 DEF Renumber
  <2> QED BY <1>1, <1>2, <2>2, FailTouched
<1>10. CASE \E h, p, n : \E v \in TxnRec :
             /\ Taken(f, s, h, p, n) /\ NewOn(t, v, p, f[p0], n) /\ t.room # 0
             /\ PageAlloc(w, f[p0]) = [w |-> Made(f, Push(r, v), h, c, q), p |-> p]
  <2>1. PICK h, p, n : \E v \in TxnRec :
             /\ Taken(f, s, h, p, n) /\ NewOn(t, v, p, f[p0], n) /\ t.room # 0
             /\ PageAlloc(w, f[p0]) = [w |-> Made(f, Push(r, v), h, c, q), p |-> p]
    BY <1>10
  <2>2. PICK v \in TxnRec :
             /\ Taken(f, s, h, p, n) /\ NewOn(t, v, p, f[p0], n)
             /\ PageAlloc(w, f[p0]) = [w |-> Made(f, Push(r, v), h, c, q), p |-> p]
    BY <2>1
  <2>3. p \in PageNo /\ p \notin TreeOf(f, s) /\ h \in PgRec BY <2>2 DEF Taken
  <2>4. p \notin Listed(Push(r, t)) /\ p \notin DOMAIN t.dirty /\ p \notin t.spill
    <3>1. Level(f, Push(r, t), g) /\ Taken(f, Push(r, t), h, p, n) BY <1>1, <2>2
    <3> QED BY <1>1, <3>1, TakenNew
  <2>5. p # R BY <1>3, <2>4 DEF RootHere
  <2>b. PICK N : N = [t.dirty[R] EXCEPT ![l] = p] OBVIOUS
  <2>6. N \in RootPage
    <3>1. PICK D \in SUBSET Leaf : t.dirty[R] \in [D -> PageNo] BY <1>4, <1>5 DEF TreeOK, RootPage
    <3>2. N \in [D -> PageNo] BY <2>b, <2>3, <3>1
    <3> QED BY <3>2 DEF RootPage
  <2>7. /\ v.dirty = With(t.dirty, p, f[p0]) /\ DOMAIN v.dirty = DOMAIN t.dirty \cup {p}
        /\ R \in DOMAIN v.dirty /\ v.dirty[R] = t.dirty[R]
        /\ \A x \in DOMAIN t.dirty : x # p => v.dirty[x] = t.dirty[x]
    BY <1>3, <2>2, <2>5 DEF NewOn, With, RootHere
  <2>8. PICK v1 \in TxnRec : v1 = [v EXCEPT !.free = v.free \cup {p0}] BY <1>2 DEF TxnRec
  <2>9. v1.dirty = v.dirty BY <2>8 DEF TxnRec
  <2>10. PICK y : y = Made(f, Push(r, v), h, c, q) OBVIOUS
  <2>11. PICK y1 : y1 = SetTop(y, v1) OBVIOUS
  <2>12. y1 = Made(f, Push(r, v1), h, c, q) BY <1>1, <2>10, <2>11, LastMade
  <2>13. PICK u \in TxnRec : /\ u = Rewritten(v1, R, N)
                             /\ SetRoot(y1, R, N) = Made(f, Push(r, u), h, c, q)
    <3>1. R \in DOMAIN v1.dirty /\ N \in PageData BY <2>6, <2>7, <2>9 DEF PageData
    <3> QED BY <1>1, <1>3, <2>12, <3>1, SetRootMade
  <2>14. /\ u.root = t.root /\ u.next = n /\ u.free = t.free \cup {p0} /\ u.saved = t.saved
         /\ u.dirty = [v.dirty EXCEPT ![R] = N] /\ u.spill = t.spill /\ u.room = t.room - 1
    <3> QED BY <1>1, <2>2, <2>8, <2>9, <2>13 DEF TxnRec, NewOn, Rewritten
  <2>15. RootSet(t, u, {p}, N) /\ OneMore(t, u, p)
    <3> QED BY <1>3, <2>4, <2>7, <2>14 DEF RootSet, OneMore
  <2> DEFINE z == Push(r, u)  mem == Dirty(Len(r) + 1, p)  d == Moved(c, q, 2, mem)
  <2>16. /\ Root(z) = R /\ Rt(f, z) = N
         /\ \A x : x # p => Where(z, x) = Where(s, x)
         /\ Where(z, p) = mem /\ Where(z, R) = Where(s, R)
    <3>1. PICK P : P = {p} OBVIOUS
    <3>2. RootSet(t, u, P, N) BY <2>15, <3>1
    <3>3. /\ Root(z) = t.root
          /\ \A x : x \notin P => Where(z, x) = Where(s, x)
          /\ \A x \in P : Where(z, x) = Dirty(Len(r) + 1, x)
          /\ Where(z, t.root) = Where(s, t.root)
      BY <1>1, <3>2, RootPlaces
    <3>4. Rt(f, z) = N BY <1>1, <3>2, RootWritten
    <3> QED BY <1>3, <3>1, <3>3, <3>4
  <2>17. /\ u.room = UmMax - Cardinality(Visible(z)) /\ Lists(u) = Lists(t) \cup {p} /\ ListsApart(z)
    <3> HIDE DEF mem, d
    <3> QED BY <1>1, <2>4, <2>15, NewRoom
  <2> HIDE DEF z
  <2>18. /\ DOMAIN N = DOMAIN Rt(f, s) /\ N[l] = p
         /\ \A m \in DOMAIN Rt(f, s) : m # l => N[m] = Rt(f, s)[m]
         /\ TreeOK(f, z) /\ TreeOf(f, z) = (TreeOf(f, s) \ {p0}) \cup {p}
    <3>1. N = [Rt(f, s) EXCEPT ![l] = p] BY <1>4, <2>b
    <3>2. Root(z) = Root(s) /\ Rt(f, z) = N BY <1>4, <2>16
    <3> HIDE DEF s
    <3> QED BY <1>1, <1>a, <1>5, <2>3, <3>1, <3>2, ChildSet DEF s
  <2>19. Level(f, z, h)
    <3>1. PICK F : F = {p0} OBVIOUS
    <3> HIDE DEF s
    <3>2. F \subseteq TreeOf(f, s) /\ u.free = t.free \cup F /\ TreeOf(f, z) = (TreeOf(f, s) \ F) \cup {p}
      BY <1>2, <2>14, <2>18, <3>1
    <3>3. TreeOK(f, z) BY <2>18
    <3>4. u.next = n /\ u.root = t.root BY <2>14
    <3>5. Onto(f, r, t, u, g, h, p, n, F)
      BY <1>1, <2>2, <2>17, <3>2, <3>3, <3>4 DEF Onto, z, s
    <3> QED BY <3>5, NewTree DEF z
  <2>20. CursTop(f, z, d) /\ Replaced(q, 2, mem) = PathTo(f, z, l)
    <3>1. \A m \in DOMAIN Rt(f, s) : m # l => Where(z, Rt(f, z)[m]) = Where(s, Rt(f, s)[m])
      <4>1. \A m \in DOMAIN Rt(f, s) : Rt(f, s)[m] # p BY <2>3 DEF TreeOf
      <4> QED BY <2>16, <2>18, <4>1
    <3>2. mem = Where(z, Rt(f, z)[l]) BY <2>16, <2>18
    <3>3. z \in Seq(TxnRec) BY <1>1, Pushed DEF z
    <3>4. Where(z, Root(z)) = Where(s, Root(s)) /\ DOMAIN Rt(f, z) = DOMAIN Rt(f, s)
      BY <1>4, <2>16, <2>18
    <3>5. TreeOK(f, z) BY <2>18
    <3>6. /\ s \in Seq(TxnRec) /\ c \in CursorTable /\ CursTop(f, s, c) /\ l \in DOMAIN Rt(f, s)
          /\ q = PathTo(f, s, l)
      BY <1>1
    <3> HIDE DEF s, mem
    <3>7. /\ CursTop(f, z, Moved(c, PathTo(f, s, l), 2, Where(z, Rt(f, z)[l])))
          /\ Replaced(PathTo(f, s, l), 2, Where(z, Rt(f, z)[l])) = PathTo(f, z, l)
      BY <1>5, <3>1, <3>3, <3>4, <3>5, <3>6, MovedLeaf
    <3> QED BY <3>2, <3>6, <3>7
  <2>21. d \in CursorTable /\ Alike(c, d)
    <3>1. mem \in Memory BY <1>1, <2>3, <2>16, Places, Pushed DEF z
    <3>2. q \in PathRec BY <1>1, <1>5, Paths
    <3> HIDE DEF mem
    <3> QED BY <1>1, <3>1, <3>2, MovedTypes
  <2> HIDE DEF d, mem
  <2>22. l \in DOMAIN Rt(f, z) BY <1>1, <2>16, <2>18
  <2>23. At(f, r, u, h, d, PathTo(f, z, l), l)
    <3> HIDE DEF s
    <3> QED BY <1>1, <2>3, <2>14, <2>17, <2>19, <2>20, <2>21, <2>22, NewLast DEF z, s
  <2>24. Renumber(w, 2, p0, l) = CursorsOn(SetRoot(y1, R, N), 2, mem)
    <3>1. y.txns[Depth(y)] = v /\ Depth(y) = Depth(w) BY <1>1, <2>10, LastParts
    <3>2. [y EXCEPT !.txns[Depth(y)].free = @ \cup {p0}]
            = SetTop(y, [y.txns[Depth(y)] EXCEPT !.free = y.txns[Depth(y)].free \cup {p0}])
      BY DEF SetTop
    <3>3. [y EXCEPT !.txns[Depth(w)].free = @ \cup {p0}] = y1 BY <2>8, <2>11, <3>1, <3>2
    <3>4. y1.txns[Depth(y1)] = v1 /\ Depth(y1) = Depth(w) BY <1>1, <2>12, LastParts
    <3>5. [y1 EXCEPT !.txns[Depth(y1)].dirty[R][l] = p]
            = SetRoot(y1, R, [y1.txns[Depth(y1)].dirty[R] EXCEPT ![l] = p])
      BY DEF SetRoot
    <3>6. [y1 EXCEPT !.txns[Depth(w)].dirty[R][l] = p] = SetRoot(y1, R, N)
      BY <2>b, <2>7, <2>9, <3>4, <3>5
    <3>7. PageAlloc(w, w.file[p0]).w = y /\ PageAlloc(w, w.file[p0]).p = p /\ p # None
      <4>1. PageAlloc(w, w.file[p0]) = [w |-> y, p |-> p] BY <1>1, <2>2, <2>10
      <4>2. p # None BY <2>3 DEF PageNo, FirstPg, None
      <4> QED BY <4>1, <4>2
    <3>8. Renumber(w, 2, p0, l)
            = CursorsOn([[y EXCEPT !.txns[Depth(w)].free = @ \cup {p0}] EXCEPT !.txns[Depth(w)].dirty[R][l] = p], 2, mem)
      <4>1. PICK a : a = PageAlloc(w, w.file[p0]) OBVIOUS
      <4>2. Renumber(w, 2, p0, l)
              = CursorsOn([[a.w EXCEPT !.txns[Depth(w)].free = @ \cup {p0}]
                             EXCEPT !.txns[Depth(w)].dirty[w.path[1][2]][l] = a.p], 2, Dirty(Depth(w), a.p))
        BY <3>7, <4>1, RenumberIs
      <4>3. w.path[1][2] = R /\ mem = Dirty(Depth(w), p) /\ a.w = y /\ a.p = p
        BY <1>1, <1>6, <3>7, <4>1 DEF mem
      <4> QED BY <4>2, <4>3
    <3> QED BY <3>3, <3>6, <3>8
  <2>25. Renumber(w, 2, p0, l) = Made(f, z, h, d, Replaced(q, 2, mem))
    <3> QED BY <2>13, <2>24, CursorsMade DEF d, z
  <2>26. Touched(w, Renumber(w, 2, p0, l), l, 2)
    <3>1. At(f, r, u, h, Moved(c, q, 2, mem), Replaced(q, 2, mem), l) BY <2>20, <2>23 DEF d
    <3>2. Renumber(w, 2, p0, l) = Made(f, Push(r, u), h, Moved(c, q, 2, mem), Replaced(q, 2, mem))
      BY <2>25 DEF d, z
    <3>3. Held(f, Push(r, u)) = Held(f, Push(r, t))
      <4>1. ASSUME NEW m \in DOMAIN Rt(f, s)
            PROVE  Page(f, z, N[m]) = Page(f, s, Rt(f, s)[m])
        <5>1. CASE m = l
          <6>1. Page(f, z, p) = f[p0]
            <7>1. p \in DOMAIN u.dirty /\ p \notin u.spill /\ u.dirty[p] = f[p0]
              BY <2>4, <2>5, <2>7, <2>14 DEF With
            <7> HIDE DEF s
            <7> QED BY <1>1, <7>1, PagePushed DEF z
          <6>2. Page(f, s, p0) = f[p0]
            <7>1. Where(s, p0) = InMap(p0) BY <1>1, <1>2, InMapIs
            <7> QED BY <7>1 DEF Page, Content, InMap
          <6> QED BY <1>a, <2>18, <5>1, <6>1, <6>2
        <5>2. CASE m # l
          <6>1. PICK x : x = Rt(f, s)[m] OBVIOUS
          <6>2. x # p /\ x # R /\ N[m] = x
            <7>1. x # p BY <2>3, <6>1 DEF TreeOf
            <7>2. x # R BY <1>4, <1>5, <6>1 DEF TreeOK
            <7> QED BY <2>18, <5>2, <6>1, <7>1, <7>2
          <6>3. /\ x \in DOMAIN u.dirty <=> x \in DOMAIN t.dirty
                /\ x \in DOMAIN t.dirty => u.dirty[x] = t.dirty[x]
                /\ u.spill = t.spill
            BY <2>7, <2>14, <6>2
          <6> HIDE DEF s
          <6>4. Page(f, z, x) = IF x \in u.spill THEN f[x]
                   ELSE IF x \in DOMAIN u.dirty THEN u.dirty[x] ELSE Page(f, r, x)
            BY <1>1, PagePushed DEF z
          <6>5. Page(f, s, x) = IF x \in t.spill THEN f[x]
                   ELSE IF x \in DOMAIN t.dirty THEN t.dirty[x] ELSE Page(f, r, x)
            BY <1>1, PagePushed DEF s
          <6> QED BY <6>1, <6>2, <6>3, <6>4, <6>5
        <5> QED BY <5>1, <5>2
      <4>2. DOMAIN N = DOMAIN Rt(f, s) /\ Rt(f, z) = N BY <2>16, <2>18
      <4> HIDE DEF s
      <4>3. Held(f, z) = Held(f, s) BY <4>1, <4>2 DEF Held
      <4> QED BY <4>3 DEF z, s
    <3>4. mem = Dirty(Len(r) + 1, p) BY DEF mem
    <3> HIDE DEF s
    <3> QED BY <1>1, <3>1, <3>2, <3>3, <3>4, TouchedIs
  <2> QED BY <1>1, <1>2, <2>26
<1> QED BY <1>8, <1>9, <1>10

-----------------------------------------------------------------------------
(* mdb_page_touch and mdb_cursor_touch.                                     *)

LEMMA IsHere ==
  ASSUME NEW r \in Seq(TxnRec), NEW t \in TxnRec, NEW p
  PROVE  Where(Push(r, t), p)[1] = Len(r) + 1 <=> p \in DOMAIN t.dirty /\ p \notin t.spill
<1>1. Len(r) \in Nat BY Pushed
<1>2. InMap(p)[1] # Len(r) + 1 /\ Dirty(Len(r) + 1, p)[1] = Len(r) + 1 BY <1>1 DEF InMap, Dirty
<1>3. Where(r, p)[1] # Len(r) + 1
  <2>1. SUFFICES ASSUME Where(r, p) # InMap(p) PROVE Where(r, p)[1] # Len(r) + 1 BY <1>2
  <2>2. PICK k \in 1 .. Len(r) : Where(r, p) = Dirty(k, p) BY <2>1, WhereType
  <2>3. k # Len(r) + 1 BY <1>1
  <2> QED BY <2>2, <2>3 DEF Dirty
<1> QED BY <1>2, <1>3, WherePushed

\* The root page is in the last transaction's list.
LEMMA RootReady ==
  ASSUME NEW w, NEW l, Sound(w, l), w.path[1][1] = Depth(w)
  PROVE  RootHere(This(w))
<1> USE DEF Whole
<1>1. PICK f, r, t, g, c, q : Whole(w, l, f, r, t, g, c, q) BY SoundParts
<1>2. q[1] = Where(Push(r, t), Root(Push(r, t))) BY <1>1, PathPage DEF PageOn
<1>3. Root(Push(r, t)) = t.root BY <1>1, Parts
<1> QED BY <1>1, <1>2, <1>3, IsHere DEF RootHere

\* A page that the last transaction has not copied is not in its list.
LEMMA NotHere ==
  ASSUME NEW w, NEW l, Sound(w, l), NEW i \in {1, 2}, w.path[i][1] # 0
  PROVE  /\ Depth(w) = 1 => w.path[i][1] = Depth(w)
         /\ w.path[i] = Dirty(Depth(w), w.path[i][2]) => w.path[i][1] = Depth(w)
<1> USE DEF Whole
<1>1. PICK f, r, t, g, c, q : Whole(w, l, f, r, t, g, c, q) BY SoundParts
<1> DEFINE p == PageOn(f, Push(r, t), i, l)
<1>2. q[i] = Where(Push(r, t), p) BY <1>1, PathPage
<1>3. q[i][1] \in 1 .. Len(Push(r, t)) BY <1>1, <1>2, InMapIs
<1>4. Len(Push(r, t)) = Len(r) + 1 BY <1>1, Pushed
<1> QED BY <1>1, <1>3, <1>4 DEF Dirty

LEMMA TouchSound ==
  ASSUME MetaOK, NEW w, NEW l, Sound(w, l), NEW i \in {1, 2}, i = 2 => RootHere(This(w))
  PROVE  Touched(w, PageTouch(w, i, l), l, i)
<1> DEFINE mem == w.path[i]  p == mem[2]
<1>1. CASE mem[1] = 0 /\ Spilled(w, p)
  <2>1. PageTouch(w, i, l) = Unspill(w, i, p) BY <1>1 DEF PageTouch
  <2> QED BY <1>1, <2>1, UnspillSound
<1>2. CASE mem[1] = 0 /\ ~Spilled(w, p)
  <2>1. PageTouch(w, i, l) = Renumber(w, i, p, l) BY <1>2 DEF PageTouch
  <2>2. CASE i = 1 BY <1>2, <2>1, <2>2, RenumberRoot
  <2>3. CASE i = 2 BY <1>2, <2>1, <2>3, RenumberLeaf
  <2> QED BY <2>2, <2>3
<1>3. CASE mem[1] # 0 /\ (Depth(w) = 1 \/ mem = Dirty(Depth(w), p))
  <2>1. PageTouch(w, i, l) = w BY <1>3 DEF PageTouch
  <2>2. w.path[i][1] = Depth(w) BY <1>3, NotHere
  <2> QED BY <2>1, <2>2, AlongsideSelf DEF Touched
<1>4. CASE /\ mem[1] # 0 /\ ~(Depth(w) = 1 \/ mem = Dirty(Depth(w), p))
           /\ p \in DOMAIN This(w).dirty
  <2>1. PageTouch(w, i, l) = Fail(w) BY <1>4 DEF PageTouch
  <2> QED BY <2>1, FailTouched
<1>5. CASE /\ mem[1] # 0 /\ ~(Depth(w) = 1 \/ mem = Dirty(Depth(w), p))
           /\ p \notin DOMAIN This(w).dirty
  <2>1. PageTouch(w, i, l) = CopyHere(w, i, w.path[i]) BY <1>5 DEF PageTouch
  <2> QED BY <1>5, <2>1, CopySound
<1> QED BY <1>1, <1>2, <1>3, <1>4, <1>5

\* Both pages of the path are in the list now, or it went wrong.
Ready(v, w, l) ==
  Sound(w, l) /\ Alongside(v, w) /\ (Good(w) => w.path[1][1] = Depth(w) /\ w.path[2][1] = Depth(w))

LEMMA CursorTouchSound ==
  ASSUME MetaOK, NEW w, NEW l, Sound(w, l)
  PROVE  Ready(w, CursorTouch(w, l), l)
<1>1. PICK x : x = PageTouch(w, 1, l) OBVIOUS
<1>2. Touched(w, x, l, 1) BY <1>1, TouchSound
<1>3. CASE ~Good(x)
  <2>1. CursorTouch(w, l) = x BY <1>1, <1>3 DEF CursorTouch, Then
  <2> QED BY <1>2, <1>3, <2>1 DEF Ready, Touched
<1>4. CASE Good(x)
  <2>1. PICK y : y = PageTouch(x, 2, l) OBVIOUS
  <2>2. CursorTouch(w, l) = y BY <1>1, <1>4, <2>1 DEF CursorTouch, Then
  <2>3. Sound(x, l) /\ x.path[1][1] = Depth(x) BY <1>2, <1>4 DEF Touched
  <2>4. RootHere(This(x)) BY <2>3, RootReady
  <2>5. Touched(x, y, l, 2) BY <2>1, <2>3, <2>4, TouchSound
  <2>6. Alongside(w, y) BY <1>2, <2>5, AlongsideTwice DEF Touched
  <2> QED BY <1>2, <2>2, <2>3, <2>5, <2>6 DEF Ready, Touched
<1> QED BY <1>3, <1>4

-----------------------------------------------------------------------------
(* mdb_page_spill.                                                          *)

\* The last transaction t writes its pages X to the file.
Spilt(t, u, X) ==
  /\ u.root = t.root /\ u.next = t.next /\ u.free = t.free /\ u.saved = t.saved
  /\ DOMAIN u.dirty = DOMAIN t.dirty \ X /\ u.spill = t.spill \cup X
  /\ \A p \in DOMAIN u.dirty : u.dirty[p] = t.dirty[p]
  /\ u.room = t.room + Cardinality(X)
WithPages(f, e, t, X) ==
  /\ X \subseteq DOMAIN t.dirty /\ X \cap t.spill = {}
  /\ \A p \in X : e[p] = t.dirty[p]
  /\ \A p \in PageNo \ X : e[p] = f[p]

LEMMA SpiltPlaces ==
  ASSUME NEW r \in Seq(TxnRec), NEW t \in TxnRec, NEW u \in TxnRec, NEW X, Spilt(t, u, X)
  PROVE  \A p : p \notin X => Where(Push(r, u), p) = Where(Push(r, t), p)
BY WherePushed DEF Spilt

LEMMA SpiltPages ==
  ASSUME NEW f, NEW e, NEW r \in Seq(TxnRec), NEW t \in TxnRec, NEW u \in TxnRec, NEW X,
         Spilt(t, u, X), WithPages(f, e, t, X)
  PROVE  \A p \in PageNo : Page(e, Push(r, u), p) = Page(f, Push(r, t), p)
<1> TAKE p \in PageNo
<1>1. CASE p \in X
  <2>1. Page(e, Push(r, u), p) = e[p] BY <1>1, PagePushed DEF Spilt
  <2>2. Page(f, Push(r, t), p) = t.dirty[p] BY <1>1, PagePushed DEF WithPages
  <2> QED BY <1>1, <2>1, <2>2 DEF WithPages
<1>2. CASE p \notin X
  <2>1. e[p] = f[p] BY <1>2 DEF WithPages
  <2>2. Page(e, r, p) = Page(f, r, p)
    <3>1. CASE Where(r, p) = InMap(p) BY <2>1, <3>1 DEF Page, Content, InMap
    <3>2. CASE Where(r, p) # InMap(p)
      <4>1. PICK k \in 1 .. Len(r) : Where(r, p) = Dirty(k, p) BY <3>2, WhereType
      <4>2. k # 0 OBVIOUS
      <4> QED BY <4>1, <4>2 DEF Page, Content, Dirty
    <3> QED BY <3>1, <3>2
  <2>3. Page(e, Push(r, u), p) = IF p \in u.spill THEN e[p]
           ELSE IF p \in DOMAIN u.dirty THEN u.dirty[p] ELSE Page(e, r, p)
    BY PagePushed
  <2>4. Page(f, Push(r, t), p) = IF p \in t.spill THEN f[p]
           ELSE IF p \in DOMAIN t.dirty THEN t.dirty[p] ELSE Page(f, r, p)
    BY PagePushed
  <2> QED BY <1>2, <2>1, <2>2, <2>3, <2>4 DEF Spilt
<1> QED BY <1>1, <1>2

LEMMA SpiltRoom ==
  ASSUME NEW r \in Seq(TxnRec), NEW t \in TxnRec, NEW u \in TxnRec, NEW X, Spilt(t, u, X),
         X \subseteq DOMAIN t.dirty, X \cap t.spill = {},
         t.room = UmMax - Cardinality(Visible(Push(r, t)))
  PROVE  /\ u.room = UmMax - Cardinality(Visible(Push(r, u)))
         /\ Listed(Push(r, u)) = Listed(Push(r, t))
<1> DEFINE s == Push(r, t)  z == Push(r, u)
<1>1. Visible(s) = (Visible(r) \cup DOMAIN t.dirty) \ t.spill BY SeenPushed
<1>2. Visible(z) = (Visible(r) \cup DOMAIN u.dirty) \ u.spill BY SeenPushed
<1>3. Visible(z) = Visible(s) \ X /\ X \subseteq Visible(s) BY <1>1, <1>2 DEF Spilt
<1>4. s \in Seq(TxnRec) BY Pushed
<1>5. IsFiniteSet(Visible(s)) /\ Cardinality(Visible(s)) \in Nat BY <1>4, Seen
<1>6. IsFiniteSet(X) /\ Cardinality(X) \in Nat BY <1>3, <1>5, FS_Subset, FS_CardinalityType
<1>7. Visible(s) \cap X = X BY <1>3
<1>8. Cardinality(Visible(z)) = Cardinality(Visible(s)) - Cardinality(X)
  <2>1. Cardinality(Visible(s) \ X) = Cardinality(Visible(s)) - Cardinality(Visible(s) \cap X)
    BY <1>5, FS_Difference
  <2> QED BY <1>3, <1>7, <2>1
<1>9. u.room = UmMax - Cardinality(Visible(z))
  BY <1>5, <1>6, <1>8, NestedAssumption DEF NestedAssumption, Spilt
<1>10. Listed(s) = Listed(r) \cup Lists(t) BY Parts
<1>11. Listed(z) = Listed(r) \cup Lists(u) BY Parts
<1>12. Lists(u) = Lists(t) BY DEF Spilt, Lists
<1> QED BY <1>9, <1>10, <1>11, <1>12

\* Every page that a cursor on leaf l has in the last transaction's list is kept.
LEMMA KeptPath ==
  ASSUME NEW w, NEW l, NEW f, NEW r, NEW t, NEW g, NEW c, NEW q, Whole(w, l, f, r, t, g, c, q),
         NEW X, X \cap Kept(w) = {}, X \subseteq DOMAIN t.dirty, X \cap t.spill = {}
  PROVE  /\ t.root \notin X /\ Rt(f, Push(r, t))[l] \notin X
         /\ \A x \in DOMAIN c : Rt(f, Push(r, t))[c[x].leaf] \notin X
<1> USE DEF Whole
<1> DEFINE s == Push(r, t)
<1>1. t.root \notin X BY DEF Kept
<1>2. TreeOK(f, s) BY DEF Level
<1>3. ASSUME NEW m \in DOMAIN Rt(f, s), NEW y, y = PathTo(f, s, m),
             y = q \/ \E x \in DOMAIN c : y = c[x].path
      PROVE  Rt(f, s)[m] \notin X
  <2> DEFINE p == Rt(f, s)[m]
  <2>1. SUFFICES ASSUME p \in X PROVE FALSE OBVIOUS
  <2>2. Where(s, p)[1] = Len(r) + 1 BY <2>1, IsHere
  <2>3. y[2] = Where(s, p) /\ y \in PathRec BY <1>2, <1>3, Paths
  <2>4. p \in PageNo BY <1>2, RootOf
  <2>5. Where(s, p)[2] = p BY <2>4, Places
  <2>6. y[2] \in ToSet(y) BY <2>3 DEF ToSet, PathRec
  <2>7. y[2] \in ToSet(w.path) \cup UNION {ToSet(x.path) : x \in Range(w.cur)}
    <3>1. CASE y = q BY <2>6, <3>1
    <3>2. CASE \E x \in DOMAIN c : y = c[x].path
      <4>1. PICK x \in DOMAIN c : y = c[x].path BY <3>2
      <4>2. c[x] \in Range(w.cur) BY DEF Range
      <4> QED BY <2>6, <4>1, <4>2
    <3> QED BY <1>3, <3>1, <3>2
  <2>8. y[2][1] = Depth(w) /\ y[2][2] = p BY <2>2, <2>3, <2>5
  <2> HIDE DEF p, s
  <2>9. p \in Kept(w) BY <2>7, <2>8 DEF Kept
  <2> QED BY <2>1, <2>9
<1>4. Rt(f, s)[l] \notin X BY <1>3
<1>5. ASSUME NEW x \in DOMAIN c PROVE Rt(f, s)[c[x].leaf] \notin X
  <2>1. c[x].leaf \in DOMAIN Rt(f, s) /\ c[x].path = PathTo(f, s, c[x].leaf) BY DEF CursTop
  <2> QED BY <1>3, <2>1
<1> QED BY <1>1, <1>4, <1>5

LEMMA SpiltSound ==
  ASSUME NEW w, NEW l, NEW f, NEW r, NEW t, NEW g, NEW c, NEW q, Whole(w, l, f, r, t, g, c, q),
         NEW u \in TxnRec, NEW X, Spilt(t, u, X),
         NEW e \in [PageNo -> PageData], WithPages(f, e, t, X),
         X \cap Kept(w) = {}, \A k \in 1 .. Len(r) : X \cap r[k].spill = {}
  PROVE  /\ At(e, r, u, g, c, q, l) /\ Rt(e, Push(r, u)) = Rt(f, Push(r, t))
         /\ Held(e, Push(r, u)) = Held(f, Push(r, t))
         /\ \A k \in 0 .. Len(r) : Held(e, SubSeq(r, 1, k)) = Held(f, SubSeq(r, 1, k))
<1> DEFINE s == Push(r, t)  z == Push(r, u)
<1>1. X \subseteq DOMAIN t.dirty /\ X \cap t.spill = {} BY DEF WithPages
<1>15. /\ t.root \notin X /\ Rt(f, s)[l] \notin X
       /\ \A x \in DOMAIN c : Rt(f, s)[c[x].leaf] \notin X
  BY <1>1, KeptPath
<1> USE DEF Whole
<1>2. z \in Seq(TxnRec) BY Pushed
<1>3. /\ Stack(f, r, t.saved) /\ CursLow(f, r, c) /\ Level(f, s, g) BY DEF At
<1>4. X \cap TreeOf(f, <<>>) = {}
  <2>1. Listed(s) = Listed(r) \cup Lists(t) BY Parts
  <2>2. Listed(s) \cap TreeOf(f, <<>>) = {} BY <1>3 DEF Level, ListOK
  <2> QED BY <1>1, <2>1, <2>2 DEF Lists
<1>5. Harmless(f, e, X, r) BY <1>4 DEF Harmless, WithPages
<1>6. /\ Stack(e, r, t.saved)
      /\ \A k \in 0 .. Len(r) : /\ Rt(e, SubSeq(r, 1, k)) = Rt(f, SubSeq(r, 1, k))
                                /\ Held(e, SubSeq(r, 1, k)) = Held(f, SubSeq(r, 1, k))
                                /\ \A m : PathTo(e, SubSeq(r, 1, k), m) = PathTo(f, SubSeq(r, 1, k), m)
  BY <1>3, <1>5, StackKept
<1>7. TreeOf(e, <<>>) = TreeOf(f, <<>>)
  <2>1. Level(f, <<>>, NoPages) BY <1>3, StackEmpty
  <2> QED BY <1>5, <2>1, CommittedKept
<1>8. \A p \in PageNo : Page(e, z, p) = Page(f, s, p) BY SpiltPages
<1>9. Root(z) = t.root /\ Root(s) = t.root
  <2>1. u.root = t.root BY DEF Spilt
  <2> QED BY <2>1, Parts
<1>10. Rt(e, z) = Rt(f, s)
  <2>1. t.root \in PageNo BY DEF TxnRec
  <2> QED BY <1>8, <1>9, <2>1 DEF Rt
<1>11. u.room = UmMax - Cardinality(Visible(z)) /\ Listed(z) = Listed(s) BY <1>1, SpiltRoom
<1>12. Level(e, z, g)
  <2>1. u.root = t.root /\ u.next = t.next /\ u.free = t.free BY DEF Spilt
  <2> QED BY <1>3, <1>7, <1>10, <1>11, <2>1, SameTree
<1>13. ListsApart(z)
  <2>1. ListsApart(r) /\ t.spill \cap DOMAIN t.dirty = {} /\ \A j \in DOMAIN r : r[j].spill \cap t.spill = {}
    BY ApartPushed
  <2>2. \A j \in DOMAIN r : r[j].spill \cap u.spill = {} BY <2>1 DEF Spilt
  <2>3. u.spill \cap DOMAIN u.dirty = {} BY <2>1 DEF Spilt
  <2> QED BY <2>1, <2>2, <2>3, ApartPushed
<1>14. \A p : p \notin X => Where(z, p) = Where(s, p) BY SpiltPlaces
<1>16. \A m : Rt(f, s)[m] \notin X => PathTo(e, z, m) = PathTo(f, s, m)
  <2>1. Where(z, Root(z)) = Where(s, Root(s)) BY <1>9, <1>14, <1>15
  <2>2. \A m : PathTo(e, z, m) = <<Where(z, Root(z)), Where(z, Rt(e, z)[m])>> BY DEF PathTo, Rt
  <2>3. \A m : PathTo(f, s, m) = <<Where(s, Root(s)), Where(s, Rt(f, s)[m])>> BY DEF PathTo, Rt
  <2> HIDE DEF s, z
  <2> QED BY <1>10, <1>14, <2>1, <2>2, <2>3
<1> HIDE DEF s, z
<1>17. CursTop(e, z, c) BY <1>10, <1>15, <1>16 DEF CursTop, s
<1>18. CursLow(e, r, c)
  <2> SUFFICES ASSUME NEW x \in DOMAIN c
      PROVE  /\ c[x].own \in 1 .. Len(r) + 1
             /\ Len(c[x].backup) = Len(r) + 1 - c[x].own
             /\ \A k \in c[x].own .. Len(r) :
                  /\ c[x].leaf \in DOMAIN Rt(e, SubSeq(r, 1, k))
                  /\ c[x].backup[k - c[x].own + 1] = PathTo(e, SubSeq(r, 1, k), c[x].leaf)
    BY DEF CursLow
  <2>1. c[x].own \in 1 .. Len(r) + 1 /\ Len(c[x].backup) = Len(r) + 1 - c[x].own
    BY <1>3 DEF CursLow
  <2>2. ASSUME NEW k \in c[x].own .. Len(r)
        PROVE  /\ c[x].leaf \in DOMAIN Rt(e, SubSeq(r, 1, k))
               /\ c[x].backup[k - c[x].own + 1] = PathTo(e, SubSeq(r, 1, k), c[x].leaf)
    <3>1. k \in 0 .. Len(r) BY <2>1
    <3>2. /\ c[x].leaf \in DOMAIN Rt(f, SubSeq(r, 1, k))
          /\ c[x].backup[k - c[x].own + 1] = PathTo(f, SubSeq(r, 1, k), c[x].leaf)
      BY <1>3 DEF CursLow
    <3> QED BY <1>6, <3>1, <3>2
  <2> QED BY <2>1, <2>2
<1>19. l \in DOMAIN Rt(e, z) /\ q = PathTo(e, z, l) BY <1>10, <1>15, <1>16 DEF s
<1>20. Stack(e, r, u.saved) BY <1>6 DEF Spilt
<1>21. Held(e, z) = Held(f, s)
  <2>1. \A m \in DOMAIN Rt(f, s) : Rt(f, s)[m] \in PageNo
    <3>1. TreeOK(f, s) BY <1>3 DEF Level, s
    <3> QED BY <3>1, RootOf
  <2>2. \A m \in DOMAIN Rt(f, s) : Page(e, z, Rt(f, s)[m]) = Page(f, s, Rt(f, s)[m])
    BY <1>8, <2>1
  <2> QED BY <1>10, <2>2, HeldSame
<1>22. \A k \in 0 .. Len(r) : Held(e, SubSeq(r, 1, k)) = Held(f, SubSeq(r, 1, k)) BY <1>6
<1>23. At(e, r, u, g, c, q, l)
  BY <1>2, <1>10, <1>12, <1>13, <1>17, <1>18, <1>19, <1>20 DEF At, Types, z, s
<1> QED BY <1>10, <1>21, <1>22, <1>23 DEF z, s

LEMMA SpillSound ==
  ASSUME NEW w, NEW l, Sound(w, l)
  PROVE  Sound(PageSpill(w), l) /\ Alongside(w, PageSpill(w))
<1> USE DEF Whole
<1>1. PICK f, r, t, g, c, q : Whole(w, l, f, r, t, g, c, q) BY SoundParts
<1>2. PICK S : S = DOMAIN t.dirty \ (Kept(w) \cup AncestorSpilled(w)) OBVIOUS
<1>3. PageSpill(w) = SpillFrom(w, S) BY <1>1, <1>2 DEF PageSpill
<1>4. CASE t.room > Need
  <2>1. PageSpill(w) = w BY <1>1, <1>3, <1>4 DEF SpillFrom
  <2> QED BY <2>1, AlongsideSelf
<1>5. CASE ~(t.room > Need)
  <2>1. PICK X : X = Highest(S, Batch) OBVIOUS
  <2>2. X \subseteq S BY <2>1 DEF Highest
  <2>3. X \subseteq DOMAIN t.dirty /\ X \cap Kept(w) = {} BY <1>2, <2>2
  <2>4. X \cap t.spill = {} BY <1>1, <2>3, ApartPushed
  <2>5. \A k \in 1 .. Len(r) : X \cap r[k].spill = {}
    <3>1. X \cap AncestorSpilled(w) = {} BY <1>2, <2>2
    <3>2. \A k \in 1 .. Len(r) : w.txns[k] = r[k]
      <4>1. w.txns = Push(r, t) /\ r \in Seq(TxnRec) /\ t \in TxnRec BY <1>1
      <4>2. \A k \in 1 .. Len(r) : Push(r, t)[k] = r[k] BY ONLY <4>1, Pushed
      <4> QED BY <4>1, <4>2
    <3>a. 1 .. Depth(w) - 1 = 1 .. Len(r) BY <1>1
    <3> QED BY <3>1, <3>2, <3>a DEF AncestorSpilled
  <2>6. /\ DOMAIN t.dirty \subseteq PageNo /\ t.dirty \in [DOMAIN t.dirty -> PageData]
        /\ IsFiniteSet(X) /\ Cardinality(X) \in Nat
    BY <1>1, <2>3, ListTypes, FS_Subset, FS_CardinalityType
  <2>7. PICK e : e = Over(Restrict(t.dirty, X), f) OBVIOUS
  <2>8. DOMAIN Restrict(t.dirty, X) = X /\ \A p \in X : Restrict(t.dirty, X)[p] = t.dirty[p]
    BY DEF Restrict
  <2>9. e \in [PageNo -> PageData] /\ WithPages(f, e, t, X)
    <3>1. DOMAIN f = PageNo /\ \A p \in PageNo : f[p] \in PageData BY <1>1
    <3>2. X \subseteq PageNo BY <2>3, <2>6
    <3>3. e = [p \in PageNo |-> IF p \in X THEN t.dirty[p] ELSE f[p]]
      BY <2>7, <2>8, <3>1, <3>2 DEF Over
    <3>4. e \in [PageNo -> PageData] BY <2>3, <2>6, <3>1, <3>3
    <3>5. \A p \in X : e[p] = t.dirty[p] BY <3>2, <3>3
    <3>6. \A p \in PageNo \ X : e[p] = f[p] BY <3>3
    <3> QED BY <2>3, <2>4, <3>4, <3>5, <3>6 DEF WithPages
  <2>10. PICK u \in TxnRec :
           u = [t EXCEPT !.dirty = Restrict(t.dirty, DOMAIN t.dirty \ X),
                         !.room = t.room + Cardinality(X), !.spill = t.spill \cup X]
    <3>1. Restrict(t.dirty, DOMAIN t.dirty \ X) \in DirtyList
      <4>1. Restrict(t.dirty, DOMAIN t.dirty \ X) \in [DOMAIN t.dirty \ X -> PageData]
        BY <2>6 DEF Restrict
      <4> QED BY <2>6, <4>1 DEF DirtyList
    <3>2. t.room + Cardinality(X) \in Nat /\ t.spill \cup X \in SUBSET PageNo
      BY <1>1, <2>3, <2>6 DEF TxnRec
    <3> QED BY <1>1, <3>1, <3>2 DEF TxnRec
  <2>11. Spilt(t, u, X) BY <1>1, <2>10 DEF Spilt, TxnRec, Restrict
  <2>12. /\ At(e, r, u, g, c, q, l) /\ Rt(e, Push(r, u)) = Rt(f, Push(r, t))
         /\ Held(e, Push(r, u)) = Held(f, Push(r, t))
         /\ \A k \in 0 .. Len(r) : Held(e, SubSeq(r, 1, k)) = Held(f, SubSeq(r, 1, k))
    BY <1>1, <2>3, <2>5, <2>9, <2>11, SpiltSound
  <2>13. PageSpill(w) = [SetTop(w, u) EXCEPT !.file = e]
    <3>1. PICK n : n = Depth(w) OBVIOUS
    <3>2. SpillFrom(w, S) = [w EXCEPT !.txns[n] = u, !.file = Over(Restrict(t.dirty, X), w.file)]
      BY <1>1, <1>5, <2>1, <2>10, <3>1 DEF SpillFrom
    <3>3. SpillFrom(w, S) = [w EXCEPT !.txns[n] = u, !.file = e] BY <1>1, <2>7, <3>2
    <3>4. [w EXCEPT !.txns[n] = u, !.file = e] = [[w EXCEPT !.txns = [w.txns EXCEPT ![n] = u]] EXCEPT !.file = e]
      OBVIOUS
    <3> QED BY <1>3, <3>1, <3>3, <3>4 DEF SetTop
  <2>14. SetTop(w, u) = Made(f, Push(r, u), g, c, q) BY <1>1, LastMade
  <2>15. PageSpill(w) = Made(e, Push(r, u), g, c, q) BY <2>13, <2>14, MadeFile
  <2>16. PageSpill(w).file = e /\ PageSpill(w).txns = Push(r, u) /\ PageSpill(w).cur = c
    BY <2>15, MadeParts
  <2>17. w.file = f /\ w.txns = Push(r, t) /\ r \in Seq(TxnRec) /\ t \in TxnRec BY <1>1
  <2>18. Below(w, PageSpill(w))
    <3> USE DEF Whole
    <3>1. PICK x : x = PageSpill(w) OBVIOUS
    <3>2. x.file = e /\ x.txns = Push(r, u) BY <2>16, <3>1
    <3> HIDE DEF Whole
    <3>3. Below(w, x) BY <2>12, <2>17, <3>2, BelowMade
    <3> QED BY <3>1, <3>3
  <2> QED BY <1>1, <2>12, <2>15, <2>16, <2>18 DEF Sound, Alongside, LeavesOf, HeldIn, CurLeaves
<1> QED BY <1>4, <1>5

-----------------------------------------------------------------------------
(* Writes into a page that is in the list.                                  *)

SameButPage(t, u, p) ==
  /\ u.root = t.root /\ u.next = t.next /\ u.free = t.free /\ u.saved = t.saved
  /\ u.spill = t.spill /\ u.room = t.room /\ DOMAIN u.dirty = DOMAIN t.dirty
  /\ p # t.root /\ \A x \in DOMAIN t.dirty : x # p => u.dirty[x] = t.dirty[x]

LEMMA LeafWritten ==
  ASSUME NEW w, NEW l, NEW f, NEW r, NEW t, NEW g, NEW c, NEW q, Whole(w, l, f, r, t, g, c, q),
         NEW u \in TxnRec, NEW p, SameButPage(t, u, p)
  PROVE  /\ At(f, r, u, g, c, q, l) /\ Rt(f, Push(r, u)) = Rt(f, Push(r, t))
         /\ \A x : x # p => Page(f, Push(r, u), x) = Page(f, Push(r, t), x)
<1> USE DEF Whole
<1> DEFINE s == Push(r, t)  z == Push(r, u)
<1>1. \A x : Where(z, x) = Where(s, x) BY WherePushed DEF SameButPage
<1>2. \A x : x # p => Page(f, z, x) = Page(f, s, x) BY PagePushed DEF SameButPage
<1>3. Root(z) = t.root /\ Root(s) = t.root
  <2>1. u.root = t.root BY DEF SameButPage
  <2> QED BY <2>1, Parts
<1>4. Rt(f, z) = Rt(f, s) BY <1>2, <1>3 DEF Rt, SameButPage
<1>5. Listed(z) = Listed(s)
  <2>1. Listed(s) = Listed(r) \cup Lists(t) BY Parts
  <2>2. Listed(z) = Listed(r) \cup Lists(u) BY Parts
  <2> QED BY <2>1, <2>2 DEF SameButPage, Lists
<1>6. Visible(z) = Visible(s)
  <2>1. Visible(s) = (Visible(r) \cup DOMAIN t.dirty) \ t.spill BY SeenPushed
  <2>2. Visible(z) = (Visible(r) \cup DOMAIN u.dirty) \ u.spill BY SeenPushed
  <2> QED BY <2>1, <2>2 DEF SameButPage
<1>7. u.room = UmMax - Cardinality(Visible(z)) BY <1>6 DEF SameButPage
<1>8. Level(f, z, g)
  <2>1. u.root = t.root /\ u.next = t.next /\ u.free = t.free BY DEF SameButPage
  <2> QED BY <1>4, <1>5, <1>7, <2>1, SameTree
<1>9. \A m : PathTo(f, z, m) = PathTo(f, s, m) BY <1>1, <1>3, <1>4 DEF PathTo, Rt
<1>10. CursTop(f, z, c) BY <1>4, <1>9 DEF CursTop
<1>11. ListsApart(z) BY ApartPushed DEF SameButPage
<1>12. Alike(c, c) BY DEF Alike
<1>13. u.saved = t.saved BY DEF SameButPage
<1> HIDE DEF s, z
<1>14. l \in DOMAIN Rt(f, z) BY <1>4 DEF s
<1>15. At(f, r, u, g, c, PathTo(f, z, l), l)
  BY <1>8, <1>10, <1>11, <1>12, <1>13, <1>14, NewLast DEF s, z
<1>16. At(f, r, u, g, c, q, l) BY <1>9, <1>15 DEF s, z
<1> QED BY <1>2, <1>4, <1>16 DEF s, z

\* World w after v: of the leaves that the last transaction sees at most l is
\* another, and if so it is gone or holds what was put into it.
OnlyAt(v, w, l) ==
  /\ Below(v, w)
  /\ LeavesOf(w) \ {l} = LeavesOf(v) \ {l}
  /\ \A m \in LeavesOf(w) \ {l} : HeldIn(w)[m] = HeldIn(v)[m]
  /\ l \in LeavesOf(w) => \/ HeldIn(w)[l] \in Value
                          \/ l \in LeavesOf(v) /\ HeldIn(w)[l] = HeldIn(v)[l]

LEMMA OnlyAfter ==
  ASSUME NEW v, NEW w, NEW x, NEW l, Alongside(v, w), OnlyAt(w, x, l)
  PROVE  OnlyAt(v, x, l)
BY BelowTwice DEF Alongside, OnlyAt

LEMMA OnlyAlongside ==
  ASSUME NEW v, NEW w, NEW l, Alongside(v, w)
  PROVE  OnlyAt(v, w, l)
BY DEF Alongside, OnlyAt

\* With the same transactions below and the same file.
LEMMA BelowSame ==
  ASSUME NEW r \in Seq(TxnRec), NEW t \in TxnRec, NEW u \in TxnRec, NEW f,
         NEW v, v.file = f, v.txns = Push(r, t), NEW w, w.file = f, w.txns = Push(r, u)
  PROVE  Below(v, w)
BY BelowMade

LEMMA SetLeafSound ==
  ASSUME NEW w, NEW l, Sound(w, l), w.path[2][1] = Depth(w), NEW v \in Value
  PROVE  Sound(SetLeaf(w, v), l) /\ OnlyAt(w, SetLeaf(w, v), l)
<1> USE DEF Whole
<1>1. PICK f, r, t, g, c, q : Whole(w, l, f, r, t, g, c, q) BY SoundParts
<1>2. PICK p : p = Rt(f, Push(r, t))[l] OBVIOUS
<1>3. p \in PageNo /\ q[2] = Where(Push(r, t), p) /\ q[2][2] = p BY <1>1, <1>2, PathPage DEF PageOn
<1>4. p \in DOMAIN t.dirty BY <1>1, <1>3, IsHere
<1>5. p # t.root
  <2>1. p # Root(Push(r, t)) BY <1>1, <1>2 DEF Level, TreeOK
  <2> QED BY <1>1, <2>1, Parts
<1>6. v \in PageData BY DEF PageData
<1>7. PICK u \in TxnRec : u = Rewritten(t, p, v) /\ SetRoot(w, p, v) = Made(f, Push(r, u), g, c, q)
  BY <1>1, <1>3, <1>4, <1>6, SetRootMade
<1>8. SameButPage(t, u, p) BY <1>1, <1>5, <1>7 DEF SameButPage, Rewritten, TxnRec
<1>9. SetLeaf(w, v) = SetRoot(w, p, v) BY <1>1, <1>3 DEF SetLeaf, SetRoot
<1>10. /\ At(f, r, u, g, c, q, l) /\ Rt(f, Push(r, u)) = Rt(f, Push(r, t))
       /\ \A x : x # p => Page(f, Push(r, u), x) = Page(f, Push(r, t), x)
  <2> USE DEF Whole
  <2>1. Whole(w, l, f, r, t, g, c, q) BY <1>1
  <2> QED BY <1>8, <2>1, LeafWritten
<1>11. PICK y : y = SetLeaf(w, v) OBVIOUS
<1>12. y.file = f /\ y.txns = Push(r, u) BY <1>7, <1>9, <1>11, MadeParts
<1>13. Below(w, y) BY <1>1, <1>12, BelowSame
<1>14. Page(f, Push(r, u), p) = v
  <2>1. p \notin t.spill BY <1>1, <1>3, IsHere
  <2>2. p \in DOMAIN u.dirty /\ u.dirty[p] = v /\ p \notin u.spill
    BY <1>1, <1>4, <1>7, <2>1 DEF Rewritten, TxnRec
  <2> QED BY <1>1, <2>2, PagePushed
<1>15. TreeOK(f, Push(r, t)) BY <1>1 DEF Level
<1>16. OnlyAt(w, y, l)
  <2>1. LeavesOf(y) = LeavesOf(w) BY <1>1, <1>10, <1>12 DEF LeavesOf
  <2>2. HeldIn(y)[l] = v /\ l \in LeavesOf(w) BY <1>1, <1>2, <1>10, <1>12, <1>14 DEF HeldIn, Held, LeavesOf
  <2>3. ASSUME NEW m \in LeavesOf(y) \ {l} PROVE HeldIn(y)[m] = HeldIn(w)[m]
    <3>1. m \in DOMAIN Rt(f, Push(r, t)) /\ m # l BY <1>1, <2>1 DEF LeavesOf
    <3>2. Rt(f, Push(r, t))[m] # p BY <1>1, <1>2, <1>15, <3>1 DEF TreeOK
    <3>3. Page(f, Push(r, u), Rt(f, Push(r, t))[m]) = Page(f, Push(r, t), Rt(f, Push(r, t))[m])
      BY <1>10, <3>2
    <3> QED BY <1>1, <1>10, <1>12, <3>1, <3>3 DEF HeldIn, Held
  <2> QED BY <1>13, <2>1, <2>2, <2>3 DEF OnlyAt
<1> QED BY <1>7, <1>9, <1>10, <1>11, <1>16 DEF Sound

\* mdb_put of a value into a leaf page.
LEMMA PutSound ==
  ASSUME MetaOK, NEW w, NEW l, Sound(w, l), NEW v \in Value
  PROVE  Sound(PutAt(w, l, v), l) /\ OnlyAt(w, PutAt(w, l, v), l)
<1>1. PICK x : x = CursorTouch(PageSpill(w), l) OBVIOUS
<1>2. Ready(PageSpill(w), x, l) /\ Alongside(w, PageSpill(w)) BY <1>1, SpillSound, CursorTouchSound
<1>a. Alongside(w, x) BY <1>2, AlongsideTwice DEF Ready
<1>3. CASE ~Good(x)
  <2>1. PutAt(w, l, v) = x BY <1>1, <1>3 DEF PutAt, Then
  <2> QED BY <1>2, <1>a, <2>1, OnlyAlongside DEF Ready
<1>4. CASE Good(x)
  <2>1. PutAt(w, l, v) = SetLeaf(x, v) BY <1>1, <1>4 DEF PutAt, Then
  <2>2. Sound(SetLeaf(x, v), l) /\ OnlyAt(x, SetLeaf(x, v), l) BY <1>2, <1>4, SetLeafSound DEF Ready
  <2> QED BY <1>a, <2>1, <2>2, OnlyAfter
<1> QED BY <1>3, <1>4

-----------------------------------------------------------------------------
(* A leaf page appears.                                                     *)

\* The children in A are the same in N.
Keeps(A, N) == \A m \in DOMAIN A : N[m] = A[m]

LEMMA OneMoreChild ==
  ASSUME NEW A \in RootPage, NEW l \in Leaf, l \notin DOMAIN A, NEW p \in PageNo
  PROVE  /\ With(A, l, p) \in RootPage /\ DOMAIN With(A, l, p) = DOMAIN A \cup {l}
         /\ With(A, l, p)[l] = p
         /\ Keeps(A, With(A, l, p))
<1>1. PICK D \in SUBSET Leaf : A \in [D -> PageNo] BY DEF RootPage
<1>2. PICK N : N = With(A, l, p) OBVIOUS
<1>3. N \in [D \cup {l} -> PageNo] /\ DOMAIN N = DOMAIN A \cup {l} /\ N[l] = p
      /\ \A m \in DOMAIN A : N[m] = A[m]
  BY <1>1, <1>2 DEF With
<1>4. D \cup {l} \in SUBSET Leaf BY <1>1
<1>5. N \in RootPage BY <1>3, <1>4 DEF RootPage
<1> QED BY <1>2, <1>3, <1>5 DEF Keeps

LEMMA ChildNew ==
  ASSUME NEW f, NEW s, TreeOK(f, s), NEW l \in Leaf, l \notin DOMAIN Rt(f, s), NEW p \in PageNo,
         p \notin TreeOf(f, s), NEW z, Root(z) = Root(s), Rt(f, z) = With(Rt(f, s), l, p)
  PROVE  TreeOK(f, z) /\ TreeOf(f, z) = TreeOf(f, s) \cup {p}
<1> DEFINE A == Rt(f, s)  N == Rt(f, z)
<1>1. A \in RootPage /\ Root(s) \in PageNo BY DEF TreeOK
<1>2. /\ \A k, m \in DOMAIN A : A[k] = A[m] => k = m
      /\ \A k \in DOMAIN A : A[k] # Root(s)
  BY DEF TreeOK
<1>3. p # Root(s) /\ \A m \in DOMAIN A : A[m] # p BY DEF TreeOf
<1>4. l \notin DOMAIN A /\ N = With(A, l, p) OBVIOUS
<1> HIDE DEF A, N
<1>5. /\ N \in RootPage /\ DOMAIN N = DOMAIN A \cup {l} /\ N[l] = p
      /\ \A m \in DOMAIN A : N[m] = A[m]
  BY <1>1, <1>4, OneMoreChild DEF Keeps
<1>6. TreeOK(f, z) BY <1>1, <1>2, <1>3, <1>5 DEF TreeOK, N
<1>7. TreeOf(f, s) = {Root(s)} \cup {A[m] : m \in DOMAIN A} BY DEF TreeOf, A
<1>8. TreeOf(f, z) = {Root(s)} \cup {N[m] : m \in DOMAIN N} BY DEF TreeOf, N
<1>9. TreeOf(f, z) = TreeOf(f, s) \cup {p} BY <1>5, <1>7, <1>8
<1> QED BY <1>6, <1>9

\* A new page in the list, and a root page N that may have it as a child.
Fresh(t, v, p, x, n) ==
  /\ t \in TxnRec /\ v \in TxnRec /\ RootHere(t) /\ NewOn(t, v, p, x, n)
  /\ p \in PageNo /\ p \notin DOMAIN t.dirty /\ p \notin t.spill

\* Transaction u has both, and it is the last one of world y with that root page.
Added(y, f, r, t, u, v, h, c, q, p, n, N) ==
  /\ SetRoot(y, t.root, N) = Made(f, Push(r, u), h, c, q)
  /\ RootSet(t, u, {p}, N) /\ OneMore(t, u, p)
  /\ u.next = n /\ u.free = t.free
  /\ v.dirty[t.root] = t.dirty[t.root] /\ u.dirty[p] = v.dirty[p]

LEMMA NewChild ==
  ASSUME NEW f, NEW r \in Seq(TxnRec), NEW t, NEW v, NEW h, NEW c, NEW q,
         NEW x, NEW p, NEW n, Fresh(t, v, p, x, n), NEW N \in RootPage,
         NEW y, y = Made(f, Push(r, v), h, c, q)
  PROVE  \E u \in TxnRec : Added(y, f, r, t, u, v, h, c, q, p, n, N)
<1> USE DEF Fresh
<1>1. p \notin DOMAIN t.dirty /\ p \notin t.spill /\ RootHere(t) OBVIOUS
<1>2. PICK R : R = t.root OBVIOUS
<1>3. R \in PageNo /\ R \in DOMAIN t.dirty /\ p # R BY <1>1, <1>2 DEF TxnRec, RootHere
<1>4. DOMAIN v.dirty = DOMAIN t.dirty \cup {p} /\ v.dirty[R] = t.dirty[R]
      /\ \A a \in DOMAIN t.dirty : a # p => v.dirty[a] = t.dirty[a]
  BY <1>3 DEF NewOn, With
<1>5. PICK u \in TxnRec : /\ u = Rewritten(v, R, N)
                         /\ SetRoot(y, R, N) = Made(f, Push(r, u), h, c, q)
  <2>1. N \in PageData BY DEF PageData
  <2> QED BY <1>3, <1>4, <2>1, SetRootMade
<1>6. /\ u.root = v.root /\ u.next = v.next /\ u.free = v.free /\ u.saved = v.saved
      /\ u.spill = v.spill /\ u.room = v.room /\ u.dirty = [v.dirty EXCEPT ![R] = N]
  BY <1>5 DEF Rewritten, TxnRec
<1>7. RootSet(t, u, {p}, N) /\ OneMore(t, u, p)
  BY <1>1, <1>2, <1>3, <1>4, <1>6 DEF RootSet, OneMore, NewOn
<1>8. u.dirty[p] = v.dirty[p] BY <1>3, <1>4, <1>6
<1> QED BY <1>2, <1>4, <1>5, <1>6, <1>7, <1>8 DEF NewOn, Added

AddLeaf(w, l, v) ==
  LET a == PageAlloc(w, v) IN IF a.p = None THEN a.w ELSE SetChild(a.w, l, a.p)

LEMMA AddSound ==
  ASSUME MetaOK, NEW w, NEW m, Sound(w, m), w.path[1][1] = Depth(w), NEW v \in Value,
         NEW l \in Leaf, l \notin LeavesOf(w)
  PROVE  Sound(AddLeaf(w, l, v), m) /\ OnlyAt(w, AddLeaf(w, l, v), l)
<1> USE DEF Whole
<1>1. PICK f, r, t, g, c, q : Whole(w, m, f, r, t, g, c, q) BY SoundParts
<1> DEFINE s == Push(r, t)
<1>2. PICK R : R = t.root OBVIOUS
<1>3. RootHere(t) BY <1>1, RootReady
<1>4. Root(s) = R /\ Rt(f, s) = t.dirty[R] /\ TreeOK(f, s)
  <2>1. Root(s) = R BY <1>1, <1>2, Parts
  <2> QED BY <1>1, <1>2, <1>3, <2>1, RootRead DEF Level
<1>5. q[1][2] = R BY <1>1, <1>4, PathPage DEF PageOn
<1>6. v \in PageData BY DEF PageData
<1>7. \/ PageAlloc(w, v) = [w |-> Fail(w), p |-> None]
      \/ \E h, p, n : \E o \in TxnRec :
           /\ Taken(f, s, h, p, n) /\ NewOn(t, o, p, v, n) /\ t.room # 0
           /\ PageAlloc(w, v) = [w |-> Made(f, Push(r, o), h, c, q), p |-> p]
  BY <1>1, <1>6, AllocMade
<1>8. CASE PageAlloc(w, v) = [w |-> Fail(w), p |-> None]
  <2>1. AddLeaf(w, l, v) = Fail(w) BY <1>8 DEF AddLeaf
  <2> QED BY <2>1, FailSound, OnlyAlongside
<1>9. CASE \E h, p, n : \E o \in TxnRec :
           /\ Taken(f, s, h, p, n) /\ NewOn(t, o, p, v, n) /\ t.room # 0
           /\ PageAlloc(w, v) = [w |-> Made(f, Push(r, o), h, c, q), p |-> p]
  <2>1. PICK h, p, n : \E o \in TxnRec :
           /\ Taken(f, s, h, p, n) /\ NewOn(t, o, p, v, n) /\ t.room # 0
           /\ PageAlloc(w, v) = [w |-> Made(f, Push(r, o), h, c, q), p |-> p]
    BY <1>9
  <2>2. PICK o \in TxnRec :
           /\ Taken(f, s, h, p, n) /\ NewOn(t, o, p, v, n)
           /\ PageAlloc(w, v) = [w |-> Made(f, Push(r, o), h, c, q), p |-> p]
    BY <2>1
  <2>3. p \in PageNo /\ p \notin TreeOf(f, s) /\ h \in PgRec BY <2>2 DEF Taken
  <2>4. PICK N : N = With(t.dirty[R], l, p) OBVIOUS
  <2>5. l \notin DOMAIN Rt(f, s) BY <1>1 DEF LeavesOf
  <2>6. /\ N \in RootPage /\ DOMAIN N = DOMAIN Rt(f, s) \cup {l}
        /\ \A k \in DOMAIN Rt(f, s) : N[k] = Rt(f, s)[k]
    <3>1. Rt(f, s) \in RootPage /\ N = With(Rt(f, s), l, p) BY <1>4, <2>4 DEF TreeOK
    <3>2. PICK A \in RootPage : A = Rt(f, s) BY <3>1
    <3>3. l \notin DOMAIN A BY <2>5, <3>2
    <3> HIDE DEF s, Whole
    <3>4. With(A, l, p) \in RootPage BY <2>3, <3>3, OneMoreChild
    <3>5. DOMAIN With(A, l, p) = DOMAIN A \cup {l} BY <2>3, <3>3, OneMoreChild
    <3>6. Keeps(A, With(A, l, p)) BY <2>3, <3>3, OneMoreChild
    <3> QED BY <3>1, <3>2, <3>4, <3>5, <3>6 DEF Keeps
  <2>7. PICK y : y = Made(f, Push(r, o), h, c, q) OBVIOUS
  <2>8. PICK u \in TxnRec : Added(y, f, r, t, u, o, h, c, q, p, n, N)
    <3>1. Level(f, Push(r, t), g) /\ Taken(f, Push(r, t), h, p, n) BY <1>1, <2>2
    <3>2. p \notin DOMAIN t.dirty /\ p \notin t.spill BY <1>1, <3>1, TakenNew
    <3>3. Fresh(t, o, p, v, n) BY <1>1, <1>3, <2>2, <2>3, <3>2 DEF Fresh
    <3>4. N \in RootPage /\ r \in Seq(TxnRec) BY <1>1, <2>6
    <3> HIDE DEF s, Whole
    <3> QED BY <2>7, <3>3, <3>4, NewChild
  <2>b. u.dirty[p] = v BY <2>2, <2>8 DEF Added, NewOn, With
  <2>c. N[l] = p BY <2>4 DEF With
  <2>9. AddLeaf(w, l, v) = SetRoot(y, R, N)
    <3>1. PageAlloc(w, v).w = y /\ PageAlloc(w, v).p = p BY <2>2, <2>7
    <3>2. p # None BY <2>3 DEF PageNo, FirstPg, None
    <3>3. AddLeaf(w, l, v) = SetChild(y, l, p) BY <3>1, <3>2 DEF AddLeaf
    <3>4. y.path = q BY <2>7, MadeParts
    <3>5. y.txns[Depth(y)] = o BY <1>1, <2>7, LastParts
    <3>6. SetChild(y, l, p) = [y EXCEPT !.txns[Depth(y)].dirty[R] = With(@, l, p)]
      BY <1>5, <3>4 DEF SetChild
    <3>7. [y EXCEPT !.txns[Depth(y)].dirty[R] = With(@, l, p)]
            = SetRoot(y, R, With(y.txns[Depth(y)].dirty[R], l, p))
      BY DEF SetRoot
    <3>8. With(y.txns[Depth(y)].dirty[R], l, p) = N BY <1>2, <2>4, <2>8, <3>5 DEF Added
    <3> QED BY <3>3, <3>6, <3>7, <3>8
  <2> DEFINE z == Push(r, u)
  <2>10. PICK P : P = {p} OBVIOUS
  <2>11. RootSet(t, u, P, N) BY <2>8, <2>10 DEF Added
  <2>12. /\ Root(z) = t.root
         /\ \A a : a \notin P => Where(z, a) = Where(s, a)
         /\ Where(z, t.root) = Where(s, t.root)
    BY <1>1, <2>11, RootPlaces
  <2>13. Rt(f, z) = N BY <1>1, <2>11, RootWritten
  <2>14. /\ u.room = UmMax - Cardinality(Visible(z)) /\ Lists(u) = Lists(t) \cup {p} /\ ListsApart(z)
    <3>1. Level(f, Push(r, t), g) /\ Taken(f, Push(r, t), h, p, n) BY <1>1, <2>2
    <3>2. p \notin Listed(Push(r, t)) BY <1>1, <3>1, TakenNew
    <3> QED BY <1>1, <2>8, <3>2, NewRoom DEF Added
  <2> HIDE DEF z
  <2>15. /\ DOMAIN N = DOMAIN Rt(f, s) \cup {l}
         /\ \A k \in DOMAIN Rt(f, s) : N[k] = Rt(f, s)[k]
         /\ TreeOK(f, z) /\ TreeOf(f, z) = TreeOf(f, s) \cup {p}
    <3>1. Rt(f, z) = With(Rt(f, s), l, p) /\ Root(z) = Root(s) BY <1>2, <1>4, <2>4, <2>12, <2>13
    <3> HIDE DEF s
    <3>2. TreeOK(f, z) /\ TreeOf(f, z) = TreeOf(f, s) \cup {p}
      BY <1>4, <2>3, <2>5, <3>1, ChildNew
    <3> QED BY <2>6, <3>2
  <2>16. Level(f, z, h)
    <3>1. u.free = t.free \cup {} /\ TreeOf(f, z) = (TreeOf(f, s) \ {}) \cup {p} /\ {} \subseteq TreeOf(f, s)
      BY <2>8, <2>15 DEF Added
    <3>2. PICK F : F \subseteq TreeOf(f, s) /\ u.free = t.free \cup F /\ TreeOf(f, z) = (TreeOf(f, s) \ F) \cup {p}
      BY <3>1
    <3>3. TreeOK(f, z) BY <2>15
    <3>4. u.next = n /\ u.root = t.root BY <2>8 DEF Added, RootSet
    <3>5. Level(f, Push(r, t), g) /\ Taken(f, Push(r, t), h, p, n) BY <1>1, <2>2
    <3>6. u.room = UmMax - Cardinality(Visible(Push(r, u))) /\ Lists(u) = Lists(t) \cup {p}
      BY <2>14 DEF z
    <3>7. Onto(f, r, t, u, g, h, p, n, F)
      BY <1>1, <3>2, <3>3, <3>4, <3>5, <3>6 DEF Onto, z
    <3> QED BY <3>7, NewTree DEF z
  <2>17. \A k \in DOMAIN Rt(f, s) : PathTo(f, z, k) = PathTo(f, s, k)
    <3> TAKE k \in DOMAIN Rt(f, s)
    <3>1. Rt(f, s)[k] # p BY <2>3 DEF TreeOf
    <3>2. Where(z, Rt(f, z)[k]) = Where(s, Rt(f, s)[k]) BY <2>10, <2>12, <2>13, <2>15, <3>1
    <3>3. Where(z, Root(z)) = Where(s, Root(s)) BY <1>2, <1>4, <2>12
    <3> HIDE DEF s
    <3> QED BY <3>2, <3>3 DEF PathTo, Rt
  <2>18. CursTop(f, z, c) BY <1>1, <2>13, <2>15, <2>17 DEF CursTop
  <2>19. Alike(c, c) /\ u.saved = t.saved BY <2>8 DEF Alike, RootSet, Added
  <2>20. m \in DOMAIN Rt(f, z) BY <1>1, <2>13, <2>15
  <2>21. At(f, r, u, h, c, PathTo(f, z, m), m)
    <3> HIDE DEF s
    <3> QED BY <1>1, <2>3, <2>14, <2>16, <2>18, <2>19, <2>20, NewLast DEF z
  <2>22. Sound(AddLeaf(w, l, v), m) BY <1>1, <1>2, <2>8, <2>9, <2>17, <2>21 DEF Sound, z, Added
  <2>23. PICK x : x = AddLeaf(w, l, v) OBVIOUS
  <2>24. x.file = f /\ x.txns = z BY <1>2, <2>8, <2>9, <2>23, MadeParts DEF Added, z
  <2>25. Below(w, x) BY <1>1, <2>24, BelowSame DEF z
  <2>26. Page(f, z, p) = v
    <3>1. p \in DOMAIN u.dirty /\ p \notin u.spill /\ u.dirty[p] = v BY <2>b, <2>8 DEF Added, RootSet
    <3> HIDE DEF s
    <3> QED BY <1>1, <3>1, PagePushed DEF z
  <2>27. ASSUME NEW k \in DOMAIN Rt(f, s) PROVE Page(f, z, Rt(f, s)[k]) = Page(f, s, Rt(f, s)[k])
    <3>1. PICK a : a = Rt(f, s)[k] OBVIOUS
    <3>2. a # p BY <2>3, <3>1 DEF TreeOf
    <3>3. a # t.root BY <1>2, <1>4, <3>1 DEF TreeOK
    <3> HIDE DEF s
    <3>4. a \notin P /\ P = {p} BY <2>10, <3>2
    <3>5. Page(f, z, a) = Page(f, s, a)
      <4>1. Page(f, z, a) = IF a \in u.spill THEN f[a]
               ELSE IF a \in DOMAIN u.dirty THEN u.dirty[a] ELSE Page(f, r, a)
        BY <1>1, PagePushed DEF z
      <4>2. Page(f, s, a) = IF a \in t.spill THEN f[a]
               ELSE IF a \in DOMAIN t.dirty THEN t.dirty[a] ELSE Page(f, r, a)
        BY <1>1, PagePushed DEF s
      <4> QED BY <2>11, <3>3, <3>4, <4>1, <4>2 DEF RootSet
    <3> QED BY <3>1, <3>5
  <2>28. OnlyAt(w, x, l)
    <3>1. LeavesOf(w) = DOMAIN Rt(f, s) /\ LeavesOf(x) = DOMAIN Rt(f, s) \cup {l}
      BY <1>1, <2>13, <2>15, <2>24 DEF LeavesOf
    <3>2. HeldIn(w) = Held(f, s) /\ HeldIn(x) = Held(f, z) BY <1>1, <2>24 DEF HeldIn
    <3>3. HeldIn(x)[l] = v
      <4>1. N[l] = p BY <2>c
      <4> QED BY <2>13, <2>15, <2>26, <3>2, <4>1 DEF Held
    <3>4. \A k \in DOMAIN Rt(f, s) : HeldIn(x)[k] = HeldIn(w)[k]
      BY <2>13, <2>15, <2>27, <3>2 DEF Held
    <3> QED BY <2>25, <3>1, <3>3, <3>4 DEF OnlyAt
  <2> QED BY <2>22, <2>23, <2>28
<1> QED BY <1>7, <1>8, <1>9

\* mdb_put that splits a leaf page.
LEMMA GrowSound ==
  ASSUME MetaOK, NEW w, NEW m, Sound(w, m), NEW v \in Value, NEW l \in Leaf, l \notin LeavesOf(w)
  PROVE  Sound(Grow(w, m, l, v), m) /\ OnlyAt(w, Grow(w, m, l, v), l)
<1>1. PICK x : x = CursorTouch(PageSpill(w), m) OBVIOUS
<1>2. Ready(PageSpill(w), x, m) /\ Alongside(w, PageSpill(w)) BY <1>1, SpillSound, CursorTouchSound
<1>a. Alongside(w, x) BY <1>2, AlongsideTwice DEF Ready
<1>3. CASE ~Good(x)
  <2>1. Grow(w, m, l, v) = x BY <1>1, <1>3 DEF Grow, Then
  <2> QED BY <1>2, <1>a, <2>1, OnlyAlongside DEF Ready
<1>4. CASE Good(x)
  <2>1. Grow(w, m, l, v) = AddLeaf(x, l, v) BY <1>1, <1>4 DEF Grow, Then, AddLeaf
  <2>2. l \notin LeavesOf(x) BY <1>a DEF Alongside
  <2>3. Sound(AddLeaf(x, l, v), m) /\ OnlyAt(x, AddLeaf(x, l, v), l)
    BY <1>2, <1>4, <2>2, AddSound DEF Ready
  <2> QED BY <1>a, <2>1, <2>3, OnlyAfter
<1> QED BY <1>3, <1>4
-----------------------------------------------------------------------------
(* A leaf page goes.                                                        *)

\* The path goes to another leaf of the database.
TurnTo(x, m) == [x EXCEPT !.path[2] = Where(x.txns, Page(x.file, x.txns, This(x).root)[m])]

LEMMA TurnSound ==
  ASSUME NEW x, NEW l, Sound(x, l), NEW m \in LeavesOf(x)
  PROVE  /\ Sound(TurnTo(x, m), m) /\ Alongside(x, TurnTo(x, m))
         /\ Depth(TurnTo(x, m)) = Depth(x) /\ This(TurnTo(x, m)) = This(x)
         /\ TurnTo(x, m).path[1] = x.path[1]
<1> USE DEF Whole
<1>1. PICK f, r, t, g, c, q : Whole(x, l, f, r, t, g, c, q) BY SoundParts
<1> DEFINE s == Push(r, t)
<1>2. PICK mem : mem = Where(s, Rt(f, s)[m]) OBVIOUS
<1>3. TreeOK(f, s) /\ m \in DOMAIN Rt(f, s) BY <1>1 DEF Level, LeavesOf
<1>4. Root(s) = t.root BY <1>1, Parts
<1>5. q \in PathRec /\ q[1] = Where(s, Root(s)) BY <1>1, <1>3, Paths
<1>6. PathTo(f, s, m) = <<Where(s, Root(s)), mem>> BY <1>1, <1>2, <1>3, Paths
<1>7. Replaced(q, 2, mem) = PathTo(f, s, m)
  <2>1. PICK a, b : q = <<a, b>> BY <1>5 DEF PathRec
  <2>2. Replaced(q, 2, mem) = <<a, mem>> BY <2>1 DEF Replaced
  <2> QED BY <1>5, <1>6, <2>1, <2>2
<1>8. TurnTo(x, m) = [x EXCEPT !.path = Replaced(q, 2, mem)]
  <2>1. [x EXCEPT !.path[2] = mem] = [x EXCEPT !.path = Replaced(x.path, 2, mem)] BY DEF Replaced
  <2>2. Where(x.txns, Page(x.file, x.txns, This(x).root)[m]) = mem BY <1>1, <1>2, <1>4 DEF Rt
  <2> QED BY <1>1, <2>1, <2>2 DEF TurnTo
<1> HIDE DEF s
<1>9. PICK y : y = Made(f, s, g, c, PathTo(f, s, m)) OBVIOUS
<1>10. TurnTo(x, m) = y BY <1>1, <1>7, <1>8, <1>9, MadePath DEF s
<1>11. At(f, r, t, g, c, PathTo(f, s, m), m)
  <2>1. Inv(f, Push(r, t), g, c) BY <1>1, InvAt
  <2> QED BY <1>1, <1>3, <2>1, InvAt DEF s
<1>12. y.file = f /\ y.txns = s /\ y.cur = c /\ Depth(y) = Len(s) /\ This(y) = Last(s) /\ y.path = PathTo(f, s, m)
  BY <1>9, MadeParts
<1>13. Depth(x) = Len(s) /\ This(x) = Last(s) BY <1>1, MadeParts DEF s
<1>14. Sound(y, m) BY <1>9, <1>11 DEF Sound, s
<1>15. Alongside(x, y)
  <2>1. Below(x, y) BY <1>1, <1>12, BelowSame DEF s
  <2> QED BY <1>1, <1>12, <2>1 DEF Alongside, LeavesOf, HeldIn, CurLeaves, s
<1>16. y.path[1] = x.path[1] BY <1>1, <1>5, <1>6, <1>12
<1> QED BY <1>10, <1>12, <1>13, <1>14, <1>15, <1>16

\* The root page without one of its children.
LEMMA ChildGone ==
  ASSUME NEW f, NEW s, TreeOK(f, s), NEW l \in DOMAIN Rt(f, s),
         NEW z, Root(z) = Root(s), Rt(f, z) = Restrict(Rt(f, s), DOMAIN Rt(f, s) \ {l})
  PROVE  /\ Rt(f, z) \in RootPage /\ DOMAIN Rt(f, z) = DOMAIN Rt(f, s) \ {l}
         /\ Keeps(Rt(f, z), Rt(f, s))
         /\ TreeOK(f, z) /\ TreeOf(f, z) = TreeOf(f, s) \ {Rt(f, s)[l]}
<1> DEFINE A == Rt(f, s)  N == Rt(f, z)
<1>1. A \in [DOMAIN A -> PageNo] /\ DOMAIN A \subseteq Leaf /\ Root(s) \in PageNo BY RootOf
<1>2. /\ \A k, m \in DOMAIN A : A[k] = A[m] => k = m
      /\ \A k \in DOMAIN A : A[k] # Root(s)
  BY DEF TreeOK
<1>3. l \in DOMAIN A /\ N = Restrict(A, DOMAIN A \ {l}) OBVIOUS
<1> HIDE DEF A, N
<1>4. /\ N \in [DOMAIN A \ {l} -> PageNo] /\ DOMAIN N = DOMAIN A \ {l}
      /\ \A m \in DOMAIN N : A[m] = N[m]
  BY <1>1, <1>3 DEF Restrict
<1>5. N \in RootPage BY <1>1, <1>4 DEF RootPage
<1>6. TreeOK(f, z) BY <1>1, <1>2, <1>4, <1>5 DEF TreeOK, N
<1>7. TreeOf(f, s) = {Root(s)} \cup {A[m] : m \in DOMAIN A} BY DEF TreeOf, A
<1>8. TreeOf(f, z) = {Root(s)} \cup {N[m] : m \in DOMAIN N} BY DEF TreeOf, N
<1>10. {N[m] : m \in DOMAIN N} = {A[m] : m \in DOMAIN A} \ {A[l]}
  <2>1. ASSUME NEW m \in DOMAIN N PROVE m \in DOMAIN A /\ N[m] = A[m] /\ A[m] # A[l]
    BY <1>2, <1>3, <1>4
  <2>2. ASSUME NEW m \in DOMAIN A, A[m] # A[l] PROVE m \in DOMAIN N /\ N[m] = A[m]
    <3>1. m # l BY <2>2
    <3> QED BY <1>4, <3>1
  <2> QED BY <2>1, <2>2
<1>9. TreeOf(f, z) = TreeOf(f, s) \ {A[l]} BY <1>2, <1>3, <1>7, <1>8, <1>10
<1> QED BY <1>4, <1>5, <1>6, <1>9 DEF A, N, Keeps

\* A page leaves the tree for those freed.
LEMMA LessTree ==
  ASSUME NEW f, NEW r \in Seq(TxnRec), NEW t \in TxnRec, NEW u \in TxnRec, NEW g,
         Level(f, Push(r, t), g), NEW p \in TreeOf(f, Push(r, t)),
         u.root = t.root, u.free = t.free \cup {p}, u.next = t.next, Lists(u) = Lists(t),
         TreeOf(f, Push(r, u)) = TreeOf(f, Push(r, t)) \ {p},
         TreeOK(f, Push(r, u)), u.room = UmMax - Cardinality(Visible(Push(r, u)))
  PROVE  Level(f, Push(r, u), g)
<1> DEFINE s == Push(r, t)  z == Push(r, u)
<1>1. PICK T, T1, G, G1, L, L1 :
        /\ T = TreeOf(f, s) /\ T1 = TreeOf(f, z) /\ G = Gone(s) /\ G1 = Gone(z)
        /\ L = Listed(s) /\ L1 = Listed(z)
  OBVIOUS
<1>2. /\ NextPg(s) = t.next /\ L = Listed(r) \cup Lists(t) /\ G = Gone(r) \cup t.free
      /\ FreedApart(s) <=> FreedApart(r) /\ t.free \cap Gone(r) = {}
  BY <1>1, Parts
<1>3. /\ NextPg(z) = u.next /\ L1 = Listed(r) \cup Lists(u) /\ G1 = Gone(r) \cup u.free
      /\ FreedApart(z) <=> FreedApart(r) /\ u.free \cap Gone(r) = {}
  BY <1>1, Parts
<1>4. /\ T \cup g.head \cup G \cup Unread(g) = FirstPg .. NextPg(s) - 1
      /\ T \cap (g.head \cup G \cup Unread(g)) = {}
      /\ g.head \cap (G \cup Unread(g)) = {} /\ G \cap Unread(g) = {} /\ FreedApart(s)
  BY <1>1 DEF Level, PartOK
<1>5. /\ L \cap TreeOf(f, <<>>) = {} /\ T \subseteq L \cup TreeOf(f, <<>>) /\ L \subseteq T \cup G
  BY <1>1 DEF Level, ListOK
<1>6. T1 = T \ {p} /\ p \in T /\ G1 = G \cup {p} /\ L1 = L /\ NextPg(z) = NextPg(s)
  BY <1>1, <1>2, <1>3
<1>7. FreedApart(z) BY <1>2, <1>3, <1>4, <1>6
<1> HIDE DEF s, z
<1>8. PartOK(f, z, g) BY <1>1, <1>4, <1>6, <1>7 DEF PartOK
<1>a. Root(z) \in Listed(z) \cup {Root(<<>>)}
  <2>1. Root(s) = t.root BY Parts DEF s
  <2>2. Root(z) = u.root BY Parts DEF z
  <2>3. Root(s) \in Listed(s) \cup {Root(<<>>)} BY DEF Level, ListOK, s
  <2> QED BY <1>1, <1>6, <2>1, <2>2, <2>3
<1>9. ListOK(f, z) BY <1>1, <1>5, <1>6, <1>a DEF ListOK
<1>10. AllocOK(z, g) BY <1>6 DEF Level, AllocOK, s
<1>11. RoomOK(z) /\ z # <<>>
  <2>1. Last(z) = u /\ z # <<>> BY Pushed DEF z
  <2> QED BY <2>1 DEF RoomOK, z
<1> QED BY <1>8, <1>9, <1>10, <1>11 DEF Level, Bottom, z

LEMMA UnlinkSound ==
  ASSUME NEW w, NEW m, Sound(w, m), w.path[1][1] = Depth(w),
         NEW l \in LeavesOf(w), l \notin CurLeaves(w), l # m
  PROVE  Sound(Unlink(w, l), m) /\ OnlyAt(w, Unlink(w, l), l)
<1> USE DEF Whole
<1>1. PICK f, r, t, g, c, q : Whole(w, m, f, r, t, g, c, q) BY SoundParts
<1> DEFINE s == Push(r, t)
<1>2. PICK R : R = t.root OBVIOUS
<1>3. RootHere(t) /\ R \in PageNo /\ R \in DOMAIN t.dirty BY <1>1, <1>2, RootReady DEF RootHere, TxnRec
<1>4. Root(s) = R /\ Rt(f, s) = t.dirty[R] /\ TreeOK(f, s)
  <2>1. Root(s) = R BY <1>1, <1>2, Parts
  <2> QED BY <1>1, <1>2, <1>3, <2>1, RootRead DEF Level
<1>5. q[1][2] = R BY <1>1, <1>4, PathPage DEF PageOn
<1>6. l \in DOMAIN Rt(f, s) BY <1>1 DEF LeavesOf
<1>7. PICK p : p = Rt(f, s)[l] OBVIOUS
<1>8. p \in PageNo /\ p \in TreeOf(f, s) BY <1>4, <1>6, <1>7, RootOf DEF TreeOf
<1>9. PICK N : N = Restrict(Rt(f, s), DOMAIN Rt(f, s) \ {l}) OBVIOUS
<1>10. N \in PageData
  <2>1. PICK D \in SUBSET Leaf : Rt(f, s) \in [D -> PageNo] BY <1>4 DEF TreeOK, RootPage
  <2>2. N \in [D \ {l} -> PageNo] BY <1>9, <2>1 DEF Restrict
  <2> QED BY <2>2 DEF PageData, RootPage
<1>11. PICK u1 \in TxnRec : u1 = Rewritten(t, R, N) /\ SetRoot(w, R, N) = Made(f, Push(r, u1), g, c, q)
  BY <1>1, <1>3, <1>10, SetRootMade
<1>12. PICK u \in TxnRec : u = [u1 EXCEPT !.free = u1.free \cup {p}] BY <1>8 DEF TxnRec
<1>13. /\ u.root = t.root /\ u.next = t.next /\ u.free = t.free \cup {p} /\ u.saved = t.saved
       /\ u.dirty = [t.dirty EXCEPT ![R] = N] /\ u.spill = t.spill /\ u.room = t.room
  BY <1>1, <1>11, <1>12 DEF TxnRec, Rewritten
<1> DEFINE z == Push(r, u)
<1>14. PICK P : P = {} OBVIOUS
<1>15. RootSet(t, u, P, N) BY <1>2, <1>3, <1>13, <1>14 DEF RootSet
<1>16. /\ Root(z) = t.root /\ \A a : a \notin P => Where(z, a) = Where(s, a)
  BY <1>1, <1>15, RootPlaces
<1>17. Rt(f, z) = N BY <1>1, <1>15, RootWritten
<1>18. DOMAIN u.dirty = DOMAIN t.dirty /\ Lists(u) = Lists(t) BY <1>13 DEF Lists
<1>19. Visible(z) = Visible(s)
  <2>1. Visible(s) = (Visible(r) \cup DOMAIN t.dirty) \ t.spill BY <1>1, SeenPushed
  <2>2. Visible(z) = (Visible(r) \cup DOMAIN u.dirty) \ u.spill BY <1>1, SeenPushed
  <2> QED BY <1>13, <1>18, <2>1, <2>2
<1>20. ListsApart(z) BY <1>1, <1>13, <1>18, ApartPushed
<1> HIDE DEF z
<1>21. /\ DOMAIN Rt(f, z) = DOMAIN Rt(f, s) \ {l} /\ Keeps(Rt(f, z), Rt(f, s))
       /\ TreeOK(f, z) /\ TreeOf(f, z) = TreeOf(f, s) \ {p}
  <2>1. Root(z) = Root(s) /\ Rt(f, z) = Restrict(Rt(f, s), DOMAIN Rt(f, s) \ {l})
    BY <1>2, <1>4, <1>9, <1>16, <1>17
  <2> HIDE DEF s, Whole
  <2> QED BY <1>4, <1>6, <1>7, <2>1, ChildGone
<1>22. Level(f, z, g)
  <2>1. u.room = UmMax - Cardinality(Visible(z)) BY <1>1, <1>13, <1>19
  <2>2. Level(f, Push(r, t), g) BY <1>1
  <2> QED BY <1>1, <1>8, <1>13, <1>18, <1>21, <2>1, <2>2, LessTree DEF z
<1>23. \A k \in DOMAIN Rt(f, z) : PathTo(f, z, k) = PathTo(f, s, k)
  <2> TAKE k \in DOMAIN Rt(f, z)
  <2>1. Rt(f, z)[k] = Rt(f, s)[k] BY <1>21 DEF Keeps
  <2>2. Where(z, Rt(f, z)[k]) = Where(s, Rt(f, s)[k]) BY <1>14, <1>16, <2>1
  <2>3. Where(z, Root(z)) = Where(s, Root(s)) BY <1>2, <1>4, <1>14, <1>16
  <2> HIDE DEF s
  <2> QED BY <2>2, <2>3 DEF PathTo, Rt
<1>24. CursTop(f, z, c)
  <2>1. \A x \in DOMAIN c : c[x].leaf # l BY <1>1 DEF CurLeaves
  <2>2. \A x \in DOMAIN c : c[x].leaf \in DOMAIN Rt(f, s) /\ c[x].path = PathTo(f, s, c[x].leaf)
    BY <1>1 DEF CursTop
  <2> QED BY <1>21, <1>23, <2>1, <2>2 DEF CursTop
<1>25. Alike(c, c) BY DEF Alike
<1>26. m \in DOMAIN Rt(f, z) BY <1>1, <1>21
<1>27. At(f, r, u, g, c, PathTo(f, z, m), m)
  <2> HIDE DEF s
  <2> QED BY <1>1, <1>13, <1>20, <1>22, <1>24, <1>25, <1>26, NewLast DEF z
<1>28. Unlink(w, l) = Made(f, z, g, c, q)
  <2>1. PICK y : y = SetRoot(w, R, N) OBVIOUS
  <2>2. y.txns[Depth(y)] = u1 /\ Depth(y) = Depth(w) BY <1>1, <1>11, <2>1, LastParts
  <2>3. w.txns[Depth(w)] = t /\ w.path[1][2] = R BY <1>1, <1>5, LastParts
  <2>4. Unlink(w, l) = [[w EXCEPT !.txns[Depth(w)].dirty[R] = Restrict(@, DOMAIN @ \ {l})]
                          EXCEPT !.txns[Depth(w)].free = @ \cup {p}]
    BY <1>4, <1>7, <2>3 DEF Unlink
  <2>5. [w EXCEPT !.txns[Depth(w)].dirty[R] = Restrict(@, DOMAIN @ \ {l})] = y
    <3>1. [w EXCEPT !.txns[Depth(w)].dirty[R] = Restrict(@, DOMAIN @ \ {l})]
            = SetRoot(w, R, Restrict(w.txns[Depth(w)].dirty[R], DOMAIN w.txns[Depth(w)].dirty[R] \ {l}))
      BY DEF SetRoot
    <3> QED BY <1>4, <1>9, <2>1, <2>3, <3>1
  <2>6. [y EXCEPT !.txns[Depth(y)].free = @ \cup {p}]
          = SetTop(y, [y.txns[Depth(y)] EXCEPT !.free = y.txns[Depth(y)].free \cup {p}])
    BY DEF SetTop
  <2>7. Unlink(w, l) = SetTop(y, u) BY <1>12, <2>2, <2>4, <2>5, <2>6
  <2>8. y = Made(f, Push(r, u1), g, c, q) BY <1>11, <2>1
  <2> QED BY <1>1, <2>7, <2>8, LastMade DEF z
<1>29. PICK y : y = Unlink(w, l) OBVIOUS
<1>30. y.file = f /\ y.txns = z BY <1>28, <1>29, MadeParts
<1>31. Below(w, y) BY <1>1, <1>30, BelowSame DEF z
<1>32. ASSUME NEW k \in DOMAIN Rt(f, z) PROVE Held(f, z)[k] = Held(f, s)[k]
  <2>1. PICK a : a = Rt(f, s)[k] OBVIOUS
  <2>2. k \in DOMAIN Rt(f, s) /\ Rt(f, z)[k] = a BY <1>21, <2>1 DEF Keeps
  <2>3. a # R BY <1>4, <2>1, <2>2 DEF TreeOK
  <2> HIDE DEF s
  <2>4. Page(f, z, a) = IF a \in u.spill THEN f[a]
           ELSE IF a \in DOMAIN u.dirty THEN u.dirty[a] ELSE Page(f, r, a)
    BY <1>1, PagePushed DEF z
  <2>5. Page(f, s, a) = IF a \in t.spill THEN f[a]
           ELSE IF a \in DOMAIN t.dirty THEN t.dirty[a] ELSE Page(f, r, a)
    BY <1>1, PagePushed DEF s
  <2>6. Page(f, z, a) = Page(f, s, a) BY <1>13, <1>18, <2>3, <2>4, <2>5
  <2> QED BY <2>1, <2>2, <2>6 DEF Held
<1>33. OnlyAt(w, y, l)
  <2>1. LeavesOf(w) = DOMAIN Rt(f, s) /\ LeavesOf(y) = DOMAIN Rt(f, s) \ {l}
    BY <1>1, <1>21, <1>30 DEF LeavesOf
  <2>2. HeldIn(w) = Held(f, s) /\ HeldIn(y) = Held(f, z) BY <1>1, <1>30 DEF HeldIn
  <2>3. \A k \in LeavesOf(y) : HeldIn(y)[k] = HeldIn(w)[k] BY <1>21, <1>32, <2>1, <2>2
  <2> QED BY <1>31, <2>1, <2>3 DEF OnlyAt
<1> QED BY <1>1, <1>23, <1>26, <1>27, <1>28, <1>29, <1>33 DEF Sound, z

\* mdb_del that merges a leaf page into another.
LEMMA MergeSound ==
  ASSUME MetaOK, NEW w, NEW l, Sound(w, l), NEW m \in LeavesOf(w), l # m, l \notin CurLeaves(w)
  PROVE  /\ \E k : Sound(MergeInto(w, l, m), k)
         /\ OnlyAt(w, MergeInto(w, l, m), l)
<1>1. PICK x : x = CursorTouch(PageSpill(w), l) OBVIOUS
<1>2. Ready(PageSpill(w), x, l) /\ Alongside(w, PageSpill(w)) BY <1>1, SpillSound, CursorTouchSound
<1>a. Alongside(w, x) BY <1>2, AlongsideTwice DEF Ready
<1>3. PICK y : y = TurnTo(x, m) OBVIOUS
<1>4. PICK v : v = PageTouch(y, 2, m) OBVIOUS
<1>5. CASE ~Good(x)
  <2>1. MergeInto(w, l, m) = x BY <1>1, <1>5 DEF MergeInto, Then
  <2> QED BY <1>2, <1>a, <2>1, OnlyAlongside DEF Ready
<1>6. CASE Good(x)
  <2>1. m \in LeavesOf(x) /\ l \in LeavesOf(x) /\ l \notin CurLeaves(x) /\ Sound(x, l)
        /\ x.path[1][1] = Depth(x)
    <3>1. l \in LeavesOf(w)
      <4>1. PICK f, r, t, g, c, q : Whole(w, l, f, r, t, g, c, q) BY SoundParts
      <4> QED BY <4>1 DEF Whole, LeavesOf
    <3> QED BY <1>2, <1>6, <1>a, <3>1 DEF Ready, Alongside
  <2>2. /\ Sound(y, m) /\ Alongside(x, y) /\ Depth(y) = Depth(x) /\ This(y) = This(x)
        /\ y.path[1] = x.path[1]
    BY <1>3, <2>1, TurnSound
  <2>3. RootHere(This(y)) BY <2>1, <2>2, RootReady
  <2>4. Touched(y, v, m, 2) BY <1>4, <2>2, <2>3, TouchSound
  <2>5. MergeInto(w, l, m) = IF Good(v) THEN Unlink(v, l) ELSE v
    BY <1>1, <1>3, <1>4, <1>6 DEF MergeInto, Then, TurnTo
  <2>8. Alongside(w, v) BY <1>a, <2>2, <2>4, AlongsideTwice DEF Touched
  <2>6. CASE ~Good(v)
    <3>1. MergeInto(w, l, m) = v BY <2>5, <2>6
    <3> QED BY <2>4, <2>8, <3>1, OnlyAlongside DEF Touched
  <2>7. CASE Good(v)
    <3>1. l \in LeavesOf(v) /\ l \notin CurLeaves(v) BY <2>1, <2>2, <2>4 DEF Touched, Alongside
    <3>2. Sound(v, m) /\ v.path[1][1] = Depth(v) BY <2>1, <2>2, <2>4, <2>7 DEF Touched
    <3>3. Sound(Unlink(v, l), m) /\ OnlyAt(v, Unlink(v, l), l) BY <3>1, <3>2, UnlinkSound
    <3>4. MergeInto(w, l, m) = Unlink(v, l) BY <2>5, <2>7
    <3> QED BY <2>8, <3>3, <3>4, OnlyAfter
  <2> QED BY <2>6, <2>7
<1> QED BY <1>5, <1>6
=============================================================================
