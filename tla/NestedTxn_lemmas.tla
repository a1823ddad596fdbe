--------------------------- MODULE NestedTxn_lemmas --------------------------
(***************************************************************************)
(* Proofs about NestedTxn, for any number of leaf pages, records, cursors, *)
(* nested transactions, and any room in the dirty lists.                   *)
(***************************************************************************)
EXTENDS NestedTxn, FiniteSetTheorems, SequenceTheorems, WellFoundedInduction, TLAPS

-----------------------------------------------------------------------------
(* Types.                                                                   *)

PageNo   == FirstPg .. MaxPg - 1
RootPage == UNION {[D -> PageNo] : D \in SUBSET Leaf}
PageData == Value \cup RootPage
DirtyList == UNION {[D -> PageData] : D \in SUBSET PageNo}
PgRec    == [head : SUBSET PageNo, last : Nat]
TxnRec   == [root : PageNo, dirty : DirtyList, spill : SUBSET PageNo,
             free : SUBSET PageNo, next : Nat, room : Nat, bad : BOOLEAN,
             saved : PgRec]
Memory   == Int \X Int
PathRec  == Memory \X Memory
CursorRec == [own : Nat, leaf : Leaf, path : PathRec, backup : Seq(PathRec)]
CursorTable == UNION {[D -> CursorRec] : D \in SUBSET Cursor}

Types(f, s, g, c) ==
  /\ f \in [PageNo -> PageData] /\ s \in Seq(TxnRec) /\ g \in PgRec /\ c \in CursorTable
MetaOK ==
  /\ meta \in [root : PageNo, next : Nat, recs : Seq(SUBSET PageNo)]
  /\ \A i, j \in DOMAIN meta.recs : i # j => meta.recs[i] \cap meta.recs[j] = {}

-----------------------------------------------------------------------------
(* The inductive invariant.                                                 *)

\* The pages in the lists of a stack, those it has freed, the records that the
\* allocator g has not read, and those it has.
Lists(t)  == t.spill \cup DOMAIN t.dirty
Listed(s) == UNION {Lists(s[k]) : k \in DOMAIN s}
Gone(s)   == UNION {s[k].free : k \in DOMAIN s}
Unread(g) == UNION {meta.recs[r] : r \in g.last + 1 .. Len(meta.recs)}
WasRead(g) == UNION {meta.recs[r] : r \in 1 .. g.last}

\* The root page of a stack, and the pages of its tree.
Rt(f, s)     == Page(f, s, Root(s))
TreeOf(f, s) == {Root(s)} \cup {Rt(f, s)[l] : l \in DOMAIN Rt(f, s)}

\* What its leaf pages hold.
Held(f, s) == [l \in DOMAIN Rt(f, s) |-> Page(f, s, Rt(f, s)[l])]

TreeOK(f, s) ==
  /\ Root(s) \in PageNo /\ Rt(f, s) \in RootPage
  /\ \A l, m \in DOMAIN Rt(f, s) : Rt(f, s)[l] = Rt(f, s)[m] => l = m
  /\ \A l \in DOMAIN Rt(f, s) : Rt(f, s)[l] # Root(s)

FreedApart(s) == \A i, j \in DOMAIN s : i # j => s[i].free \cap s[j].free = {}

\* Every page is in the tree, freed, at hand or in a record, and in one only.
PartOK(f, s, g) ==
  /\ TreeOf(f, s) \cup g.head \cup Gone(s) \cup Unread(g) = FirstPg .. NextPg(s) - 1
  /\ TreeOf(f, s) \cap (g.head \cup Gone(s) \cup Unread(g)) = {}
  /\ g.head \cap (Gone(s) \cup Unread(g)) = {}
  /\ Gone(s) \cap Unread(g) = {}
  /\ FreedApart(s)

\* The lists have the pages of the tree that are not the committed tree's.
ListOK(f, s) ==
  /\ TreeOf(f, s) \subseteq Listed(s) \cup TreeOf(f, <<>>)
  /\ Listed(s) \subseteq TreeOf(f, s) \cup Gone(s)
  /\ Listed(s) \cap TreeOf(f, <<>>) = {}
  /\ Root(s) \in Listed(s) \cup {Root(<<>>)}

AllocOK(s, g) ==
  /\ g.last <= Len(meta.recs)
  /\ g.head \subseteq WasRead(g)
  /\ meta.next <= NextPg(s) /\ NextPg(s) <= MaxPg

\* Without a transaction there is nothing at hand.
Bottom(s, g) == s = <<>> => g = NoPages

RoomOK(s) == s # <<>> => Last(s).room = UmMax - Cardinality(Visible(s))

Level(f, s, g) ==
  /\ TreeOK(f, s) /\ PartOK(f, s, g) /\ ListOK(f, s) /\ AllocOK(s, g) /\ RoomOK(s) /\ Bottom(s, g)

\* So at each level of the stack, with the allocator as it will be there.
PgAt(s, g, k) == IF k = Len(s) THEN g ELSE s[k + 1].saved
Stack(f, s, g) ==
  \A k \in 0 .. Len(s) : Level(f, SubSeq(s, 1, k), PgAt(s, g, k))

\* No page is both dirty and spilled in one transaction, or spilled in two.
ListsApart(s) ==
  /\ \A k \in DOMAIN s : s[k].spill \cap DOMAIN s[k].dirty = {}
  /\ \A j, k \in DOMAIN s : j # k => s[j].spill \cap s[k].spill = {}

\* The cursors at the last level of a stack, and what their copies will be at
\* the levels of the stack s below it.
CursTop(f, s, c) ==
  \A x \in DOMAIN c : /\ c[x].leaf \in DOMAIN Rt(f, s)
                      /\ c[x].path = PathTo(f, s, c[x].leaf)
CursLow(f, s, c) ==
  \A x \in DOMAIN c :
    /\ c[x].own \in 1 .. Len(s) + 1
    /\ Len(c[x].backup) = Len(s) + 1 - c[x].own
    /\ \A k \in c[x].own .. Len(s) :
         /\ c[x].leaf \in DOMAIN Rt(f, SubSeq(s, 1, k))
         /\ c[x].backup[k - c[x].own + 1] = PathTo(f, SubSeq(s, 1, k), c[x].leaf)

Inv(f, s, g, c) ==
  /\ Types(f, s, g, c)
  /\ Stack(f, s, g) /\ ListsApart(s)
  /\ s = <<>> => g = NoPages /\ DOMAIN c = {}
  /\ s # <<>> => CursTop(f, s, c) /\ CursLow(f, Front(s), c)

NInv == MetaOK /\ Inv(file, txns, pg, cursors)

-----------------------------------------------------------------------------
(* Numbers and sequences.                                                   *)

\* The stack r with transaction t on it.
Push(r, t) == Append(r, t)

\* A nonempty set of numbers has a least one; one with a bound has a greatest.
LEMMA LeastNumber ==
  ASSUME NEW T, T \subseteq Nat, T # {}
  PROVE  \E x \in T : \A y \in T : x <= y
<1>1. PICK x \in T : \A y \in T : <<y, x>> \notin OpToRel(<, Nat)
  BY NatLessThanWellFounded, WFMin, Zenon
<1>2. ASSUME NEW y \in T PROVE x <= y
  <2>1. ~ (<<y, x>>[1] < <<y, x>>[2]) BY <1>1 DEF OpToRel
  <2> QED BY <2>1
<1> QED BY <1>2

LEMMA MinIn ==
  ASSUME NEW T, T \subseteq Nat, T # {}
  PROVE  Min(T) \in T /\ \A y \in T : Min(T) <= y
BY LeastNumber DEF Min

LEMMA MaxIn ==
  ASSUME NEW n \in Nat, NEW T, T \subseteq 1 .. n, T # {}
  PROVE  Max(T) \in T /\ \A y \in T : Max(T) >= y
<1> DEFINE D == {n - x : x \in T}
<1>1. D \subseteq Nat /\ D # {} OBVIOUS
<1>2. PICK d \in D : \A e \in D : d <= e BY <1>1, LeastNumber
<1>3. PICK x \in T : d = n - x BY <1>2
<1>4. ASSUME NEW y \in T PROVE x >= y
  <2>1. n - y \in D OBVIOUS
  <2>2. d <= n - y BY <1>2, <2>1
  <2>3. x \in Int /\ y \in Int BY SMT
  <2> QED BY <1>3, <2>2, <2>3
<1>5. \E z \in T : \A y \in T : z >= y BY <1>4
<1> QED BY <1>5 DEF Max

\* A stack and its last transaction.
LEMMA Pushed ==
  ASSUME NEW r \in Seq(TxnRec), NEW t \in TxnRec
  PROVE  /\ Push(r, t) \in Seq(TxnRec) /\ Push(r, t) # <<>>
         /\ Len(r) \in Nat /\ DOMAIN r = 1 .. Len(r)
         /\ Len(Push(r, t)) = Len(r) + 1
         /\ DOMAIN Push(r, t) = 1 .. Len(r) + 1
         /\ \A k \in 1 .. Len(r) : Push(r, t)[k] = r[k]
         /\ Push(r, t)[Len(r) + 1] = t
         /\ Last(Push(r, t)) = t /\ Front(Push(r, t)) = r
         /\ \A k \in 0 .. Len(r) : SubSeq(Push(r, t), 1, k) = SubSeq(r, 1, k)
         /\ SubSeq(Push(r, t), 1, Len(r) + 1) = Push(r, t)
         /\ SubSeq(r, 1, Len(r)) = r
<1>1. /\ Push(r, t) \in Seq(TxnRec) /\ Push(r, t) # <<>>
      /\ Len(r) \in Nat /\ DOMAIN r = 1 .. Len(r)
      /\ Len(Push(r, t)) = Len(r) + 1
      /\ DOMAIN Push(r, t) = 1 .. Len(r) + 1
      /\ \A k \in 1 .. Len(r) : Push(r, t)[k] = r[k]
      /\ Push(r, t)[Len(r) + 1] = t
  BY DEF Push
<1>2. ASSUME NEW k \in 0 .. Len(r)
      PROVE  SubSeq(Push(r, t), 1, k) = SubSeq(r, 1, k)
  BY <1>1
<1>3. SubSeq(r, 1, Len(r)) = r BY SubSeqFull
<1>4. SubSeq(Push(r, t), 1, Len(r) + 1) = Push(r, t) BY SubSeqFull, <1>1
<1>5. SubSeq(Push(r, t), 1, Len(r)) = r BY <1>1, <1>2, <1>3
<1> QED BY <1>1, <1>2, <1>3, <1>4, <1>5 DEF Last, Front

LEMMA Popped ==
  ASSUME NEW s \in Seq(TxnRec), s # <<>>
  PROVE  /\ Last(s) \in TxnRec /\ Front(s) \in Seq(TxnRec)
         /\ s = Push(Front(s), Last(s))
         /\ Len(Front(s)) = Len(s) - 1
<1>1. PICK r \in Seq(TxnRec), t \in TxnRec : s = Push(r, t) BY SequenceEmptyOrAppend DEF Push
<1> QED BY <1>1, Pushed DEF Push

\* A transaction's lists.
LEMMA ListTypes ==
  ASSUME NEW t \in TxnRec
  PROVE  /\ DOMAIN t.dirty \subseteq PageNo
         /\ t.dirty \in [DOMAIN t.dirty -> PageData]
         /\ t.spill \subseteq PageNo /\ t.free \subseteq PageNo
         /\ IsFiniteSet(DOMAIN t.dirty) /\ PageNo \subseteq Nat
<1>1. PICK D \in SUBSET PageNo : t.dirty \in [D -> PageData] BY DEF TxnRec, DirtyList
<1>2. IsFiniteSet(PageNo) BY FS_Interval, NestedAssumption DEF PageNo, FirstPg, NestedAssumption
<1>3. PageNo \subseteq Nat BY DEF PageNo, FirstPg
<1>4. IsFiniteSet(D) BY <1>2, FS_Subset
<1>5. DOMAIN t.dirty = D BY <1>1
<1> QED BY <1>1, <1>3, <1>4, <1>5 DEF TxnRec

-----------------------------------------------------------------------------
(* Where a page is.                                                         *)

\* No transaction: in the file.
LEMMA WhereNone ==
  ASSUME NEW f, NEW p
  PROVE  Where(<<>>, p) = InMap(p) /\ Page(f, <<>>, p) = f[p]
BY DEF Where, Page, Content, InMap

\* The last transaction decides, or else what is below it.
LEMMA WherePushed ==
  ASSUME NEW r \in Seq(TxnRec), NEW t \in TxnRec, NEW p
  PROVE  Where(Push(r, t), p) =
           IF p \in t.spill THEN InMap(p)
           ELSE IF p \in DOMAIN t.dirty THEN Dirty(Len(r) + 1, p) ELSE Where(r, p)
<1> DEFINE s  == Push(r, t)
           Hs == {k \in DOMAIN s : p \in s[k].spill \/ p \in DOMAIN s[k].dirty}
           Hr == {k \in DOMAIN r : p \in r[k].spill \/ p \in DOMAIN r[k].dirty}
<1>1. Where(s, p) = IF Hs = {} \/ p \in s[Max(Hs)].spill THEN InMap(p) ELSE Dirty(Max(Hs), p)
  BY DEF Where
<1>2. Where(r, p) = IF Hr = {} \/ p \in r[Max(Hr)].spill THEN InMap(p) ELSE Dirty(Max(Hr), p)
  BY DEF Where
<1>5. DOMAIN r = 1 .. Len(r) /\ \A k \in 1 .. Len(r) : s[k] = r[k] BY Pushed
<1>3. CASE p \in t.spill \/ p \in DOMAIN t.dirty
  <2>1. Len(r) + 1 \in Hs BY <1>3, Pushed DEF Push
  <2>2. Len(r) + 1 \in Nat /\ DOMAIN s = 1 .. Len(r) + 1 BY Pushed
  <2> HIDE DEF s
  <2>3. Hs \subseteq 1 .. Len(r) + 1 BY <2>2
  <2>4. Max(Hs) \in Hs /\ Max(Hs) >= Len(r) + 1 BY <2>1, <2>2, <2>3, MaxIn
  <2>5. Max(Hs) = Len(r) + 1 BY <2>2, <2>3, <2>4
  <2>6. s[Len(r) + 1] = t BY Pushed DEF s
  <2> QED BY <1>1, <1>3, <2>1, <2>5, <2>6 DEF s
<1>4. CASE ~(p \in t.spill \/ p \in DOMAIN t.dirty)
  <2>1. Hs = Hr BY <1>4, Pushed DEF Push
  <2>2. CASE Hr = {} BY <1>1, <1>2, <1>4, <2>1, <2>2
  <2>3. CASE Hr # {}
    <3>1. Hr \subseteq 1 .. Len(r) BY Pushed
    <3>2. Max(Hr) \in Hr BY <2>3, <3>1, MaxIn, Pushed
    <3>3. PICK h \in 1 .. Len(r) : h = Max(Hr) BY <3>1, <3>2
    <3>4. h \in DOMAIN r /\ s[h] = r[h] BY <1>5
    <3> QED BY <1>1, <1>2, <1>4, <2>1, <2>3, <3>3, <3>4
  <2> QED BY <2>2, <2>3
<1> QED BY <1>3, <1>4

LEMMA PagePushed ==
  ASSUME NEW r \in Seq(TxnRec), NEW t \in TxnRec, NEW p, NEW f
  PROVE  Page(f, Push(r, t), p) =
           IF p \in t.spill THEN f[p]
           ELSE IF p \in DOMAIN t.dirty THEN t.dirty[p] ELSE Page(f, r, p)
<1> DEFINE s == Push(r, t)
<1>1. CASE p \in t.spill
  BY <1>1, WherePushed DEF Page, Content, InMap
<1>2. CASE p \notin t.spill /\ p \in DOMAIN t.dirty
  BY <1>2, WherePushed, Pushed DEF Page, Content, Dirty, Push
<1>3. CASE p \notin t.spill /\ p \notin DOMAIN t.dirty
  <2>1. Where(s, p) = Where(r, p) BY <1>3, WherePushed
  <2>2. Where(r, p)[1] = 0 \/ Where(r, p)[1] \in 1 .. Len(r)
    <3> DEFINE Hr == {k \in DOMAIN r : p \in r[k].spill \/ p \in DOMAIN r[k].dirty}
    <3>1. Hr \subseteq 1 .. Len(r) BY Pushed
    <3>2. Hr # {} => Max(Hr) \in Hr BY <3>1, MaxIn, Pushed
    <3> QED BY <3>1, <3>2 DEF Where, InMap, Dirty
  <2> QED BY <1>3, <2>1, <2>2, Pushed DEF Page, Content, Push
<1> QED BY <1>1, <1>2, <1>3

\* In the file, or in one of the dirty lists; under its own number.
LEMMA WhereType ==
  ASSUME NEW r \in Seq(TxnRec), NEW p
  PROVE  \/ Where(r, p) = InMap(p)
         \/ \E k \in 1 .. Len(r) : Where(r, p) = Dirty(k, p) /\ p \in DOMAIN r[k].dirty
<1> DEFINE Hr == {k \in DOMAIN r : p \in r[k].spill \/ p \in DOMAIN r[k].dirty}
<1>1. Hr \subseteq 1 .. Len(r) /\ Len(r) \in Nat OBVIOUS
<1>2. Hr # {} => Max(Hr) \in Hr BY <1>1, MaxIn
<1> QED BY <1>1, <1>2 DEF Where

\* A page of no list is in the file.
LEMMA WhereUnlisted ==
  ASSUME NEW r \in Seq(TxnRec), NEW p, p \notin Listed(r)
  PROVE  Where(r, p) = InMap(p)
BY DEF Where, Listed, Lists

\* A page in the file that some list has was spilled.
LEMMA WhereSpilled ==
  ASSUME NEW r \in Seq(TxnRec), NEW p \in Listed(r), Where(r, p) = InMap(p)
  PROVE  \E k \in 1 .. Len(r) : p \in r[k].spill
<1> DEFINE Hr == {k \in DOMAIN r : p \in r[k].spill \/ p \in DOMAIN r[k].dirty}
<1>1. Hr \subseteq 1 .. Len(r) /\ Len(r) \in Nat OBVIOUS
<1>2. Hr # {} BY DEF Listed, Lists
<1>3. Max(Hr) \in Hr BY <1>1, <1>2, MaxIn
<1>4. Max(Hr) # 0 BY <1>1, <1>3
<1>5. p \in r[Max(Hr)].spill BY <1>2, <1>4 DEF Where, InMap, Dirty
<1> QED BY <1>1, <1>3, <1>5

-----------------------------------------------------------------------------
(* The levels of a stack.                                                   *)

\* A stack is in order if the stack below the last transaction is, with the
\* allocator that this one will give back, and so is its own level.
LEMMA StackPushed ==
  ASSUME NEW r \in Seq(TxnRec), NEW t \in TxnRec, NEW f, NEW g
  PROVE  Stack(f, Push(r, t), g) <=> Stack(f, r, t.saved) /\ Level(f, Push(r, t), g)
<1> DEFINE s == Push(r, t)
<1>1. Len(s) = Len(r) + 1 /\ Len(r) \in Nat BY Pushed
<1>2. ASSUME NEW k \in 0 .. Len(r)
      PROVE  SubSeq(s, 1, k) = SubSeq(r, 1, k) /\ PgAt(s, g, k) = PgAt(r, t.saved, k)
  <2>1. SubSeq(s, 1, k) = SubSeq(r, 1, k) BY Pushed
  <2>2. k + 1 = Len(r) + 1 => s[k + 1] = t BY Pushed DEF Push
  <2>3. k + 1 # Len(r) + 1 => s[k + 1] = r[k + 1]
    <3>1. k + 1 # Len(r) + 1 => k + 1 \in 1 .. Len(r) BY <1>1
    <3> QED BY <3>1, Pushed
  <2> QED BY <1>1, <2>1, <2>2, <2>3 DEF PgAt
<1>3. SubSeq(s, 1, Len(s)) = s /\ PgAt(s, g, Len(s)) = g BY <1>1, Pushed DEF PgAt
<1>4. 0 .. Len(s) = 0 .. Len(r) \cup {Len(s)} BY <1>1
<1> HIDE DEF s
<1> QED BY <1>2, <1>3, <1>4 DEF Stack, s

LEMMA StackEmpty ==
  ASSUME NEW s \in Seq(TxnRec), NEW f, NEW g, Stack(f, s, g)
  PROVE  Level(f, <<>>, NoPages)
<1>1. 0 \in 0 .. Len(s) /\ SubSeq(s, 1, 0) = <<>> OBVIOUS
<1>2. Level(f, <<>>, PgAt(s, g, 0)) BY <1>1 DEF Stack
<1> QED BY <1>2 DEF Level, Bottom

LEMMA StackLast ==
  ASSUME NEW s \in Seq(TxnRec), s # <<>>, NEW f, NEW g, Stack(f, s, g)
  PROVE  Level(f, s, g)
<1>1. PICK r \in Seq(TxnRec), t \in TxnRec : s = Push(r, t) BY Popped
<1>2. Stack(f, Push(r, t), g) BY <1>1
<1>3. Level(f, Push(r, t), g) BY <1>2, StackPushed
<1> QED BY <1>1, <1>3

\* The file changes, but at no page of the committed tree and at none that was
\* spilled: every transaction sees what it saw.
Harmless(f, e, X, r) ==
  /\ \A p \in PageNo \ X : e[p] = f[p]
  /\ X \cap TreeOf(f, <<>>) = {}
  /\ \A k \in 1 .. Len(r) : X \cap r[k].spill = {}

LEMMA CommittedKept ==
  ASSUME NEW f, NEW e, NEW X, NEW r, Harmless(f, e, X, r), Level(f, <<>>, NoPages)
  PROVE  Rt(e, <<>>) = Rt(f, <<>>) /\ TreeOf(e, <<>>) = TreeOf(f, <<>>)
<1>1. Root(<<>>) \in PageNo /\ Root(<<>>) \notin X BY DEF TreeOf, Level, TreeOK, Harmless
<1> QED BY <1>1, WhereNone DEF TreeOf, Rt, Harmless

LEMMA PageKept ==
  ASSUME NEW r \in Seq(TxnRec), NEW f, NEW e, NEW X, Harmless(f, e, X, r),
         NEW p \in PageNo, p \in Listed(r) \cup TreeOf(f, <<>>)
  PROVE  Page(e, r, p) = Page(f, r, p)
<1>1. CASE Where(r, p) = InMap(p)
  <2>1. p \notin X BY <1>1, WhereSpilled DEF Harmless
  <2> QED BY <1>1, <2>1 DEF Page, Content, InMap, Harmless
<1>2. CASE Where(r, p) # InMap(p)
  <2>1. PICK k \in 1 .. Len(r) : Where(r, p) = Dirty(k, p) BY <1>2, WhereType
  <2>2. k # 0 OBVIOUS
  <2> QED BY <2>1, <2>2 DEF Page, Content, Dirty
<1> QED BY <1>1, <1>2

LEMMA TreePages ==
  ASSUME NEW s, NEW f, NEW g, Level(f, s, g)
  PROVE  TreeOf(f, s) \subseteq PageNo /\ TreeOf(f, s) \subseteq Listed(s) \cup TreeOf(f, <<>>)
<1>1. PICK D \in SUBSET Leaf : Rt(f, s) \in [D -> PageNo] BY DEF Level, TreeOK, RootPage
<1> QED BY <1>1 DEF Level, TreeOK, ListOK, TreeOf

LEMMA LevelKept ==
  ASSUME NEW r \in Seq(TxnRec), NEW f, NEW e, NEW X, Harmless(f, e, X, r),
         Level(f, <<>>, NoPages), NEW g, Level(f, r, g)
  PROVE  /\ Level(e, r, g) /\ Rt(e, r) = Rt(f, r) /\ Held(e, r) = Held(f, r)
         /\ \A p \in TreeOf(f, r) : Page(e, r, p) = Page(f, r, p)
<1>1. Rt(e, <<>>) = Rt(f, <<>>) /\ TreeOf(e, <<>>) = TreeOf(f, <<>>)
  BY CommittedKept
<1>2. ASSUME NEW p \in TreeOf(f, r) PROVE Page(e, r, p) = Page(f, r, p)
  <2>1. p \in PageNo /\ p \in Listed(r) \cup TreeOf(f, <<>>) BY TreePages
  <2> QED BY <2>1, PageKept
<1>3. Rt(e, r) = Rt(f, r) /\ TreeOf(e, r) = TreeOf(f, r) BY <1>2 DEF TreeOf, Rt
<1>4. Held(e, r) = Held(f, r)
  <2>1. \A l \in DOMAIN Rt(f, r) : Page(e, r, Rt(f, r)[l]) = Page(f, r, Rt(f, r)[l])
    BY <1>2 DEF TreeOf
  <2> QED BY <1>3, <2>1 DEF Held
<1> QED BY <1>1, <1>2, <1>3, <1>4 DEF Level, TreeOK, PartOK, ListOK

LEMMA StackKept ==
  ASSUME NEW r \in Seq(TxnRec), NEW f, NEW e, NEW X, Harmless(f, e, X, r),
         NEW g, Stack(f, r, g)
  PROVE  /\ Stack(e, r, g)
         /\ \A k \in 0 .. Len(r) : /\ Rt(e, SubSeq(r, 1, k)) = Rt(f, SubSeq(r, 1, k))
                                   /\ Held(e, SubSeq(r, 1, k)) = Held(f, SubSeq(r, 1, k))
                                   /\ \A l : PathTo(e, SubSeq(r, 1, k), l) = PathTo(f, SubSeq(r, 1, k), l)
<1>1. Level(f, <<>>, NoPages) BY StackEmpty
<1>2. ASSUME NEW k \in 0 .. Len(r)
      PROVE  /\ Level(e, SubSeq(r, 1, k), PgAt(r, g, k)) /\ Rt(e, SubSeq(r, 1, k)) = Rt(f, SubSeq(r, 1, k))
             /\ Held(e, SubSeq(r, 1, k)) = Held(f, SubSeq(r, 1, k))
  <2> DEFINE b == SubSeq(r, 1, k)
  <2>1. b \in Seq(TxnRec) /\ Len(b) = k /\ \A j \in 1 .. k : b[j] = r[j] BY SMT
  <2>2. Harmless(f, e, X, b) BY <2>1 DEF Harmless
  <2>3. Level(f, b, PgAt(r, g, k)) BY DEF Stack
  <2> HIDE DEF b
  <2>4. Level(e, b, PgAt(r, g, k)) /\ Rt(e, b) = Rt(f, b) /\ Held(e, b) = Held(f, b)
    BY <1>1, <2>1, <2>2, <2>3, LevelKept
  <2> QED BY <2>4 DEF b
<1> QED BY <1>2 DEF Stack, PathTo, Rt

-----------------------------------------------------------------------------
(* The level of the last transaction, from its parts.                       *)

LEMMA Parts ==
  ASSUME NEW r \in Seq(TxnRec), NEW t \in TxnRec
  PROVE  /\ Root(Push(r, t)) = t.root /\ NextPg(Push(r, t)) = t.next
         /\ Listed(Push(r, t)) = Listed(r) \cup Lists(t)
         /\ Gone(Push(r, t)) = Gone(r) \cup t.free
         /\ Listed(r) \subseteq PageNo /\ Gone(r) \subseteq PageNo
         /\ FreedApart(Push(r, t)) <=> FreedApart(r) /\ t.free \cap Gone(r) = {}
<1> DEFINE s == Push(r, t)
<1>1. /\ s # <<>> /\ Last(s) = t /\ Len(r) \in Nat /\ DOMAIN r = 1 .. Len(r)
      /\ DOMAIN s = 1 .. Len(r) + 1
      /\ \A k \in DOMAIN r : s[k] = r[k] 
      /\ s[Len(r) + 1] = t
  BY Pushed DEF Push
<1>2. DOMAIN s = DOMAIN r \cup {Len(r) + 1} /\ Len(r) + 1 \notin DOMAIN r BY <1>1
<1> HIDE DEF s
<1>3. Root(s) = t.root /\ NextPg(s) = t.next BY <1>1 DEF Root, NextPg
<1>4. Listed(s) = Listed(r) \cup Lists(t) BY <1>1, <1>2 DEF Listed
<1>5. Gone(s) = Gone(r) \cup t.free BY <1>1, <1>2 DEF Gone
<1>6. \A k \in DOMAIN r : r[k] \in TxnRec BY <1>1
<1>7. Listed(r) \subseteq PageNo /\ Gone(r) \subseteq PageNo
  BY <1>6, ListTypes DEF Listed, Lists, Gone
<1>8. FreedApart(s) <=> FreedApart(r) /\ t.free \cap Gone(r) = {}
  BY <1>1, <1>2 DEF Gone, FreedApart
<1> QED BY <1>3, <1>4, <1>5, <1>7, <1>8 DEF s

\* The dirty pages that a transaction sees.
LEMMA Seen ==
  ASSUME NEW r \in Seq(TxnRec)
  PROVE  /\ Visible(r) = {p \in Listed(r) : Where(r, p) # InMap(p)}
         /\ Visible(r) \subseteq PageNo /\ IsFiniteSet(Visible(r))
         /\ Cardinality(Visible(r)) \in Nat
<1>1. \A p : Where(r, p) # InMap(p) => Where(r, p)[1] > 0 /\ p \in Listed(r)
                                       /\ \E k \in DOMAIN r : p \in DOMAIN r[k].dirty
  <2> TAKE p
  <2> HAVE Where(r, p) # InMap(p)
  <2>1. PICK k \in 1 .. Len(r) : Where(r, p) = Dirty(k, p) /\ p \in DOMAIN r[k].dirty
    BY WhereType
  <2> QED BY <2>1 DEF Dirty, Listed, Lists
<1>2. \A p : Where(r, p)[1] > 0 => Where(r, p) # InMap(p) BY DEF InMap
<1>3. Visible(r) = {p \in Listed(r) : Where(r, p) # InMap(p)}
  BY <1>1, <1>2 DEF Visible
<1>4. \A k \in DOMAIN r : r[k] \in TxnRec OBVIOUS
<1>5. Listed(r) \subseteq PageNo BY <1>4, ListTypes DEF Listed, Lists
<1>6. IsFiniteSet(PageNo) BY FS_Interval, NestedAssumption DEF PageNo, FirstPg, NestedAssumption
<1>7. Visible(r) \subseteq PageNo BY <1>3, <1>5
<1>8. IsFiniteSet(Visible(r)) BY <1>6, <1>7, FS_Subset
<1> QED BY <1>3, <1>7, <1>8, FS_CardinalityType

LEMMA SeenPushed ==
  ASSUME NEW r \in Seq(TxnRec), NEW t \in TxnRec
  PROVE  Visible(Push(r, t)) = (Visible(r) \cup DOMAIN t.dirty) \ t.spill
<1> DEFINE s == Push(r, t)
<1>1. s \in Seq(TxnRec) /\ Len(r) \in Nat BY Pushed
<1>2. Listed(s) = Listed(r) \cup Lists(t) BY Parts
<1>3. Visible(s) = {p \in Listed(s) : Where(s, p) # InMap(p)} BY <1>1, Seen
<1>4. Visible(r) = {p \in Listed(r) : Where(r, p) # InMap(p)} BY Seen
<1>5. \A p : p \in Listed(r) \/ Where(r, p) = InMap(p) BY WhereUnlisted
<1>6. \A p : Dirty(Len(r) + 1, p) # InMap(p) BY <1>1 DEF Dirty, InMap
<1>7. \A p : Where(s, p) = IF p \in t.spill THEN InMap(p)
             ELSE IF p \in DOMAIN t.dirty THEN Dirty(Len(r) + 1, p) ELSE Where(r, p)
  BY WherePushed
<1> HIDE DEF s
<1> QED BY <1>2, <1>3, <1>4, <1>5, <1>6, <1>7 DEF Lists, s

\* A stack that has the same tree, the same pages in its lists and elsewhere.
LEMMA SameTree ==
  ASSUME NEW f, NEW e, NEW g, NEW r \in Seq(TxnRec), NEW t \in TxnRec, NEW u \in TxnRec,
         Level(f, Push(r, t), g),
         u.root = t.root, u.next = t.next, u.free = t.free,
         Listed(Push(r, u)) = Listed(Push(r, t)),
         Rt(e, Push(r, u)) = Rt(f, Push(r, t)), TreeOf(e, <<>>) = TreeOf(f, <<>>),
         u.room = UmMax - Cardinality(Visible(Push(r, u)))
  PROVE  Level(e, Push(r, u), g)
<1> DEFINE s == Push(r, t)  v == Push(r, u)
<1>a. Root(s) = t.root /\ NextPg(s) = t.next /\ Gone(s) = Gone(r) \cup t.free BY Parts
<1>b. Root(v) = u.root /\ NextPg(v) = u.next /\ Gone(v) = Gone(r) \cup u.free BY Parts
<1>1. Root(v) = Root(s) /\ NextPg(v) = NextPg(s) /\ Gone(v) = Gone(s) BY <1>a, <1>b
<1>2. FreedApart(s) <=> FreedApart(v) BY Parts
<1>3. TreeOf(e, v) = TreeOf(f, s) BY <1>1 DEF TreeOf
<1>4. RoomOK(v) /\ v # <<>> BY Pushed DEF RoomOK
<1> HIDE DEF s, v
<1>5. TreeOK(e, v) BY <1>1 DEF Level, TreeOK, s, v
<1>6. PartOK(e, v, g) BY <1>1, <1>2, <1>3 DEF Level, PartOK, s, v
<1>7. ListOK(e, v) BY <1>1, <1>3 DEF Level, ListOK, s, v
<1>8. AllocOK(v, g) BY <1>1 DEF Level, AllocOK, s, v
<1> QED BY <1>4, <1>5, <1>6, <1>7, <1>8 DEF Level, Bottom, v

-----------------------------------------------------------------------------
(* Writes.  A world with a path to leaf l: the stack r below, the last       *)
(* transaction t.                                                           *)

At(f, r, t, g, c, q, l) ==
  /\ r \in Seq(TxnRec) /\ t \in TxnRec
  /\ Types(f, Push(r, t), g, c)
  /\ Stack(f, r, t.saved) /\ Level(f, Push(r, t), g)
  /\ ListsApart(Push(r, t))
  /\ CursTop(f, Push(r, t), c) /\ CursLow(f, r, c)
  /\ l \in DOMAIN Rt(f, Push(r, t)) /\ q = PathTo(f, Push(r, t), l)

Made(f, s, g, c, q) == [file |-> f, txns |-> s, pg |-> g, cur |-> c, path |-> q]
Sound(w, l) ==
  \E f, r, t, g, c, q : w = Made(f, Push(r, t), g, c, q) /\ At(f, r, t, g, c, q, l)

LEMMA InvAt ==
  ASSUME NEW f, NEW r \in Seq(TxnRec), NEW t \in TxnRec, NEW g, NEW c, NEW q, NEW l
  PROVE  At(f, r, t, g, c, q, l)
           <=> /\ Inv(f, Push(r, t), g, c)
               /\ l \in DOMAIN Rt(f, Push(r, t)) /\ q = PathTo(f, Push(r, t), l)
<1> DEFINE s == Push(r, t)
<1>1. s # <<>> /\ Front(s) = r BY Pushed
<1>2. Stack(f, s, g) <=> Stack(f, r, t.saved) /\ Level(f, s, g) BY StackPushed
<1> HIDE DEF s
<1> QED BY <1>1, <1>2 DEF At, Inv, s

\* Another last transaction.
LEMMA SetLast ==
  ASSUME NEW r \in Seq(TxnRec), NEW t \in TxnRec, NEW u \in TxnRec
  PROVE  /\ [Push(r, t) EXCEPT ![Len(r) + 1] = u] = Push(r, u)
         /\ [Push(r, t) EXCEPT ![Len(Push(r, t))] = u] = Push(r, u)
<1> DEFINE s == Push(r, t)  v == [s EXCEPT ![Len(r) + 1] = u]
<1>1. s \in Seq(TxnRec) /\ Len(s) = Len(r) + 1 /\ Len(r) \in Nat BY Pushed
<1>2. v \in Seq(TxnRec) /\ Len(v) = Len(s)
      /\ \A j \in 1 .. Len(s) : v[j] = IF j = Len(r) + 1 THEN u ELSE s[j]
  <2>1. Len(r) + 1 \in 1 .. Len(s) BY <1>1
  <2> HIDE DEF s
  <2> QED BY <1>1, <2>1, ExceptSeq
<1>3. Push(r, u) \in Seq(TxnRec) /\ Len(Push(r, u)) = Len(r) + 1 BY Pushed
<1>4. ASSUME NEW j \in 1 .. Len(r) + 1 PROVE v[j] = Push(r, u)[j]
  <2>1. CASE j = Len(r) + 1 BY <1>1, <1>2, <2>1, Pushed
  <2>2. CASE j # Len(r) + 1
    <3>1. j \in 1 .. Len(r) BY <1>1, <2>2
    <3>2. v[j] = s[j] BY <1>1, <1>2, <2>2
    <3> QED BY <3>1, <3>2, Pushed DEF Push
  <2> QED BY <2>1, <2>2
<1>5. v = Push(r, u)
  <2> HIDE DEF v
  <2> QED BY <1>1, <1>2, <1>3, <1>4, SeqEqual
<1> QED BY <1>1, <1>5

\* Cursors that keep all but their paths; cursors that move along.
Alike(c, d) ==
  /\ DOMAIN d = DOMAIN c
  /\ \A x \in DOMAIN c : d[x].own = c[x].own /\ d[x].leaf = c[x].leaf /\ d[x].backup = c[x].backup
Moved(c, q, i, mem) ==
  [x \in DOMAIN c |-> IF c[x].path[i] = q[i] THEN [c[x] EXCEPT !.path[i] = mem] ELSE c[x]]

Replaced(q, i, mem) == [q EXCEPT ![i] = mem]

LEMMA CursorTypes ==
  ASSUME NEW c \in CursorTable
  PROVE  /\ DOMAIN c \subseteq Cursor /\ c \in [DOMAIN c -> CursorRec]
         /\ \A x \in DOMAIN c : c[x] \in CursorRec /\ c[x].path \in PathRec
<1>1. PICK D \in SUBSET Cursor : c \in [D -> CursorRec] BY DEF CursorTable
<1> QED BY <1>1 DEF CursorRec

LEMMA MovedTypes ==
  ASSUME NEW c \in CursorTable, NEW q \in PathRec, NEW i \in {1, 2}, NEW mem \in Memory
  PROVE  /\ Moved(c, q, i, mem) \in CursorTable /\ Alike(c, Moved(c, q, i, mem))
         /\ \A x \in DOMAIN c : Moved(c, q, i, mem)[x].path =
              IF c[x].path[i] # q[i] THEN c[x].path
              ELSE IF i = 1 THEN <<mem, c[x].path[2]>> ELSE <<c[x].path[1], mem>>
<1> DEFINE d == Moved(c, q, i, mem)
<1>1. DOMAIN c \subseteq Cursor /\ \A x \in DOMAIN c : c[x] \in CursorRec /\ c[x].path \in PathRec
  BY CursorTypes
<1>2. DOMAIN d = DOMAIN c
      /\ \A x \in DOMAIN c : d[x] = IF c[x].path[i] = q[i] THEN [c[x] EXCEPT !.path[i] = mem] ELSE c[x]
  BY DEF Moved
<1>3. d = [x \in DOMAIN c |-> d[x]] BY DEF Moved
<1>4. \A y \in PathRec : [y EXCEPT ![i] = mem] = IF i = 1 THEN <<mem, y[2]>> ELSE <<y[1], mem>>
  <2> TAKE y \in PathRec
  <2>1. PICK a \in Memory, b \in Memory : y = <<a, b>> BY DEF PathRec
  <2>2. [<<a, b>> EXCEPT ![1] = mem] = <<mem, b>> OBVIOUS
  <2>3. [<<a, b>> EXCEPT ![2] = mem] = <<a, mem>> OBVIOUS
  <2> QED BY <2>1, <2>2, <2>3
<1>5. \A y \in PathRec : [y EXCEPT ![i] = mem] \in PathRec
  <2> TAKE y \in PathRec
  <2>1. PICK a \in Memory, b \in Memory : y = <<a, b>> BY DEF PathRec
  <2>2. <<mem, b>> \in PathRec /\ <<a, mem>> \in PathRec BY DEF PathRec
  <2> QED BY <1>4, <2>1, <2>2
<1> HIDE DEF d
<1>6. ASSUME NEW x \in DOMAIN c
      PROVE  /\ d[x] \in CursorRec
             /\ d[x].own = c[x].own /\ d[x].leaf = c[x].leaf /\ d[x].backup = c[x].backup
             /\ d[x].path = IF c[x].path[i] # q[i] THEN c[x].path
                            ELSE IF i = 1 THEN <<mem, c[x].path[2]>> ELSE <<c[x].path[1], mem>>
  <2>1. CASE c[x].path[i] # q[i] BY <1>1, <1>2, <2>1
  <2>2. CASE c[x].path[i] = q[i]
    <3>1. PICK y \in PathRec : y = [c[x].path EXCEPT ![i] = mem] /\ y = IF i = 1 THEN <<mem, c[x].path[2]>> ELSE <<c[x].path[1], mem>>
      BY <1>1, <1>4, <1>5
    <3>2. d[x] = [c[x] EXCEPT !.path = y] BY <1>2, <2>2, <3>1
    <3>3. c[x] \in CursorRec BY <1>1
    <3> QED BY <2>2, <3>1, <3>2, <3>3 DEF CursorRec
  <2> QED BY <2>1, <2>2
<1>7. d \in [DOMAIN c -> CursorRec] BY <1>3, <1>6
<1>8. d \in CursorTable BY <1>1, <1>7 DEF CursorTable
<1> QED BY <1>2, <1>6, <1>8 DEF Alike, d

\* A place is a pair of numbers, and tells the page.
LEMMA Places ==
  ASSUME NEW s \in Seq(TxnRec), NEW p \in PageNo
  PROVE  Where(s, p) \in Memory /\ Where(s, p)[2] = p
<1>1. p \in Int BY DEF PageNo, FirstPg
<1>2. CASE Where(s, p) = InMap(p) BY <1>1, <1>2 DEF InMap, Memory
<1>3. CASE Where(s, p) # InMap(p)
  <2>1. PICK k \in 1 .. Len(s) : Where(s, p) = Dirty(k, p) BY <1>3, WhereType
  <2>2. k \in Int OBVIOUS
  <2> QED BY <1>1, <2>1, <2>2 DEF Dirty, Memory
<1> QED BY <1>2, <1>3

LEMMA RootOf ==
  ASSUME NEW f, NEW s, TreeOK(f, s)
  PROVE  /\ Root(s) \in PageNo
         /\ DOMAIN Rt(f, s) \subseteq Leaf /\ Rt(f, s) \in [DOMAIN Rt(f, s) -> PageNo]
         /\ \A m \in DOMAIN Rt(f, s) : Rt(f, s)[m] \in PageNo
<1>1. PICK D \in SUBSET Leaf : Rt(f, s) \in [D -> PageNo] BY DEF TreeOK, RootPage
<1> QED BY <1>1 DEF TreeOK

LEMMA Paths ==
  ASSUME NEW f, NEW s \in Seq(TxnRec), TreeOK(f, s), NEW l \in DOMAIN Rt(f, s)
  PROVE  /\ PathTo(f, s, l) \in PathRec
         /\ PathTo(f, s, l) = <<Where(s, Root(s)), Where(s, Rt(f, s)[l])>>
         /\ PathTo(f, s, l)[1] = Where(s, Root(s)) /\ PathTo(f, s, l)[2] = Where(s, Rt(f, s)[l])
<1>1. PathTo(f, s, l) = <<Where(s, Root(s)), Where(s, Rt(f, s)[l])>> BY DEF PathTo, Rt
<1>2. Where(s, Root(s)) \in Memory /\ Where(s, Rt(f, s)[l]) \in Memory BY RootOf, Places
<1> QED BY <1>1, <1>2 DEF PathRec

\* The cursors follow a page that has a new place: the root page, a leaf page.
LEMMA MovedRoot ==
  ASSUME NEW f, NEW e, NEW s \in Seq(TxnRec), NEW v \in Seq(TxnRec), NEW c \in CursorTable,
         TreeOK(f, s), TreeOK(e, v), CursTop(f, s, c), NEW l \in DOMAIN Rt(f, s),
         DOMAIN Rt(e, v) = DOMAIN Rt(f, s),
         \A m \in DOMAIN Rt(f, s) : Where(v, Rt(e, v)[m]) = Where(s, Rt(f, s)[m])
  PROVE  /\ CursTop(e, v, Moved(c, PathTo(f, s, l), 1, Where(v, Root(v))))
         /\ Replaced(PathTo(f, s, l), 1, Where(v, Root(v))) = PathTo(e, v, l)
<1> DEFINE q == PathTo(f, s, l)  mem == Where(v, Root(v))  d == Moved(c, q, 1, mem)
<1>1. mem \in Memory BY RootOf, Places
<1>2. \A m \in DOMAIN Rt(f, s) : /\ PathTo(f, s, m) \in PathRec
        /\ PathTo(f, s, m) = <<Where(s, Root(s)), Where(s, Rt(f, s)[m])>>
        /\ PathTo(f, s, m)[1] = Where(s, Root(s)) /\ PathTo(f, s, m)[2] = Where(s, Rt(f, s)[m])
  BY Paths
<1>3. \A m \in DOMAIN Rt(f, s) : PathTo(e, v, m) = <<mem, Where(s, Rt(f, s)[m])>> BY Paths
<1>4. q \in PathRec BY <1>2
<1> HIDE DEF q, mem
<1>5. /\ DOMAIN d = DOMAIN c
      /\ \A x \in DOMAIN c : d[x].leaf = c[x].leaf
      /\ \A x \in DOMAIN c : d[x].path = IF c[x].path[1] # q[1] THEN c[x].path ELSE <<mem, c[x].path[2]>>
  BY <1>1, <1>4, MovedTypes DEF Alike
<1> HIDE DEF d
<1>6. CursTop(e, v, d)
  <2> SUFFICES ASSUME NEW x \in DOMAIN c
               PROVE  d[x].leaf \in DOMAIN Rt(e, v) /\ d[x].path = PathTo(e, v, d[x].leaf)
    BY <1>5 DEF CursTop
  <2>1. c[x].leaf \in DOMAIN Rt(f, s) /\ c[x].path = PathTo(f, s, c[x].leaf) BY DEF CursTop
  <2>2. c[x].path[1] = q[1] BY <1>2, <2>1 DEF q
  <2> QED BY <1>2, <1>3, <1>5, <2>1, <2>2
<1>7. [q EXCEPT ![1] = mem] = PathTo(e, v, l)
  <2>1. [<<Where(s, Root(s)), Where(s, Rt(f, s)[l])>> EXCEPT ![1] = mem] = <<mem, Where(s, Rt(f, s)[l])>>
    OBVIOUS
  <2> QED BY <1>2, <1>3, <2>1 DEF q
<1> QED BY <1>6, <1>7 DEF d, q, mem, Replaced

LEMMA MovedLeaf ==
  ASSUME NEW f, NEW e, NEW s \in Seq(TxnRec), NEW v \in Seq(TxnRec), NEW c \in CursorTable,
         TreeOK(f, s), TreeOK(e, v), CursTop(f, s, c), NEW l \in DOMAIN Rt(f, s),
         DOMAIN Rt(e, v) = DOMAIN Rt(f, s), Where(v, Root(v)) = Where(s, Root(s)),
         \A m \in DOMAIN Rt(f, s) : m # l => Where(v, Rt(e, v)[m]) = Where(s, Rt(f, s)[m])
  PROVE  /\ CursTop(e, v, Moved(c, PathTo(f, s, l), 2, Where(v, Rt(e, v)[l])))
         /\ Replaced(PathTo(f, s, l), 2, Where(v, Rt(e, v)[l])) = PathTo(e, v, l)
<1> DEFINE q == PathTo(f, s, l)  mem == Where(v, Rt(e, v)[l])  d == Moved(c, q, 2, mem)
<1>1. mem \in Memory BY RootOf, Places
<1>2. \A m \in DOMAIN Rt(f, s) : /\ PathTo(f, s, m) \in PathRec
        /\ PathTo(f, s, m) = <<Where(s, Root(s)), Where(s, Rt(f, s)[m])>>
        /\ PathTo(f, s, m)[1] = Where(s, Root(s)) /\ PathTo(f, s, m)[2] = Where(s, Rt(f, s)[m])
  BY Paths
<1>3. \A m \in DOMAIN Rt(f, s) : PathTo(e, v, m) = <<Where(s, Root(s)), Where(v, Rt(e, v)[m])>>
  BY Paths
<1>4. q \in PathRec BY <1>2
<1> HIDE DEF q, mem
<1>5. /\ DOMAIN d = DOMAIN c
      /\ \A x \in DOMAIN c : d[x].leaf = c[x].leaf
      /\ \A x \in DOMAIN c : d[x].path = IF c[x].path[2] # q[2] THEN c[x].path ELSE <<c[x].path[1], mem>>
  BY <1>1, <1>4, MovedTypes DEF Alike
<1> HIDE DEF d
<1>6. CursTop(e, v, d)
  <2> SUFFICES ASSUME NEW x \in DOMAIN c
               PROVE  d[x].leaf \in DOMAIN Rt(e, v) /\ d[x].path = PathTo(e, v, d[x].leaf)
    BY <1>5 DEF CursTop
  <2> DEFINE m == c[x].leaf
  <2>1. m \in DOMAIN Rt(f, s) /\ c[x].path = PathTo(f, s, m) BY DEF CursTop
  <2>2. c[x].path[2] = Where(s, Rt(f, s)[m]) /\ c[x].path[1] = Where(s, Root(s)) BY <1>2, <2>1
  <2>3. q[2] = Where(s, Rt(f, s)[l]) BY <1>2 DEF q
  <2>4. CASE m = l BY <1>3, <1>5, <2>1, <2>2, <2>3, <2>4 DEF mem
  <2>5. CASE m # l
    <3>1. Rt(f, s)[m] # Rt(f, s)[l] BY <2>1, <2>5 DEF TreeOK
    <3>2. c[x].path[2] # q[2] BY <2>1, <2>2, <2>3, <3>1, RootOf, Places
    <3> QED BY <1>2, <1>3, <1>5, <2>1, <2>5, <3>2
  <2> QED BY <2>4, <2>5
<1>7. [q EXCEPT ![2] = mem] = PathTo(e, v, l)
  <2>1. [<<Where(s, Root(s)), Where(s, Rt(f, s)[l])>> EXCEPT ![2] = mem] = <<Where(s, Root(s)), mem>>
    OBVIOUS
  <2> QED BY <1>2, <1>3, <2>1 DEF q, mem
<1> QED BY <1>6, <1>7 DEF d, q, mem, Replaced

\* The lists of the last transaction, and the others.
LEMMA ApartPushed ==
  ASSUME NEW r \in Seq(TxnRec), NEW t \in TxnRec
  PROVE  ListsApart(Push(r, t))
           <=> /\ ListsApart(r) /\ t.spill \cap DOMAIN t.dirty = {}
               /\ \A j \in DOMAIN r : r[j].spill \cap t.spill = {}
<1> DEFINE s == Push(r, t)
<1>1. /\ Len(r) \in Nat /\ DOMAIN r = 1 .. Len(r) /\ DOMAIN s = 1 .. Len(r) + 1
      /\ \A k \in 1 .. Len(r) : s[k] = r[k] 
      /\ s[Len(r) + 1] = t
  BY Pushed
<1> HIDE DEF s
<1>2. DOMAIN s = DOMAIN r \cup {Len(r) + 1} /\ Len(r) + 1 \notin DOMAIN r BY <1>1
<1> QED BY <1>1, <1>2 DEF ListsApart, s

\* A new last transaction, allocator, cursors and path; the file is the same.
LEMMA NewLast ==
  ASSUME NEW f, NEW r, NEW t, NEW g, NEW c, NEW q, NEW l, At(f, r, t, g, c, q, l),
         NEW u \in TxnRec, u.saved = t.saved, NEW h \in PgRec, Level(f, Push(r, u), h),
         ListsApart(Push(r, u)), NEW d \in CursorTable, Alike(c, d),
         CursTop(f, Push(r, u), d), NEW k \in DOMAIN Rt(f, Push(r, u))
  PROVE  At(f, r, u, h, d, PathTo(f, Push(r, u), k), k)
<1>1. Push(r, u) \in Seq(TxnRec) BY DEF At, Push
<1>2. CursLow(f, r, d) BY DEF At, CursLow, Alike
<1> QED BY <1>1, <1>2 DEF At, Types

\* What the steps of a write do to a world.
Dirtied(t, p, x) == [t EXCEPT !.dirty = With(t.dirty, p, x), !.room = t.room - 1]

LEMMA MadeParts ==
  ASSUME NEW f, NEW s, NEW g, NEW c, NEW q
  PROVE  /\ Made(f, s, g, c, q).file = f /\ Made(f, s, g, c, q).txns = s
         /\ Made(f, s, g, c, q).pg = g /\ Made(f, s, g, c, q).cur = c
         /\ Made(f, s, g, c, q).path = q
         /\ Depth(Made(f, s, g, c, q)) = Len(s) /\ This(Made(f, s, g, c, q)) = Last(s)
BY DEF Made, Depth, This

LEMMA MadeFile ==
  ASSUME NEW f, NEW s, NEW g, NEW c, NEW q, NEW v
  PROVE  [Made(f, s, g, c, q) EXCEPT !.file = v] = Made(v, s, g, c, q)
BY DEF Made

LEMMA MadeTxns ==
  ASSUME NEW f, NEW s, NEW g, NEW c, NEW q, NEW v
  PROVE  [Made(f, s, g, c, q) EXCEPT !.txns = v] = Made(f, v, g, c, q)
BY DEF Made

LEMMA MadePg ==
  ASSUME NEW f, NEW s, NEW g, NEW c, NEW q, NEW v
  PROVE  [Made(f, s, g, c, q) EXCEPT !.pg = v] = Made(f, s, v, c, q)
BY DEF Made

LEMMA MadeCur ==
  ASSUME NEW f, NEW s, NEW g, NEW c, NEW q, NEW v
  PROVE  [Made(f, s, g, c, q) EXCEPT !.cur = v] = Made(f, s, g, v, q)
BY DEF Made

LEMMA MadePath ==
  ASSUME NEW f, NEW s, NEW g, NEW c, NEW q, NEW v
  PROVE  [Made(f, s, g, c, q) EXCEPT !.path = v] = Made(f, s, g, c, v)
BY DEF Made

LEMMA LastParts ==
  ASSUME NEW f, NEW r \in Seq(TxnRec), NEW t \in TxnRec, NEW g, NEW c, NEW q,
         NEW w, w = Made(f, Push(r, t), g, c, q)
  PROVE  w.txns[Depth(w)] = t /\ This(w) = t /\ Depth(w) = Len(r) + 1
<1>1. w.txns = Push(r, t) /\ Depth(w) = Len(Push(r, t)) /\ This(w) = Last(Push(r, t)) BY MadeParts
<1>2. Len(Push(r, t)) = Len(r) + 1 /\ Last(Push(r, t)) = t /\ Push(r, t)[Len(r) + 1] = t BY Pushed
<1> QED BY <1>1, <1>2

\* A new last transaction in a world.
SetTop(w, u) == [w EXCEPT !.txns = [w.txns EXCEPT ![Depth(w)] = u]]

LEMMA LastMade ==
  ASSUME NEW f, NEW r \in Seq(TxnRec), NEW t \in TxnRec, NEW g, NEW c, NEW q,
         NEW w, w = Made(f, Push(r, t), g, c, q), NEW u \in TxnRec
  PROVE  SetTop(w, u) = Made(f, Push(r, u), g, c, q)
<1>1. w.txns = Push(r, t) /\ Depth(w) = Len(Push(r, t)) BY MadeParts
<1>2. [w.txns EXCEPT ![Depth(w)] = u] = Push(r, u) BY <1>1, SetLast
<1>3. SetTop(w, u) = [w EXCEPT !.txns = Push(r, u)] BY <1>2 DEF SetTop
<1>4. [w EXCEPT !.txns = Push(r, u)] = Made(f, Push(r, u), g, c, q) BY MadeTxns
<1> QED BY <1>3, <1>4

LEMMA FailMade ==
  ASSUME NEW f, NEW r \in Seq(TxnRec), NEW t \in TxnRec, NEW g, NEW c, NEW q,
         NEW w, w = Made(f, Push(r, t), g, c, q)
  PROVE  \E u \in TxnRec : u = [t EXCEPT !.bad = TRUE] /\ Fail(w) = Made(f, Push(r, u), g, c, q)
<1>1. PICK u \in TxnRec : u = [t EXCEPT !.bad = TRUE] BY DEF TxnRec
<1>2. Fail(w) = SetTop(w, [w.txns[Depth(w)] EXCEPT !.bad = TRUE]) BY DEF Fail, SetTop
<1>3. w.txns[Depth(w)] = t BY LastParts
<1>4. Fail(w) = SetTop(w, u) BY <1>1, <1>2, <1>3
<1> QED BY <1>1, <1>4, LastMade

DirtyWith(w, p, x) == [w EXCEPT !.txns[Depth(w)].dirty = With(@, p, x)]
LessRoom(w, n) == [w EXCEPT !.txns[n].room = @ - 1]
LEMMA DirtySteps ==
  ASSUME NEW w, NEW p, NEW x
  PROVE  PageDirty(w, p, x) = LessRoom(DirtyWith(w, p, x), Depth(w))
<1>1. PICK n : n = Depth(w) OBVIOUS
<1> QED BY <1>1 DEF PageDirty, LessRoom, DirtyWith

LEMMA DirtyMade ==
  ASSUME NEW f, NEW r \in Seq(TxnRec), NEW t \in TxnRec, NEW g, NEW c, NEW q,
         NEW w, w = Made(f, Push(r, t), g, c, q),
         NEW p \in PageNo, NEW x \in PageData, t.room # 0
  PROVE  \E u \in TxnRec : u = Dirtied(t, p, x) /\ PageDirty(w, p, x) = Made(f, Push(r, u), g, c, q)
<1> DEFINE D == With(t.dirty, p, x)
<1>1. D \in DirtyList
  <2>1. DOMAIN t.dirty \subseteq PageNo /\ t.dirty \in [DOMAIN t.dirty -> PageData] BY ListTypes
  <2>2. D \in [DOMAIN t.dirty \cup {p} -> PageData] BY <2>1 DEF With
  <2> QED BY <2>1, <2>2 DEF DirtyList
<1> HIDE DEF D
<1>2. PICK v \in TxnRec : v = [t EXCEPT !.dirty = D] BY <1>1 DEF TxnRec
<1>3. PICK u \in TxnRec : u = [v EXCEPT !.room = v.room - 1]
  <2>1. v.room - 1 \in Nat BY <1>2 DEF TxnRec
  <2> QED BY <2>1 DEF TxnRec
<1>4. u = Dirtied(t, p, x) BY <1>2, <1>3 DEF Dirtied, TxnRec, D
<1>5. w.txns[Depth(w)] = t /\ Depth(w) = Len(r) + 1 BY LastParts
<1>6. PICK y : y = SetTop(w, v) OBVIOUS
<1>7. y = Made(f, Push(r, v), g, c, q) BY <1>6, LastMade
<1>8. y.txns[Depth(y)] = v /\ Depth(y) = Depth(w) BY <1>5, <1>7, LastParts
<1>9. DirtyWith(w, p, x) = y BY <1>2, <1>5, <1>6 DEF SetTop, D, DirtyWith
<1>10. LessRoom(y, Depth(y)) = SetTop(y, [y.txns[Depth(y)] EXCEPT !.room = y.txns[Depth(y)].room - 1])
  BY DEF SetTop, LessRoom
<1>11. PageDirty(w, p, x) = SetTop(y, u) BY <1>3, <1>8, <1>9, <1>10, DirtySteps
<1>12. PageDirty(w, p, x) = Made(f, Push(r, u), g, c, q) BY <1>7, <1>11, LastMade
<1> QED BY <1>4, <1>12

LEMMA CursorsMade ==
  ASSUME NEW f, NEW s, NEW g, NEW c, NEW q, NEW i, NEW mem,
         NEW w, w = Made(f, s, g, c, q)
  PROVE  CursorsOn(w, i, mem) = Made(f, s, g, Moved(c, q, i, mem), Replaced(q, i, mem))
<1> DEFINE d == Moved(c, q, i, mem)  y == Replaced(q, i, mem)
<1>1. w.cur = c /\ w.path = q BY MadeParts
<1>2. CursorsOn(w, i, mem) = [[w EXCEPT !.path = [w.path EXCEPT ![i] = mem]] EXCEPT !.cur = d]
  BY <1>1 DEF CursorsOn, Moved
<1> HIDE DEF d, y
<1>3. [w EXCEPT !.path = y] = Made(f, s, g, c, y) BY MadePath
<1>4. [Made(f, s, g, c, y) EXCEPT !.cur = d] = Made(f, s, g, d, y) BY MadeCur
<1> QED BY <1>1, <1>2, <1>3, <1>4 DEF y, d, Replaced

\* What a place says.
LEMMA InMapIs ==
  ASSUME NEW s \in Seq(TxnRec), NEW p
  PROVE  /\ Where(s, p)[1] = 0 <=> Where(s, p) = InMap(p)
         /\ Where(s, p)[1] # 0 => /\ Where(s, p)[1] \in 1 .. Len(s)
                                  /\ Where(s, p) = Dirty(Where(s, p)[1], p)
                                  /\ p \in DOMAIN s[Where(s, p)[1]].dirty
<1>1. CASE Where(s, p) = InMap(p) BY <1>1 DEF InMap
<1>2. CASE Where(s, p) # InMap(p)
  <2>1. PICK k \in 1 .. Len(s) : Where(s, p) = Dirty(k, p) /\ p \in DOMAIN s[k].dirty
    BY <1>2, WhereType
  <2>2. k # 0 OBVIOUS
  <2> QED BY <1>2, <2>1, <2>2 DEF Dirty
<1> QED BY <1>1, <1>2

\* The path at level i is that of this page.
PageOn(f, s, i, l) == IF i = 1 THEN Root(s) ELSE Rt(f, s)[l]

LEMMA PathPage ==
  ASSUME NEW f, NEW r, NEW t, NEW g, NEW c, NEW q, NEW l, At(f, r, t, g, c, q, l), NEW i \in {1, 2}
  PROVE  LET p == PageOn(f, Push(r, t), i, l)
         IN p \in PageNo /\ q[i] = Where(Push(r, t), p) /\ q[i][2] = p /\ p \in TreeOf(f, Push(r, t))
<1> DEFINE s == Push(r, t)
<1>1. s \in Seq(TxnRec) BY DEF At, Types
<1>2. TreeOK(f, s) /\ l \in DOMAIN Rt(f, s) /\ q = PathTo(f, s, l) BY DEF At, Level
<1> HIDE DEF s
<1>3. q[1] = Where(s, Root(s)) /\ q[2] = Where(s, Rt(f, s)[l]) BY <1>1, <1>2, Paths
<1>4. Root(s) \in PageNo /\ Rt(f, s)[l] \in PageNo BY <1>2, RootOf
<1>5. PageOn(f, s, i, l) \in TreeOf(f, s) BY <1>2 DEF PageOn, TreeOf
<1> QED BY <1>1, <1>3, <1>4, <1>5, Places DEF PageOn, s

\* The page at level i gets a copy in the last transaction's list; all pages have
\* the content they had.
LEMMA Copied ==
  ASSUME NEW f, NEW r, NEW t, NEW g, NEW c, NEW q, NEW l, At(f, r, t, g, c, q, l), NEW i \in {1, 2},
         NEW u \in TxnRec, u.root = t.root, u.next = t.next, u.free = t.free, u.saved = t.saved,
         NEW p, p = PageOn(f, Push(r, t), i, l),
         NEW mem, mem = Where(Push(r, u), p),
         \A x : x # p => Where(Push(r, u), x) = Where(Push(r, t), x),
         \A x : Page(f, Push(r, u), x) = Page(f, Push(r, t), x),
         Listed(Push(r, u)) = Listed(Push(r, t)), ListsApart(Push(r, u)),
         u.room = UmMax - Cardinality(Visible(Push(r, u)))
  PROVE  At(f, r, u, g, Moved(c, q, i, mem), Replaced(q, i, mem), l)
<1> DEFINE s == Push(r, t)  v == Push(r, u)  d == Moved(c, q, i, mem)
<1>1. /\ r \in Seq(TxnRec) /\ t \in TxnRec /\ s \in Seq(TxnRec)
      /\ g \in PgRec /\ c \in CursorTable /\ Level(f, s, g) /\ CursTop(f, s, c)
      /\ l \in DOMAIN Rt(f, s) /\ q = PathTo(f, s, l)
  BY DEF At, Types
<1>2. v \in Seq(TxnRec) BY <1>1, Pushed
<1>3. Root(s) = t.root /\ Root(v) = u.root BY <1>1, Parts
<1>4. Rt(f, v) = Rt(f, s) BY <1>3 DEF Rt
<1>5. Level(f, v, g) BY <1>1, <1>4, SameTree
<1>6. TreeOK(f, s) /\ TreeOK(f, v) BY <1>1, <1>5 DEF Level
<1>7. p \in PageNo BY PathPage
<1>8. mem \in Memory BY <1>2, <1>7, Places
<1>9. q \in PathRec BY <1>1, <1>6, Paths
<1>10. d \in CursorTable /\ Alike(c, d) BY <1>1, <1>8, <1>9, MovedTypes
<1>11. \A m \in DOMAIN Rt(f, s) : Rt(f, s)[m] # Root(s) BY <1>6 DEF TreeOK
<1>12. CursTop(f, v, d) /\ Replaced(q, i, mem) = PathTo(f, v, l)
  <2>1. CASE i = 1
    <3>1. p = Root(s) /\ mem = Where(v, Root(v)) BY <1>3, <2>1 DEF PageOn
    <3>2. \A m \in DOMAIN Rt(f, s) : Where(v, Rt(f, v)[m]) = Where(s, Rt(f, s)[m])
      BY <1>4, <1>11, <3>1
    <3> HIDE DEF s, v
    <3>3. /\ CursTop(f, v, Moved(c, PathTo(f, s, l), 1, Where(v, Root(v))))
          /\ Replaced(PathTo(f, s, l), 1, Where(v, Root(v))) = PathTo(f, v, l)
      BY <1>1, <1>2, <1>4, <1>6, <3>2, MovedRoot
    <3> QED BY <1>1, <2>1, <3>1, <3>3 DEF d
  <2>2. CASE i = 2
    <3>1. p = Rt(f, s)[l] /\ mem = Where(v, Rt(f, v)[l]) BY <1>4, <2>2 DEF PageOn
    <3>2. Where(v, Root(v)) = Where(s, Root(s)) BY <1>1, <1>3, <1>11, <3>1
    <3>3. \A m \in DOMAIN Rt(f, s) : m # l => Where(v, Rt(f, v)[m]) = Where(s, Rt(f, s)[m])
      BY <1>1, <1>4, <1>6, <3>1 DEF TreeOK
    <3> HIDE DEF s, v
    <3>4. /\ CursTop(f, v, Moved(c, PathTo(f, s, l), 2, Where(v, Rt(f, v)[l])))
          /\ Replaced(PathTo(f, s, l), 2, Where(v, Rt(f, v)[l])) = PathTo(f, v, l)
      BY <1>1, <1>2, <1>4, <1>6, <3>2, <3>3, MovedLeaf
    <3> QED BY <1>1, <2>2, <3>1, <3>4 DEF d
  <2> QED BY <2>1, <2>2
<1> HIDE DEF d
<1>13. At(f, r, u, g, d, PathTo(f, v, l), l)
  BY <1>1, <1>4, <1>5, <1>10, <1>12, NewLast
<1> QED BY <1>12, <1>13 DEF d

\* The leaves of the database, what they hold, and those that cursors are on.
LeavesOf(w)  == DOMAIN Rt(w.file, w.txns)
HeldIn(w)    == Held(w.file, w.txns)
CurLeaves(w) == {w.cur[x].leaf : x \in DOMAIN w.cur}

\* The transactions below the last one see what they saw.
Below(v, w) ==
  /\ Depth(w) = Depth(v)
  /\ \A k \in 0 .. Depth(v) - 1 :
       Held(w.file, SubSeq(w.txns, 1, k)) = Held(v.file, SubSeq(v.txns, 1, k))

\* World w after v, with pages in other places: all is seen as it was.
Alongside(v, w) ==
  /\ LeavesOf(w) = LeavesOf(v) /\ CurLeaves(w) = CurLeaves(v)
  /\ HeldIn(w) = HeldIn(v) /\ Below(v, w)

LEMMA BelowMade ==
  ASSUME NEW r \in Seq(TxnRec), NEW t \in TxnRec, NEW u \in TxnRec, NEW f, NEW e,
         \A k \in 0 .. Len(r) : Held(e, SubSeq(r, 1, k)) = Held(f, SubSeq(r, 1, k)),
         NEW v, v.file = f, v.txns = Push(r, t), NEW w, w.file = e, w.txns = Push(r, u)
  PROVE  Below(v, w)
<1>1. Depth(v) = Len(r) + 1 /\ Depth(w) = Len(r) + 1 /\ Len(r) \in Nat BY Pushed DEF Depth
<1>2. \A k \in 0 .. Len(r) : SubSeq(Push(r, t), 1, k) = SubSeq(r, 1, k) BY Pushed
<1>3. \A k \in 0 .. Len(r) : SubSeq(Push(r, u), 1, k) = SubSeq(r, 1, k) BY Pushed
<1>4. 0 .. Depth(v) - 1 = 0 .. Len(r) BY <1>1
<1> QED BY <1>1, <1>2, <1>3, <1>4 DEF Below

LEMMA BelowTwice ==
  ASSUME NEW v, NEW w, NEW x, Below(v, w), Below(w, x)
  PROVE  Below(v, x)
BY DEF Below

LEMMA AlongsideTwice ==
  ASSUME NEW v, NEW w, NEW x, Alongside(v, w), Alongside(w, x)
  PROVE  Alongside(v, x)
BY BelowTwice DEF Alongside

LEMMA AlongsideSelf == ASSUME NEW w PROVE Alongside(w, w)
BY DEF Alongside, Below

\* Two stacks with the same root page, and the same contents of its leaf pages.
LEMMA HeldSame ==
  ASSUME NEW f, NEW e, NEW s, NEW z, Rt(e, z) = Rt(f, s),
         \A l \in DOMAIN Rt(f, s) : Page(e, z, Rt(f, s)[l]) = Page(f, s, Rt(f, s)[l])
  PROVE  Held(e, z) = Held(f, s)
BY DEF Held

\* A write that goes wrong leaves all as it is.
LEMMA FailSound ==
  ASSUME NEW w, NEW l, Sound(w, l)
  PROVE  Sound(Fail(w), l) /\ Alongside(w, Fail(w))
<1>1. PICK f, r, t, g, c, q : w = Made(f, Push(r, t), g, c, q) /\ At(f, r, t, g, c, q, l)
  BY DEF Sound
<1>2. /\ r \in Seq(TxnRec) /\ t \in TxnRec /\ Push(r, t) \in Seq(TxnRec)
      /\ g \in PgRec /\ c \in CursorTable /\ Level(f, Push(r, t), g) /\ CursTop(f, Push(r, t), c)
      /\ l \in DOMAIN Rt(f, Push(r, t)) /\ q = PathTo(f, Push(r, t), l)
      /\ ListsApart(Push(r, t))
  BY <1>1 DEF At, Types
<1>3. PICK u \in TxnRec : u = [t EXCEPT !.bad = TRUE] /\ Fail(w) = Made(f, Push(r, u), g, c, q)
  BY <1>1, <1>2, FailMade
<1>4. /\ u.root = t.root /\ u.next = t.next /\ u.free = t.free /\ u.saved = t.saved
      /\ u.dirty = t.dirty /\ u.spill = t.spill /\ u.room = t.room
  BY <1>2, <1>3 DEF TxnRec
<1> DEFINE s == Push(r, t)  v == Push(r, u)
<1>5. \A p : Where(v, p) = Where(s, p) BY <1>2, <1>4, WherePushed
<1>6. \A p : Page(f, v, p) = Page(f, s, p) BY <1>2, <1>4, PagePushed
<1>a. Root(s) = t.root /\ Listed(s) = Listed(r) \cup Lists(t) BY <1>2, Parts
<1>b. Root(v) = u.root /\ Listed(v) = Listed(r) \cup Lists(u) BY <1>2, Parts
<1>7. Root(v) = Root(s) /\ Listed(v) = Listed(s) BY <1>4, <1>a, <1>b DEF Lists
<1>8. Rt(f, v) = Rt(f, s) BY <1>6, <1>7 DEF Rt
<1>9. Visible(v) = Visible(s) BY <1>2, <1>4, SeenPushed
<1>10. u.room = UmMax - Cardinality(Visible(v))
  BY <1>2, <1>4, <1>9, Pushed DEF Level, RoomOK
<1>11. Level(f, v, g) BY <1>2, <1>4, <1>7, <1>8, <1>10, SameTree
<1>12. \A m : PathTo(f, v, m) = PathTo(f, s, m) BY <1>5, <1>7, <1>8 DEF PathTo, Rt
<1>13. CursTop(f, v, c) BY <1>2, <1>8, <1>12 DEF CursTop
<1>14. ListsApart(v) BY <1>2, <1>4, ApartPushed
<1>15. Alike(c, c) BY DEF Alike
<1> HIDE DEF s, v
<1>16. At(f, r, u, g, c, PathTo(f, v, l), l)
  BY <1>1, <1>2, <1>4, <1>8, <1>11, <1>13, <1>14, <1>15, NewLast DEF s, v
<1>17. Sound(Fail(w), l) BY <1>2, <1>3, <1>12, <1>16 DEF Sound, s, v
<1>18. /\ w.file = f /\ w.txns = s /\ w.cur = c
       /\ Fail(w).file = f /\ Fail(w).txns = v /\ Fail(w).cur = c
  BY <1>1, <1>3, MadeParts DEF s, v
<1>19. Held(f, v) = Held(f, s) BY <1>6, <1>8, HeldSame
<1>20. Below(w, Fail(w))
  <2> HIDE DEF s, v
  <2> QED BY <1>2, <1>18, BelowMade DEF s, v
<1> QED BY <1>8, <1>17, <1>18, <1>19, <1>20 DEF Alongside, LeavesOf, HeldIn, CurLeaves

\* A world and its parts.
Whole(w, l, f, r, t, g, c, q) ==
  /\ w = Made(f, Push(r, t), g, c, q) /\ At(f, r, t, g, c, q, l)
  /\ r \in Seq(TxnRec) /\ t \in TxnRec /\ Push(r, t) \in Seq(TxnRec)
  /\ f \in [PageNo -> PageData] /\ g \in PgRec /\ c \in CursorTable
  /\ Level(f, Push(r, t), g) /\ ListsApart(Push(r, t))
  /\ CursTop(f, Push(r, t), c)
  /\ l \in DOMAIN Rt(f, Push(r, t)) /\ q = PathTo(f, Push(r, t), l)
  /\ Depth(w) = Len(r) + 1 /\ This(w) = t /\ Len(r) \in Nat
  /\ w.file = f /\ w.txns = Push(r, t) /\ w.pg = g /\ w.cur = c /\ w.path = q
  /\ t.room = UmMax - Cardinality(Visible(Push(r, t)))

LEMMA SoundParts ==
  ASSUME NEW w, NEW l, Sound(w, l)
  PROVE  \E f, r, t, g, c, q : Whole(w, l, f, r, t, g, c, q)
<1>1. PICK f, r, t, g, c, q : w = Made(f, Push(r, t), g, c, q) /\ At(f, r, t, g, c, q, l)
  BY DEF Sound
<1>2. /\ r \in Seq(TxnRec) /\ t \in TxnRec /\ Push(r, t) \in Seq(TxnRec)
      /\ f \in [PageNo -> PageData] /\ g \in PgRec /\ c \in CursorTable
      /\ Level(f, Push(r, t), g) /\ ListsApart(Push(r, t))
      /\ CursTop(f, Push(r, t), c)
      /\ l \in DOMAIN Rt(f, Push(r, t)) /\ q = PathTo(f, Push(r, t), l)
  BY <1>1 DEF At, Types
<1>3. Depth(w) = Len(r) + 1 /\ This(w) = t BY <1>1, <1>2, LastParts
<1>4. w.file = f /\ w.txns = Push(r, t) /\ w.pg = g /\ w.cur = c /\ w.path = q
  BY <1>1, MadeParts
<1>5. t.room = UmMax - Cardinality(Visible(Push(r, t)))
  <2>1. Last(Push(r, t)) = t /\ Push(r, t) # <<>> BY <1>2, Pushed
  <2> QED BY <1>2, <2>1 DEF Level, RoomOK
<1>6. Len(r) \in Nat BY <1>2, Pushed
<1> QED BY <1>1, <1>2, <1>3, <1>4, <1>5, <1>6 DEF Whole

\* World w after v: the page at level i is in the last transaction's list now.
Touched(v, w, l, i) ==
  /\ Sound(w, l) /\ Alongside(v, w) /\ Depth(w) = Depth(v)
  /\ Good(w) => w.path[i][1] = Depth(w) /\ (i = 2 => w.path[1] = v.path[1])

LEMMA FailTouched ==
  ASSUME NEW w, NEW l, Sound(w, l), NEW i
  PROVE  Touched(w, Fail(w), l, i)
<1>1. Sound(Fail(w), l) /\ Alongside(w, Fail(w)) BY FailSound
<1>2. PICK f, r, t, g, c, q : w = Made(f, Push(r, t), g, c, q) /\ r \in Seq(TxnRec) /\ t \in TxnRec
  BY DEF Sound, At
<1>3. PICK u \in TxnRec : u = [t EXCEPT !.bad = TRUE] /\ Fail(w) = Made(f, Push(r, u), g, c, q)
  BY <1>2, FailMade
<1>4. This(Fail(w)) = u /\ Depth(Fail(w)) = Depth(w) BY <1>2, <1>3, LastParts
<1>5. u.bad BY <1>2, <1>3 DEF TxnRec
<1> QED BY <1>1, <1>4, <1>5 DEF Touched, Good

LEMMA TouchedIs ==
  ASSUME NEW f, NEW r, NEW t, NEW g, NEW c, NEW q, NEW l, At(f, r, t, g, c, q, l),
         NEW i \in {1, 2}, NEW p, NEW mem, mem = Dirty(Len(r) + 1, p),
         NEW u, NEW h, At(f, r, u, h, Moved(c, q, i, mem), Replaced(q, i, mem), l),
         NEW w, w = Made(f, Push(r, u), h, Moved(c, q, i, mem), Replaced(q, i, mem)),
         NEW v, v = Made(f, Push(r, t), g, c, q),
         Held(f, Push(r, u)) = Held(f, Push(r, t))
  PROVE  Touched(v, w, l, i)
<1>1. /\ r \in Seq(TxnRec) /\ t \in TxnRec /\ Push(r, t) \in Seq(TxnRec) /\ Level(f, Push(r, t), g)
      /\ l \in DOMAIN Rt(f, Push(r, t)) /\ q = PathTo(f, Push(r, t), l) /\ u \in TxnRec
  BY DEF At, Types
<1>2. q \in PathRec BY <1>1, Paths DEF Level
<1>3. Replaced(q, i, mem)[i] = mem /\ (i = 2 => Replaced(q, i, mem)[1] = q[1])
  <2>1. PICK a, b : q = <<a, b>> BY <1>2 DEF PathRec
  <2>2. [<<a, b>> EXCEPT ![1] = mem][1] = mem OBVIOUS
  <2>3. [<<a, b>> EXCEPT ![2] = mem][2] = mem OBVIOUS
  <2>4. [<<a, b>> EXCEPT ![2] = mem][1] = a OBVIOUS
  <2> QED BY <2>1, <2>2, <2>3, <2>4 DEF Replaced
<1>4. w.path[i] = mem /\ (i = 2 => w.path[1] = v.path[1]) BY <1>3, MadeParts
<1>5. Depth(w) = Len(r) + 1 /\ Depth(v) = Len(r) + 1 BY <1>1, LastParts
<1>6. Sound(w, l) BY DEF Sound
<1>a. w.file = f /\ v.file = f /\ w.txns = Push(r, u) /\ v.txns = Push(r, t) BY MadeParts
<1>b. Below(v, w) BY <1>1, <1>a, BelowMade
<1>c. HeldIn(w) = HeldIn(v) BY <1>a DEF HeldIn
<1>7. LeavesOf(w) = LeavesOf(v)
  <2>1. \A x : DOMAIN HeldIn(x) = LeavesOf(x) BY DEF HeldIn, Held, LeavesOf
  <2> QED BY <1>c, <2>1
<1>8. CurLeaves(w) = CurLeaves(v)
  <2>1. w.cur = Moved(c, q, i, mem) /\ v.cur = c BY MadeParts
  <2>2. \A x \in DOMAIN c : c[x] \in CursorRec
    <3>1. c \in CursorTable BY DEF At, Types
    <3> QED BY <3>1, CursorTypes
  <2>3. DOMAIN w.cur = DOMAIN c /\ \A x \in DOMAIN c : w.cur[x].leaf = c[x].leaf
    BY <2>1, <2>2 DEF Moved, CursorRec
  <2> QED BY <2>1, <2>3 DEF CurLeaves
<1> QED BY <1>4, <1>5, <1>6, <1>7, <1>8, <1>b, <1>c DEF Touched, Alongside, Dirty

\* mdb_page_unspill
LEMMA UnspillSound ==
  ASSUME NEW w, NEW l, Sound(w, l), NEW i \in {1, 2}, w.path[i][1] = 0, Spilled(w, w.path[i][2])
  PROVE  Touched(w, Unspill(w, i, w.path[i][2]), l, i)
<1> USE DEF Whole
<1>1. PICK f, r, t, g, c, q : Whole(w, l, f, r, t, g, c, q) BY SoundParts
<1> DEFINE s == Push(r, t)  p == PageOn(f, s, i, l)
<1>2. p \in PageNo /\ q[i] = Where(s, p) /\ q[i][2] = p BY <1>1, PathPage
<1>3. Where(s, p) = InMap(p) BY <1>1, <1>2, InMapIs
<1>4. p \in Listed(s) BY <1>1, <1>2 DEF Spilled, Listed, Lists
<1>5. CASE t.room = 0 BY <1>1, <1>5, FailTouched DEF Unspill
<1>6. CASE t.room # 0
  <2>1. f[p] \in PageData BY <1>1, <1>2
  <2>2. PICK v \in TxnRec : v = Dirtied(t, p, f[p]) /\ PageDirty(w, p, f[p]) = Made(f, Push(r, v), g, c, q)
    BY <1>1, <1>2, <1>6, <2>1, DirtyMade
  <2>3. PICK u \in TxnRec : u = [v EXCEPT !.spill = v.spill \ {p}] BY DEF TxnRec
  <2>4. /\ u.root = t.root /\ u.next = t.next /\ u.free = t.free /\ u.saved = t.saved
        /\ u.dirty = With(t.dirty, p, f[p]) /\ u.spill = t.spill \ {p} /\ u.room = t.room - 1
    BY <1>1, <2>2, <2>3 DEF TxnRec, Dirtied
  <2>5. DOMAIN u.dirty = DOMAIN t.dirty \cup {p}
        /\ \A x \in DOMAIN u.dirty : u.dirty[x] = IF x = p THEN f[p] ELSE t.dirty[x]
    BY <2>4 DEF With
  <2> DEFINE z == Push(r, u)  mem == Dirty(Len(r) + 1, p)
  <2>6. Where(z, p) = mem /\ \A x : x # p => Where(z, x) = Where(s, x)
    BY <1>1, <2>4, <2>5, WherePushed
  <2>7. \A x : Page(f, z, x) = Page(f, s, x)
    <3>1. Page(f, s, p) = f[p] BY <1>3 DEF Page, Content, InMap
    <3>2. Page(f, z, p) = f[p] BY <1>1, <2>4, <2>5, PagePushed
    <3>3. \A x : x # p => Page(f, z, x) = Page(f, s, x) BY <1>1, <2>4, <2>5, PagePushed
    <3> QED BY <3>1, <3>2, <3>3
  <2>8. Listed(z) = Listed(s)
    <3>1. Listed(s) = Listed(r) \cup Lists(t) BY <1>1, Parts
    <3>2. Listed(z) = Listed(r) \cup Lists(u) BY <1>1, Parts
    <3> QED BY <1>4, <2>4, <2>5, <3>1, <3>2 DEF Lists
  <2>9. u.room = UmMax - Cardinality(Visible(z))
    <3>1. Visible(s) = (Visible(r) \cup DOMAIN t.dirty) \ t.spill BY <1>1, SeenPushed
    <3>2. Visible(z) = (Visible(r) \cup DOMAIN u.dirty) \ u.spill BY <1>1, SeenPushed
    <3>3. Visible(z) = Visible(s) \cup {p} BY <2>4, <2>5, <3>1, <3>2
    <3>4. p \notin Visible(s) /\ IsFiniteSet(Visible(s)) /\ Cardinality(Visible(s)) \in Nat
      BY <1>1, <1>3, Seen
    <3>5. Cardinality(Visible(z)) = Cardinality(Visible(s)) + 1 BY <3>3, <3>4, FS_AddElement
    <3> QED BY <1>1, <2>4, <3>4, <3>5, NestedAssumption DEF NestedAssumption
  <2>10. ListsApart(z) BY <1>1, <2>4, <2>5, ApartPushed
  <2>11. At(f, r, u, g, Moved(c, q, i, mem), Replaced(q, i, mem), l)
    <3> HIDE DEF s, z, p, mem
    <3> QED BY <1>1, <2>4, <2>6, <2>7, <2>8, <2>9, <2>10, Copied DEF s, z, p, Replaced
  <2>12. Unspill(w, i, p) = CursorsOn(SetTop(PageDirty(w, p, f[p]), u), i, mem)
    <3>1. PICK y : y = PageDirty(w, p, f[p]) OBVIOUS
    <3>2. y.txns[Depth(y)] = v /\ Depth(y) = Depth(w) BY <1>1, <2>2, <3>1, LastParts
    <3>3. [y EXCEPT !.txns[Depth(y)].spill = @ \ {p}] = SetTop(y, [y.txns[Depth(y)] EXCEPT !.spill = y.txns[Depth(y)].spill \ {p}])
      BY DEF SetTop
    <3>4. [y EXCEPT !.txns[Depth(w)].spill = @ \ {p}] = SetTop(y, u) BY <2>3, <3>2, <3>3
    <3>5. Unspill(w, i, p) = CursorsOn([y EXCEPT !.txns[Depth(w)].spill = @ \ {p}], i, mem)
      BY <1>1, <1>6, <3>1 DEF Unspill
    <3> QED BY <3>1, <3>4, <3>5
  <2>13. SetTop(PageDirty(w, p, f[p]), u) = Made(f, z, g, c, q) BY <1>1, <2>2, LastMade
  <2>14. Unspill(w, i, p) = Made(f, z, g, Moved(c, q, i, mem), Replaced(q, i, mem))
    <3> HIDE DEF z, mem
    <3> QED BY <2>12, <2>13, CursorsMade
  <2>15. Touched(w, Unspill(w, i, p), l, i)
    <3>1. Held(f, Push(r, u)) = Held(f, Push(r, t))
      <4>1. Root(Push(r, u)) = Root(Push(r, t)) BY <1>1, <2>4, Parts
      <4>2. Rt(f, Push(r, u)) = Rt(f, Push(r, t)) BY <2>7, <4>1 DEF Rt
      <4> QED BY <2>7, <4>2, HeldSame
    <3> HIDE DEF s, p, z, mem
    <3> QED BY <1>1, <2>11, <2>14, <3>1, TouchedIs DEF mem, z
  <2> QED BY <1>1, <1>2, <2>15
<1> QED BY <1>5, <1>6

\* A page that an ancestor has dirty.
LEMMA CopySound ==
  ASSUME NEW w, NEW l, Sound(w, l), NEW i \in {1, 2}, w.path[i][1] # 0,
         w.path[i][2] \notin DOMAIN This(w).dirty
  PROVE  Touched(w, CopyHere(w, i, w.path[i]), l, i)
<1> USE DEF Whole
<1>1. PICK f, r, t, g, c, q : Whole(w, l, f, r, t, g, c, q) BY SoundParts
<1> DEFINE s == Push(r, t)  p == PageOn(f, s, i, l)  x == Page(f, s, p)
<1>2. p \in PageNo /\ q[i] = Where(s, p) /\ q[i][2] = p BY <1>1, PathPage
<1>3. PICK k \in 1 .. Len(s) : Where(s, p) = Dirty(k, p) /\ p \in DOMAIN s[k].dirty
  <2>1. Where(s, p) # InMap(p) BY <1>1, <1>2, InMapIs
  <2> QED BY <1>1, <2>1, WhereType
<1>4. p \notin DOMAIN t.dirty /\ Where(s, p) # InMap(p) BY <1>1, <1>2, InMapIs
<1>5. p \notin t.spill BY <1>1, <1>4, WherePushed
<1>6. k # 0 /\ x = s[k].dirty[p] BY <1>3 DEF Page, Content, Dirty
<1>7. x \in PageData
  <2>1. s[k] \in TxnRec BY <1>1
  <2>2. s[k].dirty \in [DOMAIN s[k].dirty -> PageData] BY <2>1, ListTypes
  <2> QED BY <1>3, <1>6, <2>2
<1>8. PICK u \in TxnRec : u = [t EXCEPT !.dirty = With(t.dirty, p, x)]
  <2>1. DOMAIN t.dirty \subseteq PageNo /\ t.dirty \in [DOMAIN t.dirty -> PageData] BY <1>1, ListTypes
  <2> HIDE DEF x
  <2>2. With(t.dirty, p, x) \in [DOMAIN t.dirty \cup {p} -> PageData] BY <1>7, <2>1 DEF With
  <2>3. With(t.dirty, p, x) \in DirtyList BY <1>2, <2>1, <2>2 DEF DirtyList
  <2> QED BY <1>1, <2>3 DEF TxnRec
<1>9. /\ u.root = t.root /\ u.next = t.next /\ u.free = t.free /\ u.saved = t.saved
      /\ u.dirty = With(t.dirty, p, x) /\ u.spill = t.spill /\ u.room = t.room
  BY <1>1, <1>8 DEF TxnRec
<1>10. DOMAIN u.dirty = DOMAIN t.dirty \cup {p}
       /\ \A y \in DOMAIN u.dirty : u.dirty[y] = IF y = p THEN x ELSE t.dirty[y]
  BY <1>9 DEF With
<1> DEFINE z == Push(r, u)  mem == Dirty(Len(r) + 1, p)
<1> HIDE DEF x
<1>11. Where(z, p) = mem /\ \A y : y # p => Where(z, y) = Where(s, y)
  <2> HIDE DEF p
  <2>1. Where(z, p) = mem BY <1>1, <1>5, <1>9, <1>10, WherePushed
  <2>2. \A y : y # p => Where(z, y) = Where(s, y) BY <1>1, <1>9, <1>10, WherePushed
  <2> QED BY <2>1, <2>2
<1>12. \A y : Page(f, z, y) = Page(f, s, y)
  <2>1. Page(f, z, p) = Page(f, s, p) BY <1>1, <1>5, <1>9, <1>10, PagePushed DEF x
  <2>2. \A y : y # p => Page(f, z, y) = Page(f, s, y) BY <1>1, <1>9, <1>10, PagePushed
  <2> QED BY <2>1, <2>2
<1>13. Visible(z) = Visible(s)
  <2>1. Visible(s) = (Visible(r) \cup DOMAIN t.dirty) \ t.spill BY <1>1, SeenPushed
  <2>2. Visible(z) = (Visible(r) \cup DOMAIN u.dirty) \ u.spill BY <1>1, SeenPushed
  <2>3. Where(r, p) = Where(s, p) BY <1>1, <1>4, <1>5, WherePushed
  <2>4. p \in Visible(r) BY <1>1, <1>4, <2>3, Seen, WhereUnlisted
  <2> QED BY <1>9, <1>10, <2>1, <2>2, <2>4
<1>14. Listed(z) = Listed(s)
  <2>1. Listed(s) = Listed(r) \cup Lists(t) BY <1>1, Parts
  <2>2. Listed(z) = Listed(r) \cup Lists(u) BY <1>1, Parts
  <2>3. p \in Listed(s) BY <1>1, <1>4, WhereUnlisted
  <2> QED BY <1>9, <1>10, <2>1, <2>2, <2>3 DEF Lists
<1>15. u.room = UmMax - Cardinality(Visible(z)) BY <1>1, <1>9, <1>13
<1>16. ListsApart(z) BY <1>1, <1>5, <1>9, <1>10, ApartPushed
<1>17. At(f, r, u, g, Moved(c, q, i, mem), Replaced(q, i, mem), l)
  <2> HIDE DEF s, z, p, mem
  <2> QED BY <1>1, <1>9, <1>11, <1>12, <1>14, <1>15, <1>16, Copied DEF s, z, p, Replaced
<1>18. CopyHere(w, i, w.path[i]) = CursorsOn(SetTop(w, u), i, mem)
  <2>1. w.path[i] = Where(s, p) /\ w.path[i][2] = p BY <1>1, <1>2
  <2>2. Content(w.file, w.txns, w.path[i]) = x BY <1>1, <2>1 DEF x, Page
  <2>3. w.txns[Depth(w)] = t BY <1>1, LastParts
  <2>4. [w EXCEPT !.txns[Depth(w)].dirty = With(@, p, x)]
          = SetTop(w, [w.txns[Depth(w)] EXCEPT !.dirty = With(w.txns[Depth(w)].dirty, p, x)])
    BY DEF SetTop
  <2>5. [w EXCEPT !.txns[Depth(w)].dirty = With(@, p, x)] = SetTop(w, u) BY <1>8, <2>3, <2>4
  <2>6. CopyHere(w, i, w.path[i]) = CursorsOn([w EXCEPT !.txns[Depth(w)].dirty = With(@, p, x)], i, mem)
    BY <1>1, <2>1, <2>2 DEF CopyHere
  <2> QED BY <2>5, <2>6
<1>19. SetTop(w, u) = Made(f, z, g, c, q) BY <1>1, LastMade
<1>20. CopyHere(w, i, w.path[i]) = Made(f, z, g, Moved(c, q, i, mem), Replaced(q, i, mem))
  <2> HIDE DEF z, mem
  <2> QED BY <1>18, <1>19, CursorsMade
<1>21. Held(f, Push(r, u)) = Held(f, Push(r, t))
  <2>1. Root(Push(r, u)) = Root(Push(r, t)) BY <1>1, <1>9, Parts
  <2>2. Rt(f, Push(r, u)) = Rt(f, Push(r, t)) BY <1>12, <2>1 DEF Rt
  <2> QED BY <1>12, <2>2, HeldSame
<1> HIDE DEF s, p, z, mem
<1> QED BY <1>1, <1>17, <1>20, <1>21, TouchedIs DEF mem, z

-----------------------------------------------------------------------------
(* New pages.                                                               *)

\* Page p is taken; the allocator h and the next page number n are left.
Taken(f, s, h, p, n) ==
  /\ p \in PageNo /\ h \in PgRec /\ n \in Nat
  /\ {p} \cup h.head \cup TreeOf(f, s) \cup Gone(s) \cup Unread(h) = FirstPg .. n - 1
  /\ p \notin h.head \cup TreeOf(f, s) \cup Gone(s) \cup Unread(h) \cup TreeOf(f, <<>>)
  /\ TreeOf(f, s) \cap (h.head \cup Unread(h)) = {}
  /\ h.head \cap (Gone(s) \cup Unread(h)) = {} /\ Gone(s) \cap Unread(h) = {}
  /\ h.last <= Len(meta.recs) /\ h.head \subseteq WasRead(h)
  /\ meta.next <= n /\ n <= MaxPg

\* The records before and after one more has been read.
LEMMA NextRecord ==
  ASSUME MetaOK, NEW k \in Nat, k + 1 <= Len(meta.recs), NEW a, NEW b,
         a = [head |-> {}, last |-> k], b = [head |-> meta.recs[k + 1], last |-> k + 1]
  PROVE  /\ Unread(a) = Unread(b) \cup b.head /\ b.head \cap Unread(b) = {}
         /\ b.head \subseteq WasRead(b)
         /\ b.head \subseteq PageNo
<1>1. meta.recs \in Seq(SUBSET PageNo) /\ DOMAIN meta.recs = 1 .. Len(meta.recs) /\ Len(meta.recs) \in Nat
  BY DEF MetaOK
<1>2. k + 1 .. Len(meta.recs) = {k + 1} \cup ((k + 1) + 1 .. Len(meta.recs)) BY <1>1
<1>3. \A i \in (k + 1) + 1 .. Len(meta.recs) : i \in DOMAIN meta.recs /\ i # k + 1 BY <1>1
<1>4. k + 1 \in DOMAIN meta.recs /\ k + 1 \in 1 .. k + 1 BY <1>1
<1>5. b.head \cap Unread(b) = {} BY <1>3, <1>4 DEF MetaOK, Unread
<1>6. Unread(a) = Unread(b) \cup b.head BY <1>2 DEF Unread
<1>7. b.head \subseteq WasRead(b) BY <1>4 DEF WasRead
<1>8. b.head \subseteq PageNo BY <1>1, <1>4
<1> QED BY <1>5, <1>6, <1>7, <1>8

\* What an allocator may give out, nothing committed has.
LEMMA NotCommitted ==
  ASSUME MetaOK, NEW f, Level(f, <<>>, NoPages), NEW g \in PgRec, g.last <= Len(meta.recs)
  PROVE  WasRead(g) \cap TreeOf(f, <<>>) = {} /\ Unread(g) \cap TreeOf(f, <<>>) = {}
         /\ \A p \in TreeOf(f, <<>>) : p \in Nat /\ p < meta.next /\ p >= FirstPg
<1>1. g.last \in Nat /\ Len(meta.recs) \in Nat /\ meta.next \in Nat BY DEF PgRec, MetaOK
<1>2. \A i \in 1 .. g.last : i \in 1 .. Len(meta.recs) BY <1>1
<1>3. \A i \in g.last + 1 .. Len(meta.recs) : i \in 1 .. Len(meta.recs) BY <1>1
<1>4. Unread(NoPages) = UNION {meta.recs[i] : i \in 1 .. Len(meta.recs)} BY DEF Unread, NoPages
<1>5. WasRead(g) \subseteq Unread(NoPages) /\ Unread(g) \subseteq Unread(NoPages)
  BY <1>2, <1>3, <1>4 DEF WasRead, Unread
<1>6. NextPg(<<>>) = meta.next BY DEF NextPg
<1>7. TreeOf(f, <<>>) \subseteq FirstPg .. meta.next - 1 BY <1>6 DEF Level, PartOK
<1>8. TreeOf(f, <<>>) \cap Unread(NoPages) = {} BY DEF Level, PartOK
<1> QED BY <1>1, <1>5, <1>7, <1>8 DEF FirstPg

\* mdb_page_alloc takes such a page.
LEMMA AllocTakes ==
  ASSUME MetaOK, NEW f, NEW s \in Seq(TxnRec), s # <<>>, NEW g \in PgRec, Level(f, s, g),
         Level(f, <<>>, NoPages), NEW e, NextPg(s) \in Nat,
         e = IF g.head = {} /\ g.last + 1 < Len(meta.recs)
             THEN [head |-> meta.recs[g.last + 1], last |-> g.last + 1] ELSE g
  PROVE  /\ e.head # {} => Taken(f, s, [e EXCEPT !.head = @ \ {Min(e.head)}], Min(e.head), NextPg(s))
         /\ e.head = {} /\ NextPg(s) + 1 < MaxPg => Taken(f, s, g, NextPg(s), NextPg(s) + 1)
<1>1. /\ g.last \in Nat /\ Len(meta.recs) \in Nat /\ meta.next \in Nat /\ g.head \subseteq PageNo
      /\ g = [head |-> g.head, last |-> g.last]
  BY DEF PgRec, MetaOK
<1>2. \A p \in TreeOf(f, <<>>) : p \in Nat /\ p < meta.next /\ p >= FirstPg
  BY NotCommitted, <1>1 DEF Level, AllocOK
<1>3. Root(<<>>) \in TreeOf(f, <<>>) BY DEF TreeOf
<1>4. FirstPg < meta.next BY <1>1, <1>2, <1>3 DEF FirstPg
<1>5. PageNo \subseteq Nat BY DEF PageNo, FirstPg
<1>6. ASSUME e.head # {}
      PROVE  Taken(f, s, [e EXCEPT !.head = @ \ {Min(e.head)}], Min(e.head), NextPg(s))
  <2>1. /\ e \in PgRec /\ e.last <= Len(meta.recs) /\ e.head \subseteq WasRead(e)
        /\ e.head \cap Unread(e) = {} /\ g.head \cup Unread(g) = e.head \cup Unread(e)
    <3>1. CASE e = g BY <3>1 DEF Level, AllocOK, PartOK
    <3>2. CASE e # g
      <4>1. g.head = {} /\ g.last + 1 < Len(meta.recs)
            /\ e = [head |-> meta.recs[g.last + 1], last |-> g.last + 1]
        BY <3>2
      <4>2. g = [head |-> {}, last |-> g.last] /\ g.last + 1 <= Len(meta.recs) BY <1>1, <4>1
      <4>3. /\ Unread(g) = Unread(e) \cup e.head /\ e.head \cap Unread(e) = {}
            /\ e.head \subseteq WasRead(e) /\ e.head \subseteq PageNo
        BY <1>1, <4>1, <4>2, NextRecord
      <4> QED BY <1>1, <4>1, <4>2, <4>3 DEF PgRec
    <3> QED BY <3>1, <3>2
  <2> DEFINE p == Min(e.head)
  <2>2. p \in e.head /\ e.head \subseteq PageNo BY <1>5, <1>6, <2>1, MinIn DEF PgRec
  <2> HIDE DEF p
  <2>3. PICK h \in PgRec : h = [e EXCEPT !.head = e.head \ {p}] BY <2>1 DEF PgRec
  <2>4. h.head = e.head \ {p} /\ h.last = e.last BY <2>1, <2>3 DEF PgRec
  <2>5. Unread(h) = Unread(e) /\ WasRead(h) = WasRead(e) BY <2>4 DEF Unread, WasRead
  <2>6. p \notin TreeOf(f, <<>>) BY <2>1, <2>2, NotCommitted
  <2>7. Taken(f, s, h, p, NextPg(s))
    <3> DEFINE T == TreeOf(f, s)  G == Gone(s)  U == Unread(e)  n == NextPg(s)
    <3>1. T \cup g.head \cup G \cup Unread(g) = FirstPg .. n - 1 /\ T \cap G = {}
          /\ T \cap (g.head \cup Unread(g)) = {} /\ G \cap (g.head \cup Unread(g)) = {}
      BY DEF Level, PartOK
    <3> HIDE DEF T, G, U, n
    <3>2. {p} \cup h.head = e.head BY <2>2, <2>4
    <3>3. T \cup G \cup (e.head \cup U) = FirstPg .. n - 1 BY <2>1, <3>1 DEF U
    <3>4. {p} \cup h.head \cup T \cup G \cup U = FirstPg .. n - 1 BY <3>2, <3>3
    <3>5. T \cap (e.head \cup U) = {} /\ G \cap (e.head \cup U) = {} BY <2>1, <3>1 DEF U
    <3>6. /\ p \notin h.head \cup T \cup G \cup U /\ T \cap (h.head \cup U) = {}
          /\ h.head \cap (G \cup U) = {} /\ G \cap U = {}
      BY <2>1, <2>2, <2>4, <3>2, <3>5 DEF U
    <3>7. meta.next <= n /\ n <= MaxPg /\ h.last <= Len(meta.recs) /\ h.head \subseteq WasRead(h)
      BY <2>1, <2>4, <2>5 DEF Level, AllocOK, n
    <3> QED BY <2>2, <2>5, <2>6, <3>4, <3>6, <3>7 DEF Taken, T, G, U, n
  <2> QED BY <2>3, <2>7 DEF p
<1>7. ASSUME e.head = {}, NextPg(s) + 1 < MaxPg PROVE Taken(f, s, g, NextPg(s), NextPg(s) + 1)
  <2>1. g.head = {}
    BY <1>7
  <2>2. MaxPg \in Nat BY NestedAssumption DEF NestedAssumption
  <2>3. meta.next <= NextPg(s) BY DEF Level, AllocOK
  <2>4. NextPg(s) \in PageNo BY <1>1, <1>4, <1>7, <2>2, <2>3 DEF PageNo, FirstPg
  <2>5. FirstPg .. (NextPg(s) + 1) - 1 = (FirstPg .. NextPg(s) - 1) \cup {NextPg(s)}
    BY <1>1, <1>4, <2>3 DEF FirstPg
  <2>6. NextPg(s) \notin FirstPg .. NextPg(s) - 1 OBVIOUS
  <2>7. NextPg(s) \notin TreeOf(f, <<>>) BY <1>1, <1>2, <2>3
  <2> QED BY <1>1, <1>7, <2>1, <2>2, <2>3, <2>4, <2>5, <2>6, <2>7 DEF Taken, Level, PartOK, AllocOK
<1> QED BY <1>6, <1>7

\* What the transaction t is when page p has been put on its list with content x.
NewOn(t, v, p, x, n) ==
  /\ v.root = t.root /\ v.spill = t.spill /\ v.free = t.free /\ v.saved = t.saved
  /\ v.bad = t.bad /\ v.dirty = With(t.dirty, p, x) /\ v.room = t.room - 1 /\ v.next = n

LEMMA AllocMade ==
  ASSUME MetaOK, NEW f, NEW r, NEW t, NEW g, NEW c, NEW q, NEW l, At(f, r, t, g, c, q, l),
         NEW w, w = Made(f, Push(r, t), g, c, q), NEW x \in PageData
  PROVE  \/ PageAlloc(w, x) = [w |-> Fail(w), p |-> None]
         \/ \E h, p, n : \E v \in TxnRec :
              /\ Taken(f, Push(r, t), h, p, n) /\ NewOn(t, v, p, x, n) /\ t.room # 0
              /\ PageAlloc(w, x) = [w |-> Made(f, Push(r, v), h, c, q), p |-> p]
<1> DEFINE s == Push(r, t)  e == Fetched(w)
           p == IF e.head # {} THEN Min(e.head) ELSE t.next
<1>1. /\ r \in Seq(TxnRec) /\ t \in TxnRec /\ s \in Seq(TxnRec) /\ g \in PgRec
      /\ Level(f, s, g)
  BY DEF At, Types
<1>2. Level(f, <<>>, NoPages) BY <1>1, StackEmpty DEF At
<1>3. /\ This(w) = t /\ w.pg = g /\ w.txns[Depth(w)] = t /\ s # <<>> /\ NextPg(s) = t.next
      /\ t.next \in Nat
  <2>1. This(w) = t /\ w.txns[Depth(w)] = t BY <1>1, LastParts
  <2>2. w.pg = g BY MadeParts
  <2>3. s # <<>> BY <1>1, Pushed
  <2>4. NextPg(s) = t.next BY <1>1, Parts
  <2> QED BY <1>1, <2>1, <2>2, <2>3, <2>4 DEF TxnRec
<1>4. e = IF g.head = {} /\ g.last + 1 < Len(meta.recs)
          THEN [head |-> meta.recs[g.last + 1], last |-> g.last + 1] ELSE g
  BY <1>3 DEF Fetched
<1> HIDE DEF e, s
<1>5. /\ e.head # {} => Taken(f, s, [e EXCEPT !.head = @ \ {Min(e.head)}], Min(e.head), t.next)
      /\ e.head = {} /\ t.next + 1 < MaxPg => Taken(f, s, g, t.next, t.next + 1)
  <2>1. NextPg(s) \in Nat BY <1>3
  <2>2. /\ e.head # {} => Taken(f, s, [e EXCEPT !.head = @ \ {Min(e.head)}], Min(e.head), NextPg(s))
        /\ e.head = {} /\ NextPg(s) + 1 < MaxPg => Taken(f, s, g, NextPg(s), NextPg(s) + 1)
    BY <1>1, <1>2, <1>3, <1>4, <2>1, AllocTakes
  <2> QED BY <1>3, <2>2
<1>6. PageAlloc(w, x) =
        IF t.room = 0 \/ (e.head = {} /\ p + 1 >= MaxPg) THEN [w |-> Fail(w), p |-> None]
        ELSE [w |-> PageDirty(IF e.head # {} THEN [w EXCEPT !.pg = [e EXCEPT !.head = @ \ {p}]]
                              ELSE [w EXCEPT !.txns[Depth(w)].next = p + 1], p, x), p |-> p]
  BY <1>3 DEF PageAlloc, e
<1>7. CASE t.room = 0 \/ (e.head = {} /\ p + 1 >= MaxPg) BY <1>6, <1>7
<1>8. CASE t.room # 0 /\ e.head # {}
  <2>1. PICK h : h = [e EXCEPT !.head = @ \ {p}] OBVIOUS
  <2>2. Taken(f, s, h, p, t.next) BY <1>5, <1>8, <2>1
  <2>3. PageAlloc(w, x) = [w |-> PageDirty([w EXCEPT !.pg = h], p, x), p |-> p]
    BY <1>6, <1>8, <2>1
  <2> HIDE DEF p
  <2>4. PICK y : y = [w EXCEPT !.pg = h] OBVIOUS
  <2>5. y = Made(f, Push(r, t), h, c, q) BY <2>4, MadePg
  <2>6. p \in PageNo BY <2>2 DEF Taken
  <2>7. PICK v \in TxnRec : v = Dirtied(t, p, x) /\ PageDirty(y, p, x) = Made(f, Push(r, v), h, c, q)
    BY <1>1, <1>8, <2>5, <2>6, DirtyMade
  <2>8. NewOn(t, v, p, x, t.next) BY <1>1, <2>7 DEF NewOn, Dirtied, TxnRec
  <2> QED BY <1>8, <2>2, <2>3, <2>4, <2>7, <2>8 DEF s
<1>9. CASE t.room # 0 /\ e.head = {} /\ ~(p + 1 >= MaxPg)
  <2>1. p = t.next /\ MaxPg \in Nat BY <1>9, NestedAssumption DEF NestedAssumption
  <2>2. Taken(f, s, g, p, p + 1) BY <1>3, <1>5, <1>9, <2>1
  <2>3. PageAlloc(w, x) = [w |-> PageDirty([w EXCEPT !.txns[Depth(w)].next = p + 1], p, x), p |-> p]
    BY <1>6, <1>9
  <2> HIDE DEF p
  <2>4. PICK o \in TxnRec : o = [t EXCEPT !.next = p + 1]
    <3>1. p + 1 \in Nat BY <1>3, <2>1
    <3> QED BY <1>1, <3>1 DEF TxnRec
  <2>5. [w EXCEPT !.txns[Depth(w)].next = p + 1] = SetTop(w, [w.txns[Depth(w)] EXCEPT !.next = p + 1])
    BY DEF SetTop
  <2>6. PICK y : y = SetTop(w, o) OBVIOUS
  <2>7. PageAlloc(w, x) = [w |-> PageDirty(y, p, x), p |-> p] BY <1>3, <2>3, <2>4, <2>5, <2>6
  <2>8. y = Made(f, Push(r, o), g, c, q) BY <1>1, <2>6, LastMade
  <2>9. p \in PageNo BY <2>2 DEF Taken
  <2>10. o.room # 0 /\ o.dirty = t.dirty BY <1>1, <1>9, <2>4 DEF TxnRec
  <2>11. PICK v \in TxnRec : v = Dirtied(o, p, x) /\ PageDirty(y, p, x) = Made(f, Push(r, v), g, c, q)
    BY <1>1, <2>8, <2>9, <2>10, DirtyMade
  <2>12. NewOn(t, v, p, x, p + 1) BY <1>1, <2>4, <2>11 DEF NewOn, Dirtied, TxnRec
  <2> QED BY <1>9, <2>2, <2>7, <2>11, <2>12 DEF s
<1> QED BY <1>7, <1>8, <1>9

\* The page taken comes into the tree, pages may leave it for the freed ones.
Onto(f, r, t, u, g, h, p, n, F) ==
  /\ r \in Seq(TxnRec) /\ t \in TxnRec /\ u \in TxnRec
  /\ Level(f, Push(r, t), g) /\ Taken(f, Push(r, t), h, p, n)
  /\ F \subseteq TreeOf(f, Push(r, t)) /\ u.free = t.free \cup F /\ u.next = n
  /\ Lists(u) = Lists(t) \cup {p} /\ u.root \in {t.root, p}
  /\ TreeOf(f, Push(r, u)) = (TreeOf(f, Push(r, t)) \ F) \cup {p}
  /\ TreeOK(f, Push(r, u)) /\ u.room = UmMax - Cardinality(Visible(Push(r, u)))

LEMMA NewTree ==
  ASSUME NEW f, NEW r, NEW t, NEW u, NEW g, NEW h, NEW p, NEW n, NEW F,
         Onto(f, r, t, u, g, h, p, n, F)
  PROVE  Level(f, Push(r, u), h)
<1> USE DEF Onto
<1> DEFINE s == Push(r, t)  v == Push(r, u)
<1>1. /\ Listed(s) = Listed(r) \cup Lists(t) /\ Listed(v) = Listed(r) \cup Lists(u)
      /\ Gone(s) = Gone(r) \cup t.free /\ Gone(v) = Gone(r) \cup u.free /\ NextPg(v) = n
      /\ FreedApart(s) <=> FreedApart(r) /\ t.free \cap Gone(r) = {}
      /\ FreedApart(v) <=> FreedApart(r) /\ u.free \cap Gone(r) = {}
  <2>1. /\ Listed(s) = Listed(r) \cup Lists(t) /\ Gone(s) = Gone(r) \cup t.free
        /\ FreedApart(s) <=> FreedApart(r) /\ t.free \cap Gone(r) = {}
    BY Parts
  <2>2. /\ Listed(v) = Listed(r) \cup Lists(u) /\ Gone(v) = Gone(r) \cup u.free /\ NextPg(v) = u.next
        /\ FreedApart(v) <=> FreedApart(r) /\ u.free \cap Gone(r) = {}
    BY Parts
  <2> QED BY <2>1, <2>2
<1>2. Listed(v) = Listed(s) \cup {p} /\ Gone(v) = Gone(s) \cup F BY <1>1
<1>3. /\ TreeOf(f, s) \cap Gone(s) = {} /\ FreedApart(s)
      /\ TreeOf(f, s) \subseteq Listed(s) \cup TreeOf(f, <<>>)
      /\ Listed(s) \subseteq TreeOf(f, s) \cup Gone(s)
      /\ Listed(s) \cap TreeOf(f, <<>>) = {}
  BY DEF Level, PartOK, ListOK
<1>4. RoomOK(v) /\ v # <<>> BY Pushed DEF RoomOK
<1> HIDE DEF s, v
<1>5. PartOK(f, v, h)
  <2> DEFINE T == TreeOf(f, s)  G == Gone(s)  U == Unread(h)
  <2>1. /\ {p} \cup h.head \cup T \cup G \cup U = FirstPg .. n - 1
        /\ p \notin h.head \cup T \cup G \cup U
        /\ T \cap (h.head \cup U) = {} /\ h.head \cap (G \cup U) = {} /\ G \cap U = {}
    BY DEF Taken, s
  <2>2. FreedApart(v)
    <3>1. u.free = t.free \cup F /\ F \subseteq TreeOf(f, s) BY DEF s
    <3>2. u.free \cap Gone(r) = {} BY <1>1, <1>3, <3>1
    <3> QED BY <1>1, <1>3, <3>2
  <2>3. TreeOf(f, v) = (T \ F) \cup {p} /\ Gone(v) = G \cup F /\ F \subseteq T BY <1>2 DEF s, v
  <2> HIDE DEF T, G, U
  <2>4. TreeOf(f, v) \cup h.head \cup Gone(v) \cup U = FirstPg .. n - 1 BY <2>1, <2>3
  <2>5. T \cap G = {} BY <1>3 DEF T, G
  <2>6. TreeOf(f, v) \cap (h.head \cup Gone(v) \cup U) = {} BY <2>1, <2>3, <2>5
  <2>7. h.head \cap (Gone(v) \cup U) = {} /\ Gone(v) \cap U = {} BY <2>1, <2>3
  <2> QED BY <1>1, <2>2, <2>4, <2>6, <2>7 DEF PartOK, U
<1>6. ListOK(f, v)
  <2>1. p \notin TreeOf(f, <<>>) BY DEF Taken
  <2>2. TreeOf(f, v) = (TreeOf(f, s) \ F) \cup {p} /\ F \subseteq TreeOf(f, s) BY DEF s, v
  <2>3. Root(v) \in Listed(v) \cup {Root(<<>>)}
    <3>1. Root(s) = t.root BY Parts DEF s
    <3>2. Root(v) = u.root BY Parts DEF v
    <3>3. Root(s) \in Listed(s) \cup {Root(<<>>)} BY DEF Level, ListOK, s
    <3> QED BY <1>2, <3>1, <3>2, <3>3
  <2> QED BY <1>2, <1>3, <2>1, <2>2, <2>3 DEF ListOK
<1>7. AllocOK(v, h) BY <1>1 DEF Taken, AllocOK
<1> QED BY <1>4, <1>5, <1>6, <1>7 DEF Level, Bottom, v

\* A page taken is in none of the lists.
LEMMA TakenNew ==
  ASSUME NEW f, NEW r \in Seq(TxnRec), NEW t \in TxnRec, NEW g, NEW h, NEW p, NEW n,
         Level(f, Push(r, t), g), Taken(f, Push(r, t), h, p, n)
  PROVE  p \notin Listed(Push(r, t)) /\ p \notin DOMAIN t.dirty /\ p \notin t.spill
<1>1. p \notin Listed(Push(r, t)) BY DEF Taken, Level, ListOK
<1>2. p \notin DOMAIN t.dirty /\ p \notin t.spill BY <1>1, Parts DEF Lists
<1> QED BY <1>1, <1>2

\* Such a page comes on the dirty list.
OneMore(t, u, p) ==
  /\ DOMAIN u.dirty = DOMAIN t.dirty \cup {p} /\ u.spill = t.spill /\ u.room = t.room - 1

LEMMA NewRoom ==
  ASSUME NEW r \in Seq(TxnRec), NEW t \in TxnRec, NEW u \in TxnRec, NEW p,
         p \notin Listed(Push(r, t)), OneMore(t, u, p),
         t.room = UmMax - Cardinality(Visible(Push(r, t))), ListsApart(Push(r, t))
  PROVE  /\ u.room = UmMax - Cardinality(Visible(Push(r, u)))
         /\ Lists(u) = Lists(t) \cup {p} /\ ListsApart(Push(r, u))
<1> USE DEF OneMore
<1> DEFINE s == Push(r, t)  v == Push(r, u)
<1>2. p \notin DOMAIN t.dirty /\ p \notin t.spill BY Parts DEF Lists
<1>3. Visible(s) = (Visible(r) \cup DOMAIN t.dirty) \ t.spill BY SeenPushed
<1>4. Visible(v) = (Visible(r) \cup DOMAIN u.dirty) \ u.spill BY SeenPushed
<1>5. Visible(v) = Visible(s) \cup {p} BY <1>2, <1>3, <1>4
<1>6. s \in Seq(TxnRec) BY Pushed
<1>7. p \notin Visible(s) /\ IsFiniteSet(Visible(s)) /\ Cardinality(Visible(s)) \in Nat
  BY <1>6, Seen
<1>8. Cardinality(Visible(v)) = Cardinality(Visible(s)) + 1 BY <1>5, <1>7, FS_AddElement
<1>10. u.room = UmMax - Cardinality(Visible(v))
  BY <1>7, <1>8, NestedAssumption DEF NestedAssumption
<1>11. ListsApart(v) BY <1>2, ApartPushed
<1> QED BY <1>2, <1>10, <1>11 DEF Lists

\* The root page goes to a new number.
LEMMA RenumberRoot ==
  ASSUME MetaOK, NEW w, NEW l, Sound(w, l), w.path[1][1] = 0, ~Spilled(w, w.path[1][2])
  PROVE  Touched(w, Renumber(w, 1, w.path[1][2], l), l, 1)
<1> USE DEF Whole
<1>1. PICK f, r, t, g, c, q : Whole(w, l, f, r, t, g, c, q) BY SoundParts
<1> DEFINE s == Push(r, t)  p0 == Root(s)
<1>2. p0 \in PageNo /\ q[1] = Where(s, p0) /\ q[1][2] = p0 /\ p0 \in TreeOf(f, s)
  BY <1>1, PathPage DEF PageOn
<1>3. Where(s, p0) = InMap(p0) BY <1>1, <1>2, InMapIs
<1>4. TreeOK(f, s) /\ Rt(f, s) = f[p0] BY <1>1, <1>3 DEF Level, Rt, Page, Content, InMap
<1>5. f[p0] \in PageData BY <1>1, <1>2
<1>6. \/ PageAlloc(w, f[p0]) = [w |-> Fail(w), p |-> None]
      \/ \E h, p, n : \E v \in TxnRec :
           /\ Taken(f, s, h, p, n) /\ NewOn(t, v, p, f[p0], n) /\ t.room # 0
           /\ PageAlloc(w, f[p0]) = [w |-> Made(f, Push(r, v), h, c, q), p |-> p]
  BY <1>1, <1>5, AllocMade
<1>7. CASE PageAlloc(w, f[p0]) = [w |-> Fail(w), p |-> None]
  <2>1. PageAlloc(w, w.file[p0]).w = Fail(w) /\ PageAlloc(w, w.file[p0]).p = None BY <1>1, <1>7
  <2>2. Renumber(w, 1, p0, l) = Fail(w) BY <2>1 DEF Renumber
  <2> QED BY <1>1, <1>2, <2>2, FailTouched
<1>8. CASE \E h, p, n : \E v \in TxnRec :
             /\ Taken(f, s, h, p, n) /\ NewOn(t, v, p, f[p0], n) /\ t.room # 0
             /\ PageAlloc(w, f[p0]) = [w |-> Made(f, Push(r, v), h, c, q), p |-> p]
  <2>1. PICK h, p, n : \E v \in TxnRec :
             /\ Taken(f, s, h, p, n) /\ NewOn(t, v, p, f[p0], n) /\ t.room # 0
             /\ PageAlloc(w, f[p0]) = [w |-> Made(f, Push(r, v), h, c, q), p |-> p]
    BY <1>8
  <2>2. PICK v \in TxnRec :
             /\ Taken(f, s, h, p, n) /\ NewOn(t, v, p, f[p0], n)
             /\ PageAlloc(w, f[p0]) = [w |-> Made(f, Push(r, v), h, c, q), p |-> p]
    BY <2>1
  <2>3. p \in PageNo /\ p \notin TreeOf(f, s) /\ h \in PgRec BY <2>2 DEF Taken
  <2>4. PICK v1 \in TxnRec : v1 = [v EXCEPT !.free = v.free \cup {p0}] BY <1>2 DEF TxnRec
  <2>5. PICK u \in TxnRec : u = [v1 EXCEPT !.root = p] BY <2>3 DEF TxnRec
  <2>6. /\ u.root = p /\ u.next = n /\ u.free = t.free \cup {p0} /\ u.saved = t.saved
        /\ u.dirty = With(t.dirty, p, f[p0]) /\ u.spill = t.spill /\ u.room = t.room - 1
    BY <2>2, <2>4, <2>5 DEF TxnRec, NewOn
  <2>7. DOMAIN u.dirty = DOMAIN t.dirty \cup {p}
        /\ \A x \in DOMAIN u.dirty : u.dirty[x] = IF x = p THEN f[p0] ELSE t.dirty[x]
    BY <2>6 DEF With
  <2> DEFINE z == Push(r, u)  mem == Dirty(Len(r) + 1, p)  d == Moved(c, q, 1, mem)
  <2>8. /\ p \notin DOMAIN t.dirty /\ p \notin t.spill /\ Lists(u) = Lists(t) \cup {p}
        /\ u.room = UmMax - Cardinality(Visible(z)) /\ ListsApart(z)
    <3>1. Level(f, Push(r, t), g) /\ Taken(f, Push(r, t), h, p, n) BY <1>1, <2>2
    <3>2. p \notin Listed(Push(r, t)) /\ p \notin DOMAIN t.dirty /\ p \notin t.spill
      BY <1>1, <3>1, TakenNew
    <3>3. OneMore(t, u, p) BY <2>6, <2>7 DEF OneMore
    <3> HIDE DEF p0, mem, d
    <3> QED BY <1>1, <3>2, <3>3, NewRoom
  <2>9. Where(z, p) = mem /\ \A x : x # p => Where(z, x) = Where(s, x)
    <3>1. p \notin u.spill /\ p \in DOMAIN u.dirty BY <2>6, <2>7, <2>8
    <3>2. Where(z, p) = mem BY <1>1, <3>1, WherePushed
    <3>3. ASSUME NEW x, x # p PROVE Where(z, x) = Where(s, x)
      <4>1. (x \in u.spill <=> x \in t.spill) /\ (x \in DOMAIN u.dirty <=> x \in DOMAIN t.dirty)
        BY <2>6, <2>7, <3>3
      <4> HIDE DEF p0, mem, d
      <4>2. Where(z, x) = IF x \in u.spill THEN InMap(x)
                          ELSE IF x \in DOMAIN u.dirty THEN Dirty(Len(r) + 1, x) ELSE Where(r, x)
        BY <1>1, WherePushed
      <4>3. Where(s, x) = IF x \in t.spill THEN InMap(x)
                          ELSE IF x \in DOMAIN t.dirty THEN Dirty(Len(r) + 1, x) ELSE Where(r, x)
        BY <1>1, WherePushed
      <4> QED BY <4>1, <4>2, <4>3
    <3> QED BY <3>2, <3>3
  <2>10. Page(f, z, p) = f[p0] BY <1>1, <2>6, <2>7, <2>8, PagePushed
  <2>11. Root(z) = p BY <1>1, <2>6, Parts
  <2>12. Rt(f, z) = Rt(f, s) BY <1>4, <2>10, <2>11 DEF Rt
  <2> HIDE DEF z
  <2>13. \A m \in DOMAIN Rt(f, s) : Rt(f, s)[m] # p /\ Rt(f, s)[m] # p0 BY <1>4, <2>3 DEF TreeOf, TreeOK
  <2>14. TreeOK(f, z) BY <1>4, <2>3, <2>11, <2>12, <2>13 DEF TreeOK
  <2>15. TreeOf(f, z) = (TreeOf(f, s) \ {p0}) \cup {p} BY <2>11, <2>12, <2>13 DEF TreeOf
  <2>16. Level(f, z, h)
    <3> HIDE DEF s, p0
    <3>1. PICK F : F = {p0} OBVIOUS
    <3>2. F \subseteq TreeOf(f, s) /\ u.free = t.free \cup F /\ TreeOf(f, z) = (TreeOf(f, s) \ F) \cup {p}
      BY <1>2, <2>6, <2>15, <3>1
    <3>3. Onto(f, r, t, u, g, h, p, n, F)
      BY <1>1, <2>2, <2>6, <2>8, <2>14, <3>2 DEF Onto, z, s
    <3> QED BY <3>3, NewTree DEF z
  <2>17. CursTop(f, z, d) /\ Replaced(q, 1, mem) = PathTo(f, z, l)
    <3>1. \A m \in DOMAIN Rt(f, s) : Where(z, Rt(f, z)[m]) = Where(s, Rt(f, s)[m])
      BY <2>9, <2>12, <2>13
    <3>2. mem = Where(z, Root(z)) BY <2>9, <2>11
    <3>3. z \in Seq(TxnRec) BY <1>1, Pushed DEF z
    <3> HIDE DEF s, mem
    <3> QED BY <1>1, <1>4, <2>12, <2>14, <3>1, <3>2, <3>3, MovedRoot DEF s
  <2>18. d \in CursorTable /\ Alike(c, d)
    <3>1. mem \in Memory BY <1>1, <2>3, <2>9, Places, Pushed DEF z
    <3>2. q \in PathRec BY <1>1, <1>4, Paths
    <3> HIDE DEF mem
    <3> QED BY <1>1, <3>1, <3>2, MovedTypes
  <2> HIDE DEF d, mem
  <2>19. At(f, r, u, h, d, PathTo(f, z, l), l)
    BY <1>1, <2>3, <2>6, <2>8, <2>12, <2>16, <2>17, <2>18, NewLast DEF z
  <2>20. Renumber(w, 1, p0, l) = CursorsOn(SetTop(SetTop(Made(f, Push(r, v), h, c, q), v1), u), 1, mem)
    <3>1. PICK y : y = Made(f, Push(r, v), h, c, q) OBVIOUS
    <3>2. y.txns[Depth(y)] = v /\ Depth(y) = Depth(w) BY <1>1, <3>1, LastParts
    <3>3. [y EXCEPT !.txns[Depth(y)].free = @ \cup {p0}]
            = SetTop(y, [y.txns[Depth(y)] EXCEPT !.free = y.txns[Depth(y)].free \cup {p0}])
      BY DEF SetTop
    <3>4. PICK y1 : y1 = SetTop(y, v1) OBVIOUS
    <3>5. y1 = Made(f, Push(r, v1), h, c, q) BY <1>1, <3>1, <3>4, LastMade
    <3>6. y1.txns[Depth(y1)] = v1 /\ Depth(y1) = Depth(w) BY <1>1, <3>5, LastParts
    <3>7. [y1 EXCEPT !.txns[Depth(y1)].root = p] = SetTop(y1, [y1.txns[Depth(y1)] EXCEPT !.root = p])
      BY DEF SetTop
    <3>8. [y EXCEPT !.txns[Depth(w)].free = @ \cup {p0}] = y1 BY <2>4, <3>2, <3>3, <3>4
    <3>9. [y1 EXCEPT !.txns[Depth(w)].root = p] = SetTop(y1, u) BY <2>5, <3>6, <3>7
    <3>10. PageAlloc(w, w.file[p0]).w = y /\ PageAlloc(w, w.file[p0]).p = p /\ p # None
      <4>1. PageAlloc(w, w.file[p0]) = [w |-> y, p |-> p] BY <1>1, <2>2, <3>1
      <4>2. p # None BY <2>3 DEF PageNo, FirstPg, None
      <4> QED BY <4>1, <4>2
    <3>11. Renumber(w, 1, p0, l)
             = CursorsOn([[y EXCEPT !.txns[Depth(w)].free = @ \cup {p0}] EXCEPT !.txns[Depth(w)].root = p], 1, mem)
      BY <1>1, <3>10 DEF Renumber, mem
    <3> QED BY <3>1, <3>4, <3>8, <3>9, <3>11
  <2>21. SetTop(SetTop(Made(f, Push(r, v), h, c, q), v1), u) = Made(f, z, h, c, q)
    BY <1>1, LastMade DEF z
  <2>22. Renumber(w, 1, p0, l) = Made(f, z, h, d, Replaced(q, 1, mem))
    BY <2>20, <2>21, CursorsMade DEF d
  <2>23. Touched(w, Renumber(w, 1, p0, l), l, 1)
    <3>1. At(f, r, u, h, Moved(c, q, 1, mem), Replaced(q, 1, mem), l) BY <2>17, <2>19 DEF d
    <3>2. Renumber(w, 1, p0, l) = Made(f, Push(r, u), h, Moved(c, q, 1, mem), Replaced(q, 1, mem))
      BY <2>22 DEF d, z
    <3>3. Held(f, Push(r, u)) = Held(f, Push(r, t))
      <4>1. ASSUME NEW m \in DOMAIN Rt(f, s)
            PROVE  Page(f, z, Rt(f, s)[m]) = Page(f, s, Rt(f, s)[m])
        <5>1. PICK x : x = Rt(f, s)[m] OBVIOUS
        <5>2. x # p BY <2>13, <5>1
        <5>3. x \in DOMAIN t.dirty => u.dirty[x] = t.dirty[x] BY <2>7, <5>2
        <5>4. (x \in DOMAIN u.dirty <=> x \in DOMAIN t.dirty) /\ (x \in u.spill <=> x \in t.spill)
          BY <2>6, <2>7, <5>2
        <5>5. Page(f, z, x) = IF x \in u.spill THEN f[x]
                 ELSE IF x \in DOMAIN u.dirty THEN u.dirty[x] ELSE Page(f, r, x)
          BY <1>1, PagePushed DEF z
        <5>6. Page(f, s, x) = IF x \in t.spill THEN f[x]
                 ELSE IF x \in DOMAIN t.dirty THEN t.dirty[x] ELSE Page(f, r, x)
          BY <1>1, PagePushed
        <5> HIDE DEF s
        <5> QED BY <5>1, <5>3, <5>4, <5>5, <5>6
      <4> HIDE DEF s
      <4>2. Held(f, z) = Held(f, s) BY <2>12, <4>1, HeldSame
      <4> QED BY <4>2 DEF z, s
    <3>4. mem = Dirty(Len(r) + 1, p) BY DEF mem
    <3> HIDE DEF s, p0
    <3> QED BY <1>1, <3>1, <3>2, <3>3, <3>4, TouchedIs
  <2> QED BY <1>1, <1>2, <2>23
<1> QED BY <1>6, <1>7, <1>8
=============================================================================
