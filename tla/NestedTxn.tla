----------------------------- MODULE NestedTxn -----------------------------
(***************************************************************************)
(* Nested write transactions and page spilling (liblmdb/mdb.c): where the   *)
(* current copy of a page is when each transaction of a stack has a list of *)
(* dirty pages and a list of those it wrote to the file for want of room,   *)
(* and what begin, commit and abort of a nested transaction do with these   *)
(* lists, with the state of the page allocator and with the cursors.        *)
(*                                                                          *)
(* The database is a root page over leaf pages: the splits, merges and keys *)
(* of BTree are cut down to a leaf that appears beside another or is merged *)
(* into it.  The root page has one more child, page 2, which nothing here    *)
(* concerns.  No reader holds old pages, and the pages of the freeDB are    *)
(* not counted (MVCC has both).  Not here: overflow pages, several          *)
(* databases, failures of malloc and of writes, MDB_WRITEMAP (which allows  *)
(* no nested transactions).                                                 *)
(***************************************************************************)
EXTENDS Integers, FiniteSets, FiniteSetsExt, SequencesExt, Functions, TLC

CONSTANTS
  Leaf,       \* the leaf pages a database may have, by their place in it
  Value,      \* what a leaf page may hold
  Cursor,     \* the cursors a program may open
  Records,    \* free-list records at first, of one page each
  MaxPg,      \* me_maxpg
  UmMax,      \* MDB_IDL_UM_MAX, the room in a dirty list
  Need,       \* mdb_page_spill: the pages an operation may dirty ...
  Batch,      \* ... and those spilled when the room is no more than that
  MaxDepth,   \* bound: nested transactions
  MaxCommits  \* bound: top-level commits

FirstPg == 3
None == -1

ASSUME NestedAssumption ==
  /\ UmMax \in Nat /\ Records \in Nat /\ Need \in Nat /\ Batch >= Need
  /\ MaxDepth \in Nat /\ MaxCommits \in Nat
  /\ None \notin Value
  /\ IsFiniteSet(Leaf) /\ MaxPg \in Nat
  /\ FirstPg + Cardinality(Leaf) + 1 + Records <= MaxPg

VARIABLES
  file,     \* what the map shows of each page: a root page is a function from
            \* leaves to pages, a leaf page a value
  meta,     \* the committed root, next page and free-list records
  txns,     \* the running write transactions, each the parent of the next
  pg,       \* me_pgstate: me_pghead and me_pglast, records taken from meta
  cursors,  \* the open cursors
  commits
vars == <<file, meta, txns, pg, cursors, commits>>

\* The memory of a page: a copy in the dirty list of transaction k, the map, or
\* memory that was freed.
InMap(p) == <<0, p>>
Dirty(k, p) == <<k, p>>
Freed(p) == <<-1, p>>

NoPages == [head |-> {}, last |-> 0]

\* The function f, with c at x; with what g says instead, where g says something.
With(f, x, c) == [y \in DOMAIN f \cup {x} |-> IF y = x THEN c ELSE f[y]]
Over(g, f) == [y \in DOMAIN f \cup DOMAIN g |-> IF y \in DOMAIN g THEN g[y] ELSE f[y]]

-----------------------------------------------------------------------------
\* mdb_page_get in the last transaction of s: from there to its ancestors, the
\* first one that has the page in its spill list or dirty list decides.
Where(s, p) ==
  LET having == {k \in DOMAIN s : p \in s[k].spill \/ p \in DOMAIN s[k].dirty}
      k      == Max(having)
  IN IF having = {} \/ p \in s[k].spill THEN InMap(p) ELSE Dirty(k, p)

Content(f, s, mem) == IF mem[1] = 0 THEN f[mem[2]] ELSE s[mem[1]].dirty[mem[2]]
Page(f, s, p) == Content(f, s, Where(s, p))

Root(s) == IF s = <<>> THEN meta.root ELSE Last(s).root
NextPg(s) == IF s = <<>> THEN meta.next ELSE Last(s).next

\* Where a cursor on leaf l has its pages.
PathTo(f, s, l) == << Where(s, Root(s)), Where(s, Page(f, s, Root(s))[l]) >>

-----------------------------------------------------------------------------
\* A write works on a world: the file, the transactions, the allocator, the
\* cursors, the path (mc_pg) of the cursor at work, and whether it went wrong.
World(path) == [file |-> file, txns |-> txns, pg |-> pg, cur |-> cursors, path |-> path]
Depth(w) == Len(w.txns)
This(w) == Last(w.txns)
Fail(w) == [w EXCEPT !.txns[Depth(w)].bad = TRUE]
Good(w) == ~This(w).bad
Then(w, F(_)) == IF Good(w) THEN F(w) ELSE w

\* mdb_page_dirty
PageDirty(w, p, c) ==
  [w EXCEPT !.txns[Depth(w)].dirty = With(@, p, c), !.txns[Depth(w)].room = @ - 1]

\* mdb_page_alloc of one page: the lowest of me_pghead, after one more record if
\* it is empty (the last record is too recent), or else a new page.  The page is
\* put on the dirty list with content c; p is its number.
Fetched(w) ==
  IF w.pg.head = {} /\ w.pg.last + 1 < Len(meta.recs)
  THEN [head |-> meta.recs[w.pg.last + 1], last |-> w.pg.last + 1] ELSE w.pg
PageAlloc(w, c) ==
  LET g == Fetched(w)
      p == IF g.head # {} THEN Min(g.head) ELSE This(w).next
  IN IF This(w).room = 0 \/ (g.head = {} /\ p + 1 >= MaxPg) THEN [w |-> Fail(w), p |-> None]
     ELSE [w |-> PageDirty(IF g.head # {} THEN [w EXCEPT !.pg = [g EXCEPT !.head = @ \ {p}]]
                           ELSE [w EXCEPT !.txns[Depth(w)].next = p + 1], p, c),
           p |-> p]

\* The end of mdb_page_touch: the page at level i of the cursor is at mem now,
\* for the other cursors that had it too.
CursorsOn(w, i, mem) ==
  [w EXCEPT !.path[i] = mem,
            !.cur = [c \in DOMAIN w.cur |->
                       IF w.cur[c].path[i] = w.path[i] THEN [w.cur[c] EXCEPT !.path[i] = mem]
                       ELSE w.cur[c]]]

\* mdb_page_unspill: the page was spilled by this transaction or an ancestor.
Spilled(w, p) == \E k \in DOMAIN w.txns : p \in w.txns[k].spill
Unspill(w, i, p) ==
  IF This(w).room = 0 THEN Fail(w)
  ELSE CursorsOn([PageDirty(w, p, w.file[p]) EXCEPT !.txns[Depth(w)].spill = @ \ {p}],
                 i, Dirty(Depth(w), p))

\* A clean page of another transaction: it goes to a new page number, which the
\* root page or the MDB_db record takes over, and the old one is freed.
Renumber(w, i, p, l) ==
  LET a == PageAlloc(w, w.file[p])
  IN IF a.p = None THEN a.w
     ELSE CursorsOn(
            LET v == [a.w EXCEPT !.txns[Depth(w)].free = @ \cup {p}]
            IN IF i = 1 THEN [v EXCEPT !.txns[Depth(w)].root = a.p]
               ELSE [v EXCEPT !.txns[Depth(w)].dirty[w.path[1][2]][l] = a.p],
            i, Dirty(Depth(w), a.p))

\* A dirty page of an ancestor is copied into the list of the child, where it
\* hides the ancestor's copy.
CopyHere(w, i, mem) ==
  CursorsOn([w EXCEPT !.txns[Depth(w)].dirty =
               With(@, mem[2], Content(w.file, w.txns, mem))],
            i, Dirty(Depth(w), mem[2]))

\* mdb_page_touch of the page at level i of the path, the page of leaf l if i = 2.
PageTouch(w, i, l) ==
  LET mem == w.path[i]
      p   == mem[2]
  IN IF mem[1] = 0
     THEN IF Spilled(w, p) THEN Unspill(w, i, p) ELSE Renumber(w, i, p, l)
     ELSE IF Depth(w) = 1 \/ mem = Dirty(Depth(w), p) THEN w
     ELSE IF p \in DOMAIN This(w).dirty THEN Fail(w)   \* "bad cursor?"
     ELSE CopyHere(w, i, mem)

\* mdb_cursor_touch
CursorTouch(w, l) ==
  LET Lower(v) == PageTouch(v, 2, l) IN Then(PageTouch(w, 1, l), Lower)

\* mdb_page_spill: when the room is low, the pages with the highest numbers go to
\* the file, but not root pages, pages of cursors, or pages an ancestor spilled.
\* Mutant: these too.
Kept(w) ==
  {This(w).root} \cup {m[2] : m \in {m \in ToSet(w.path) \cup
                                           UNION {ToSet(c.path) : c \in Range(w.cur)} :
                                     m[1] = Depth(w)}}
AncestorSpilled(w) == UNION {w.txns[k].spill : k \in 1 .. Depth(w) - 1}
Highest(S, n) == {p \in S : Cardinality({q \in S : q > p}) < n}
SpillFrom(w, S) ==
  IF This(w).room > Need THEN w
  ELSE LET out == Highest(S, Batch)
           t   == This(w)
       IN [w EXCEPT !.txns[Depth(w)] =
                       [t EXCEPT !.dirty = Restrict(@, DOMAIN @ \ out),
                                 !.room = @ + Cardinality(out), !.spill = @ \cup out],
                    !.file = Over(Restrict(t.dirty, out), @)]
PageSpillTwice(w) == SpillFrom(w, DOMAIN This(w).dirty \ Kept(w))
PageSpill(w) == SpillFrom(w, DOMAIN This(w).dirty \ (Kept(w) \cup AncestorSpilled(w)))

\* Writing into pages that are in the list of the transaction.
SetLeaf(w, v) == [w EXCEPT !.txns[Depth(w)].dirty[w.path[2][2]] = v]
SetChild(w, l, p) == [w EXCEPT !.txns[Depth(w)].dirty[w.path[1][2]] = With(@, l, p)]

-----------------------------------------------------------------------------
\* The operations.  Only the last transaction of the stack is used.

Running == txns # <<>> /\ ~Last(txns).bad
Here == Len(txns)
Leaves == DOMAIN Page(file, txns, Root(txns))

\* "The user may not use mc until dst ends" (mdb_cursor_shadow).
Usable == {c \in DOMAIN cursors : cursors[c].own = Here}

Wrote(w) ==
  /\ \E v \in {w} : file' = v.file /\ txns' = v.txns /\ pg' = v.pg /\ cursors' = v.cur
  /\ UNCHANGED <<meta, commits>>

\* mdb_put into a leaf page, by a cursor that mdb_put or the program placed there.
PutAt(w, l, v) ==
  LET Store(x) == SetLeaf(x, v) IN Then(CursorTouch(PageSpill(w), l), Store)
Put(l, v) ==
  /\ Running /\ l \in Leaves
  /\ Wrote(PutAt(World(PathTo(file, txns, l)), l, v))
CursorPut(c, v) ==
  /\ Running /\ c \in Usable
  /\ Wrote(PutAt(World(cursors[c].path), cursors[c].leaf, v))

\* mdb_put splits leaf page m: leaf page l appears.
Grow(w, m, l, v) ==
  LET Add(x) == LET a == PageAlloc(x, v) IN IF a.p = None THEN a.w ELSE SetChild(a.w, l, a.p)
  IN Then(CursorTouch(PageSpill(w), m), Add)
PutSplits(m, l, v) ==
  /\ Running /\ m \in Leaves /\ l \in Leaf \ Leaves
  /\ Wrote(Grow(World(PathTo(file, txns, m)), m, l, v))

\* mdb_del empties leaf page l, which mdb_page_merge merges into leaf page m and
\* frees.  (Cursors on the page go to other leaves: BTree.)
Unlink(w, l) ==
  LET p == w.txns[Depth(w)].dirty[w.path[1][2]][l]
  IN [w EXCEPT !.txns[Depth(w)].dirty[w.path[1][2]] = Restrict(@, DOMAIN @ \ {l}),
               !.txns[Depth(w)].free = @ \cup {p}]
MergeInto(w, l, m) ==
  LET Into(x) == PageTouch([x EXCEPT !.path[2] = Where(x.txns, Page(x.file, x.txns, This(x).root)[m])], 2, m)
      Drop(x) == Unlink(x, l)
  IN Then(Then(CursorTouch(PageSpill(w), l), Into), Drop)
DelMerges(l, m) ==
  /\ Running /\ {l, m} \subseteq Leaves /\ l # m
  /\ \A c \in DOMAIN cursors : cursors[c].leaf # l
  /\ Wrote(MergeInto(World(PathTo(file, txns, l)), l, m))

\* mdb_cursor_open and a move of the cursor to leaf l; a later move.
CursorOpen(c, l) ==
  /\ Running /\ l \in Leaves /\ c \notin DOMAIN cursors
  /\ cursors' = With(cursors, c, [own |-> Here, leaf |-> l,
                                   path |-> PathTo(file, txns, l), backup |-> <<>>])
  /\ UNCHANGED <<file, meta, txns, pg, commits>>
CursorMove(c, l) ==
  /\ Running /\ l \in Leaves /\ c \in Usable
  /\ cursors' = [cursors EXCEPT ![c].leaf = l, ![c].path = PathTo(file, txns, l)]
  /\ UNCHANGED <<file, meta, txns, pg, commits>>

-----------------------------------------------------------------------------
\* Begin and end.

\* mdb_txn_begin without a parent
Begin ==
  /\ txns = <<>> /\ commits < MaxCommits
  /\ txns' = << [root |-> meta.root, dirty |-> <<>>, spill |-> {}, free |-> {},
                 next |-> meta.next, room |-> UmMax, bad |-> FALSE, saved |-> NoPages] >>
  /\ UNCHANGED <<file, meta, pg, cursors, commits>>

\* mdb_cursor_shadow: the cursors of the parent follow the child, and a copy of
\* each is kept.
Shadowed == [c \in DOMAIN cursors |->
               [cursors[c] EXCEPT !.backup = Append(@, cursors[c].path)]]

\* mdb_txn_begin with a parent
BeginNested ==
  /\ Running /\ Here < MaxDepth
  /\ txns' = Append(txns, [Last(txns) EXCEPT !.dirty = <<>>, !.spill = {}, !.free = {},
                                             !.saved = pg])
  /\ cursors' = Shadowed
  /\ UNCHANGED <<file, meta, pg, commits>>

\* mdb_cursors_close without merge, down to transaction k: its cursors are closed,
\* its ancestors' are what they were when it began.
\* Mutant: they stay where the child left them.
Older(k) == {c \in DOMAIN cursors : cursors[c].own < k}
LeftBy(k) ==
  [c \in Older(k) |-> [cursors[c] EXCEPT !.backup = SubSeq(@, 1, k - 1 - cursors[c].own)]]
Reverted(k) ==
  [c \in Older(k) |->
     [cursors[c] EXCEPT !.path = cursors[c].backup[k - cursors[c].own],
                        !.backup = SubSeq(@, 1, k - 1 - cursors[c].own)]]

\* The allocator is what it was when transaction k began.
\* Mutant: the records a child has read stay read.
KeptState(k) == IF k = 1 THEN NoPages ELSE pg
SavedState(k) == txns[k].saved

\* mdb_txn_abort of transaction k: its children first.
AbortTxn(k) ==
  /\ pg' = SavedState(k)
  /\ cursors' = Reverted(k)
  /\ UNCHANGED <<file, meta, commits>>
Abort(k) ==
  /\ k \in DOMAIN txns
  /\ txns' = SubSeq(txns, 1, k - 1)
  /\ AbortTxn(k)

\* mdb_txn_commit of transaction k when the last one has MDB_TXN_ERROR: k and its
\* children are aborted.  If it has no children its parent gets the flag.
CommitFails(k) ==
  /\ k \in DOMAIN txns /\ Last(txns).bad
  /\ txns' = IF k > 1 /\ k = Here THEN [SubSeq(txns, 1, k - 1) EXCEPT ![k - 1].bad = TRUE]
             ELSE SubSeq(txns, 1, k - 1)
  /\ AbortTxn(k)

\* mdb_txn_commit of a nested transaction.  (A parent's commit first commits its
\* child: that is one commit after another here.)
Parent == txns[Here - 1]
Child == Last(txns)

\* The parent's spill list loses what the child has dirty, and takes over what
\* the child spilled.  (Its dirty list keeps its own copy of the latter.)
Spills == (Parent.spill \ DOMAIN Child.dirty) \cup Child.spill

\* The length of the merged dirty list, as it is computed: counted, or for a
\* child of the top-level transaction taken from the room.
Length ==
  IF Here > 2 THEN Cardinality(DOMAIN Parent.dirty \cup DOMAIN Child.dirty)
              ELSE UmMax - Child.room
\* mdb_tassert(txn, i == x)
ListsFit == Length = Cardinality(DOMAIN Parent.dirty \cup DOMAIN Child.dirty)

\* The copies of the child are the parent's now; those they replace are freed.
Owned(mem) ==
  IF mem[1] = Here THEN Dirty(Here - 1, mem[2])
  ELSE IF mem[1] = Here - 1 /\ mem[2] \in DOMAIN Child.dirty THEN Freed(mem[2])
  ELSE mem

CommitNested ==
  /\ Here > 1 /\ ~Child.bad
  /\ ListsFit
  /\ txns' = [SubSeq(txns, 1, Here - 1) EXCEPT ![Here - 1] =
                [Child EXCEPT !.dirty = Over(Child.dirty, Parent.dirty), !.spill = Spills,
                              !.free = Parent.free \cup Child.free, !.saved = Parent.saved]]
  /\ cursors' = [c \in Older(Here) |->
                   [cursors[c] EXCEPT !.path = [i \in {1, 2} |-> Owned(@[i])], !.backup = Front(@)]]
  /\ UNCHANGED <<file, meta, pg, commits>>

\* The length is too small: the loop that merges the lists overwrites entries it
\* has not read, frees what it finds there, and its assertion fails.  The process
\* is gone, with all its transactions.
MergeAborts ==
  /\ Here > 1 /\ ~Child.bad
  /\ ~ListsFit
  /\ txns' = <<>> /\ pg' = NoPages /\ cursors' = <<>>
  /\ UNCHANGED <<file, meta, commits>>

\* mdb_txn_commit of the top-level transaction: mdb_freelist_save puts back what
\* is left of the records read and adds one of the pages freed; then the dirty
\* pages are written, and the meta page.
Commit ==
  /\ Here = 1 /\ ~Child.bad
  /\ IF Child.dirty = <<>> /\ Child.spill = {} THEN UNCHANGED <<file, meta, commits>>
     ELSE /\ file' = Over(Child.dirty, file)
          /\ meta' = [root |-> Child.root, next |-> Child.next,
                      recs |-> (IF pg.head = {} THEN <<>> ELSE <<pg.head>>) \o
                               SubSeq(meta.recs, pg.last + 1, Len(meta.recs)) \o <<Child.free>>]
          /\ commits' = commits + 1
  /\ txns' = <<>> /\ pg' = NoPages /\ cursors' = <<>>

-----------------------------------------------------------------------------
\* A root page over all leaf pages, and free pages that earlier transactions left.
Init ==
  LET end == FirstPg + Cardinality(Leaf) + 1
  IN /\ \E v \in Value, at \in [Leaf -> FirstPg + 1 .. end - 1] :
          /\ IsInjective(at)
          /\ file = [p \in FirstPg .. MaxPg - 1 |-> IF p = FirstPg THEN at ELSE v]
     /\ meta = [root |-> FirstPg, next |-> end + Records,
                recs |-> [i \in 1 .. Records |-> {end + i - 1}]]
     /\ txns = <<>> /\ pg = NoPages /\ cursors = <<>> /\ commits = 0

Next ==
  \/ Begin \/ BeginNested \/ CommitNested \/ MergeAborts \/ Commit
  \/ \E k \in 1 .. MaxDepth : Abort(k) \/ CommitFails(k)
  \/ \E l \in Leaf, v \in Value : Put(l, v)
  \/ \E l, m \in Leaf : DelMerges(l, m) \/ \E v \in Value : PutSplits(m, l, v)
  \/ \E c \in Cursor, l \in Leaf : CursorOpen(c, l) \/ CursorMove(c, l)
  \/ \E c \in Cursor, v \in Value : CursorPut(c, v)

Spec == Init /\ [][Next]_vars

-----------------------------------------------------------------------------
\* Properties.  The stack down to transaction k is what is left if the children
\* of k abort; k = 0 is the committed database.

Stacks == {SubSeq(txns, 1, k) : k \in 0 .. Here}
PgState(k) == IF k = 0 THEN NoPages ELSE IF k = Here THEN pg ELSE txns[k + 1].saved
Tree(s) == UNION {{Root(s)} \cup Range(r) : r \in {Page(file, s, Root(s))}}

\* Whatever is spilled, freed, merged or aborted, every transaction of the stack
\* has every page below its mt_next_pgno in exactly one place: in its tree, in
\* its or an ancestor's list of freed pages, in the me_pghead it works with or
\* will get back, or in a record not read yet.
PagesAtEveryLevel ==
  \A s \in Stacks :
    LET g     == PgState(Len(s))
        lists == << Tree(s), g.head >> \o [i \in DOMAIN s |-> s[i].free] \o
                 SubSeq(meta.recs, g.last + 1, Len(meta.recs))
    IN /\ UNION ToSet(lists) = FirstPg .. NextPg(s) - 1
       /\ \A i, j \in DOMAIN lists : i # j => lists[i] \cap lists[j] = {}

\* The room of each transaction is that of the array less the dirty pages it
\* sees, its ancestors' included if no newer copy hides them (mt_dirty_room).
Visible(s) == {p \in UNION {DOMAIN s[k].dirty : k \in DOMAIN s} : Where(s, p)[1] > 0}
RoomRight ==
  \A s \in Stacks \ {<<>>} :
    Last(s).room >= 0 /\ Last(s).room = UmMax - Cardinality(Visible(s))

\* A cursor looks at the memory where its pages are found, after any copies,
\* spills, commits and aborts; so does each copy that an abort would restore.
CursorsCurrent ==
  \A c \in DOMAIN cursors :
    /\ cursors[c].path = PathTo(file, txns, cursors[c].leaf)
    /\ \A i \in DOMAIN cursors[c].backup :
         cursors[c].backup[i] =
           PathTo(file, SubSeq(txns, 1, cursors[c].own + i - 1), cursors[c].leaf)

\* Nested transactions are a stack of drafts: a child's changes are invisible to
\* its parent until its commit, gone after its abort, and spilling pages to the
\* shared file shows in no version.
Items(s, r) == {<<l, Page(file, s, r[l])>> : l \in DOMAIN r}
Read(s) == UNION {Items(s, r) : r \in {Page(file, s, Root(s))}}
Reads == [k \in DOMAIN txns |-> UNION {Read(s) : s \in {SubSeq(txns, 1, k)}}]
Drafts == INSTANCE DraftStack WITH stored <- Read(<<>>), drafts <- SubSeq(Reads, 1, Here)
DraftSpec == Drafts!Spec

\* Bound: a stack of three or more in which a transaction has spilled a page that
\* it or an ancestor has dirty is not followed.  Its commit leaves the parent the
\* old copy in its dirty list and the page in its spill list; RoomRight and DraftSpec
\* fail from there.
FewStaleCopies ==
  Here > 2 => \A j \in DOMAIN txns : \A k \in j .. Here : DOMAIN txns[j].dirty \cap txns[k].spill = {}
============================================================================
