-------------------------------- MODULE BTree --------------------------------
(***************************************************************************)
(* The B+tree of one database inside one write transaction, and the cursors *)
(* on it: mdb_put, mdb_get, mdb_del, mdb_cursor_get, mdb_cursor_put and     *)
(* mdb_cursor_del of liblmdb/mdb.c, with the splits, moves and merges of    *)
(* pages under them.  MVCC models what becomes of the pages afterwards.     *)
(*                                                                          *)
(* A world w is what those functions share: the pages pg, the MDB_db record *)
(* db, the cursors cur (the open ones, and those the functions keep on      *)
(* their stack), the tracked cursors trk (mt_cursors), the next page number *)
(* next, the pages freed (gone), the answer rc and out, MDB_TXN_ERROR (bad).*)
(* Every function below takes a world and gives the world it leaves.        *)
(*                                                                          *)
(* A cursor is its stack: pg[l] and ki[l] for the levels 1..mc_snum, ki     *)
(* counting from 0, and flags.  Nodes are [key, ref, ov]: a leaf node has a *)
(* data item in ref, and its overflow page in ov if the data is there       *)
(* (F_BIGDATA); a branch node has its child in ref.  NoKey is the empty key *)
(* of the first node of a branch page.  Sizes are in units, the pointer in  *)
(* mp_ptrs counted with the node header.                                    *)
(*                                                                          *)
(* Not here: DUPSORT databases (sub-pages, LEAF2 pages, xcursors), spilled  *)
(* pages, failed allocations.                                               *)
(***************************************************************************)
EXTENDS Integers, FiniteSets, SequencesExt, TLC

CONSTANTS
  Key,          \* the keys, positive integers in the order of md_cmp
  Data,         \* the data items
  KeySize,      \* [Key -> Nat]
  DataSize,     \* [Data -> Nat]
  PageMax,      \* room for nodes on a page
  Cursor,       \* the cursors a program has open: positive integers
  Loads,        \* sequences of <<key, data>>: what the database was filled with,
                \* and emptied of where data is NoData
  PutFlags,     \* "none", "nooverwrite", "append": the flags of mdb_put used
  Moves,        \* "first", "last", "next", "prev", "set", "range", "current": the
                \* operations of mdb_cursor_get used
  CursorFlags,  \* "none", "current": the flags of mdb_cursor_put used
  CursorWrites, \* the cursors that write: mdb_cursor_put and mdb_cursor_del
  Trust,        \* BOOLEAN: they do so after other writes too
  MaxCalls      \* bound: calls after the database was filled

NoKey == 0
NoPage == 0
NoData == 0
Own == 0        \* the cursor on the stack of mdb_get, mdb_put and mdb_del
Lost == -1      \* the root page that a cursor is left with when the tree is emptied
Beyond == <<-1, -1>>   \* what is read past the nodes of a page

ASSUME BTreeAssumption ==
  /\ Key \subseteq Nat \ {NoKey} /\ Cursor \subseteq Nat \ {Own}
  /\ KeySize \in [Key -> Nat] /\ DataSize \in [Data -> Nat] /\ PageMax \in Nat

VARIABLES pages,     \* the pages of the database, by number
          db,        \* MDB_db: root, depth, branch, leaf, overflow pages, entries
          cursors,   \* the open cursors
          bad,       \* MDB_TXN_ERROR
          contents,  \* history: the items in the leaves
          res,       \* history: the last call and its answer
          seen,      \* history: the key a cursor was left on
          stale,     \* history: the cursors that something was written under
          wrote,     \* history: the cursors that were written with
          calls
vars == <<pages, db, cursors, bad, contents, res, seen, stale, wrote, calls>>

-----------------------------------------------------------------------------
\* Pages and nodes.

Header == 1
Pointer == 1
KSize(k) == IF k = NoKey THEN 0 ELSE KeySize[k]
Big(k, d) == 2 * (Header + KSize(k) + DataSize[d]) > PageMax
NodeSize(kind, n) ==
  Header + KSize(n.key) +
    (IF kind = "branch" THEN 0
     ELSE IF n.ov # NoPage \/ Big(n.key, n.ref) THEN Pointer ELSE DataSize[n.ref])
RECURSIVE Sizes(_, _)
Sizes(kind, nodes) == IF nodes = <<>> THEN 0 ELSE NodeSize(kind, Head(nodes)) + Sizes(kind, Tail(nodes))
SizeLeft(page) == PageMax - Sizes(page.kind, page.nodes)
Underfull(page) == 4 * (PageMax - SizeLeft(page)) < PageMax
MinKeys(page) == IF page.kind = "branch" THEN 2 ELSE 1
Node(k, r) == [key |-> k, ref |-> r, ov |-> NoPage]

NumKeys(w, p) == Len(w.pg[p].nodes)
Answer(w, rc, out) == [w EXCEPT !.rc = rc, !.out = out]
Ok(w) == Answer(w, "ok", <<>>)
\* "if (rc) return rc": F goes on unless w failed.  (NodeAdd, SetInPage,
\* UpdateSeparator and Rebalance look for themselves.)
Then(w, F(_)) == IF w.rc = "ok" THEN F(w) ELSE w

\* mdb_page_new: an empty dirty page, number w.next.
PageNew(w, kind) ==
  [w EXCEPT !.pg = @ @@ (w.next :> [kind |-> kind, dirty |-> TRUE, nodes |-> <<>>]),
            !.next = @ + 1, !.db[kind] = @ + 1]

\* Append to mt_free_pgs: the page is no part of the database any more, but what
\* it held can still be read in this call.
PageDrop(w, p) == [w EXCEPT !.gone = @ \cup {p}]

NodePlace(w, p, i, n) == Ok([w EXCEPT !.pg[p].nodes = InsertAt(@, i + 1, n)])

\* mdb_node_add: big data goes to an overflow page of its own.
NodeAdd(w, p, i, n) ==
  IF w.rc # "ok" THEN w
  ELSE IF SizeLeft(w.pg[p]) < NodeSize(w.pg[p].kind, n) THEN [w EXCEPT !.rc = "full", !.bad = TRUE]
  ELSE IF w.pg[p].kind = "leaf" /\ n.ov = NoPage /\ Big(n.key, n.ref)
  THEN NodePlace(PageNew(w, "overflow"), p, i, [n EXCEPT !.ov = w.next])
  ELSE NodePlace(w, p, i, n)

NodeDel(w, p, i) == [w EXCEPT !.pg[p].nodes = RemoveAt(@, i + 1)]

\* Binary search: the smallest entry not below the key, from 1 on a branch page.
NodeSearch(page, key) ==
  LET n == Len(page.nodes)
      RECURSIVE Look(_, _, _, _)
      Look(low, high, i, rc) ==
        IF low > high
        THEN [i |-> IF rc > 0 THEN i + 1 ELSE i, exact |-> rc = 0 /\ n > 0]
        ELSE LET m == (low + high) \div 2
                 d == key - page.nodes[m + 1].key
             IN CASE d = 0 -> [i |-> m, exact |-> TRUE]
                  [] d > 0 -> Look(m + 1, high, m, 1)
                  [] d < 0 -> Look(low, m - 1, m, -1)
  IN Look(IF page.kind = "leaf" THEN 0 ELSE 1, n - 1, 0, 0)

-----------------------------------------------------------------------------
\* Cursors: the stack.

NoCursor == [pg |-> <<>>, ki |-> <<>>, fl |-> {}]
Depth(w, c) == Len(w.cur[c].pg)
TopPage(w, c) == Last(w.cur[c].pg)
TopKi(w, c) == Last(w.cur[c].ki)
SetKi(w, c, i) == [w EXCEPT !.cur[c].ki[Depth(w, c)] = i]
SetFlag(w, c, f) == [w EXCEPT !.cur[c].fl = @ \cup {f}]
ClearFlags(w, c, F) == [w EXCEPT !.cur[c].fl = @ \ F]
Has(w, c, f) == f \in w.cur[c].fl
Pop(w, c) == [w EXCEPT !.cur[c].pg = Front(@), !.cur[c].ki = Front(@)]
Push(w, c, p, i) == [w EXCEPT !.cur[c].pg = Append(@, p), !.cur[c].ki = Append(@, i)]
\* A cursor on the stack of a function, from value x.
NewCursor(w) == (CHOOSE m \in DOMAIN w.cur : \A c \in DOMAIN w.cur : m <= c) - 1
Keep(w, c, x) == [w EXCEPT !.cur = (c :> x) @@ @]
\* The loops "Adjust other cursors": F(x) for each tracked cursor but c with P.
Adjust(w, c, P(_), F(_)) ==
  [w EXCEPT !.cur = [m \in {t \in w.trk \ {c} : P(@[t])} |-> F(@[m])] @@ @]

\* mdb_page_touch: a clean page is copied; its parent and the cursors follow.
\* Mutant: the other cursors do not.
PageTouchAlone(w, c, l) ==
  LET x  == w.cur[c]
      mp == x.pg[l]
      np == w.next
      copied == [w EXCEPT !.pg = @ @@ (np :> [@[mp] EXCEPT !.dirty = TRUE]), !.next = @ + 1]
      linked == IF l = 1 THEN [copied EXCEPT !.db.root = np]
                ELSE [copied EXCEPT !.pg[x.pg[l - 1]].nodes[x.ki[l - 1] + 1].ref = np]
  IN IF w.pg[mp].dirty THEN w ELSE PageDrop([linked EXCEPT !.cur[c].pg[l] = np], mp)
PageTouch(w, c, l) ==
  LET x  == w.cur[c]
      mp == x.pg[l]
      np == w.next
      copied == [w EXCEPT !.pg = @ @@ (np :> [@[mp] EXCEPT !.dirty = TRUE]), !.next = @ + 1]
      linked == IF l = 1 THEN [copied EXCEPT !.db.root = np]
                ELSE [copied EXCEPT !.pg[x.pg[l - 1]].nodes[x.ki[l - 1] + 1].ref = np]
  IN IF w.pg[mp].dirty THEN w
     ELSE PageDrop(Adjust([linked EXCEPT !.cur[c].pg[l] = np], c,
                     LAMBDA m : Len(m.pg) >= Len(x.pg) /\ m.pg[l] = mp,
                     LAMBDA m : [m EXCEPT !.pg[l] = np]), mp)

CursorTouch(w, c) == FoldLeft(LAMBDA v, l : PageTouch(v, c, l), w, [l \in 1..Depth(w, c) |-> l])

\* Mutant: the child after the separator below key, not under it.
TowardNext(page, how, key) ==
  CASE how = "first" -> 0
    [] how = "last"  -> Len(page.nodes) - 1
    [] how = "key"   -> LET s == NodeSearch(page, key) IN IF s.i < Len(page.nodes) THEN s.i ELSE s.i - 1
\* mdb_page_search_root, mdb_page_search_lowest: down to a leaf, along the
\* first or the last nodes or towards key.
Toward(page, how, key) ==
  CASE how = "first" -> 0
    [] how = "last"  -> Len(page.nodes) - 1
    [] how = "key"   -> LET s == NodeSearch(page, key)
                        IN IF s.exact THEN s.i ELSE s.i - 1

RECURSIVE Descend(_, _, _, _)
Descend(w, c, how, key) ==
  LET page == w.pg[TopPage(w, c)]
      Into(i) == Push(SetKi(w, c, i), c, page.nodes[i + 1].ref, 0)
  IN IF page.kind = "leaf" THEN Ok(ClearFlags(SetFlag(w, c, "init"), c, {"eof"}))
     ELSE Descend(Into(Toward(page, how, key)), c, how, key)

PageSearch(w, c, how, key) ==
  IF w.db.root = NoPage THEN Answer(w, "notfound", <<>>)
  ELSE Descend([w EXCEPT !.cur[c].pg = <<w.db.root>>, !.cur[c].ki = <<0>>], c, how, key)

RECURSIVE LowestKey(_, _)
LowestKey(w, p) ==
  IF w.pg[p].kind = "leaf" THEN w.pg[p].nodes[1].key ELSE LowestKey(w, w.pg[p].nodes[1].ref)

\* mdb_cursor_sibling: one node on in the parent, or in a sibling of it; the
\* stack stays as it was if there is none ("undo cursor_pop").  A cursor past the
\* nodes of the parent reads a page number that is none: it is not initialised
\* any more, and the stack stays popped.
RECURSIVE Sibling(_, _, _)
Sibling(w, c, right) ==
  LET Beside(up, i) ==
        IF (IF right THEN i + 1 >= NumKeys(up, TopPage(up, c)) ELSE i = 0)
        THEN Sibling(up, c, right)
        ELSE Ok(SetKi(up, c, IF right THEN i + 1 ELSE i - 1))
      Into(v, p) == Push(v, c, p, IF right THEN 0 ELSE NumKeys(v, p) - 1)
      UnPop(v) == Push(v, c, w.cur[c].pg[Depth(v, c) + 1], w.cur[c].ki[Depth(v, c) + 1])
      Below(v) == IF v.rc # "ok" THEN UnPop(v)
                  ELSE IF TopKi(v, c) >= NumKeys(v, TopPage(v, c))
                  THEN Answer(ClearFlags(v, c, {"init", "eof"}), "pagenotfound", <<>>)
                  ELSE Into(v, v.pg[TopPage(v, c)].nodes[TopKi(v, c) + 1].ref)
  IN IF Depth(w, c) < 2 THEN Answer(w, "notfound", <<>>)
     ELSE Below(Beside(Pop(w, c), w.cur[c].ki[Depth(w, c) - 1]))

-----------------------------------------------------------------------------
\* Cursors: positioning.

Item(w, c) ==
  LET nodes == w.pg[TopPage(w, c)].nodes
      i     == TopKi(w, c) + 1
  IN IF i \in DOMAIN nodes THEN <<nodes[i].key, nodes[i].ref>> ELSE Beyond
Found(w, c) == Answer(w, "ok", Item(w, c))
Placed(w, c) == Found(ClearFlags(SetFlag(w, c, "init"), c, {"eof"}), c)

OnePage(w, c) == Has(w, c, "init") /\ Depth(w, c) = 1

CursorFirst(w, c) ==
  Then(IF OnePage(w, c) THEN Ok(w) ELSE PageSearch(w, c, "first", NoKey),
       LAMBDA v : Placed(SetKi(v, c, 0), c))

\* With C_EOF the search is skipped, whatever happened to the page since: a cursor
\* that lost its root page is set on it again, and reads past its nodes.
AtLast(w, c) == SetKi(w, c, NumKeys(w, TopPage(w, c)) - 1)
CursorLast(w, c) ==
  Then(IF Has(w, c, "eof") \/ OnePage(w, c) THEN Ok(w) ELSE PageSearch(w, c, "last", NoKey),
       LAMBDA v : Found(SetFlag(SetFlag(AtLast(v, c), c, "init"), c, "eof"), c))

\* C_DEL: the item the cursor was on is gone, and the next one is in its place.
CursorNext(w, c) ==
  LET End(v) == IF v.rc = "ok" THEN Found(v, c) ELSE SetFlag(v, c, "eof")
  IN CASE Has(w, c, "eof") -> Answer(w, "notfound", <<>>)
       [] ~Has(w, c, "eof") /\ Has(w, c, "del") -> Found(w, c)
       [] OTHER -> End(IF TopKi(w, c) + 1 >= NumKeys(w, TopPage(w, c)) THEN Sibling(w, c, TRUE)
                       ELSE Ok(SetKi(w, c, TopKi(w, c) + 1)))

\* Mutant: C_EOF stays.
CursorPrevAtEnd(w, c) ==
  Then(IF TopKi(w, c) = 0 THEN Sibling(w, c, FALSE) ELSE Ok(SetKi(w, c, TopKi(w, c) - 1)),
       LAMBDA v : Found(v, c))
CursorPrev(w, c) ==
  Then(IF TopKi(w, c) = 0 THEN Sibling(w, c, FALSE) ELSE Ok(SetKi(w, c, TopKi(w, c) - 1)),
       LAMBDA v : Found(ClearFlags(v, c, {"eof"}), c))

\* set2 of mdb_cursor_set: search the page, and take the next page if the key
\* is above all of it.
SetAt(w, c, s, range) ==
  IF ~range /\ ~s.exact THEN Answer(w, "notfound", <<>>)
  ELSE Then(IF s.i >= NumKeys(w, TopPage(w, c)) THEN Sibling(w, c, TRUE) ELSE Ok(w),
            LAMBDA v : Placed(v, c))
SetInPage(w, c, key, range) ==
  LET s == NodeSearch(w.pg[TopPage(w, c)], key)
  IN IF w.rc # "ok" THEN w ELSE SetAt(SetKi(w, c, s.i), c, s, range)
SetBySearch(w, c, key, range) == SetInPage(PageSearch(w, c, "key", key), c, key, range)

\* mdb_cursor_set (MDB_SET, MDB_SET_RANGE): a cursor that is on the right page
\* does not search for it.
CursorSet(w, c, key, range) ==
  LET nodes == w.pg[TopPage(w, c)].nodes
      n     == Len(nodes)
      Here(i) == Placed(SetKi(w, c, i), c)
      NoRight == \A l \in 1..Depth(w, c) - 1 :
                   w.cur[c].ki[l] >= NumKeys(w, w.cur[c].pg[l]) - 1
  IN IF ~Has(w, c, "init") THEN SetBySearch(w, c, key, range)
     ELSE IF n = 0 THEN Answer(SetKi(w, c, 0), "notfound", <<>>)
     ELSE IF key = nodes[1].key THEN Here(0)
     ELSE IF n > 1 /\ key = nodes[n].key THEN Here(n - 1)
     ELSE IF n > 1 /\ nodes[1].key < key /\ key < nodes[n].key
     THEN IF TopKi(w, c) < n /\ nodes[TopKi(w, c) + 1].key = key THEN Placed(w, c)
          ELSE SetInPage(w, c, key, range)
     ELSE IF key > nodes[1].key /\ NoRight
     THEN Answer(SetKi(w, c, n), "notfound", <<>>)
     ELSE IF Depth(w, c) = 1
     THEN IF range THEN Here(0) ELSE Answer(SetKi(w, c, 0), "notfound", <<>>)
     ELSE SetBySearch(w, c, key, range)

\* MDB_GET_CURRENT.
CursorCurrent(w, c) ==
  CASE ~Has(w, c, "init") -> Answer(w, "einval", <<>>)
    [] Has(w, c, "init") /\ Item(w, c) = Beyond ->
         Answer(SetKi(w, c, NumKeys(w, TopPage(w, c))), "notfound", <<>>)
    [] OTHER -> Found(w, c)

CursorGet(w, c, op, key) ==
  LET init == Has(w, c, "init")
      \* MDB_PREV of a new cursor: from behind the last item
      FromEnd(v) == CursorPrev(SetKi(SetFlag(v, c, "init"), c, TopKi(v, c) + 1), c)
      Moved == CASE op = "current" -> CursorCurrent(w, c)
                 [] op \in {"set", "range"} -> CursorSet(w, c, key, op = "range")
                 [] op = "first" \/ (op = "next" /\ ~init) -> CursorFirst(w, c)
                 [] op = "last"  -> CursorLast(w, c)
                 [] op = "next" /\ init -> CursorNext(w, c)
                 [] op = "prev" /\ init -> CursorPrev(w, c)
                 [] op = "prev" /\ ~init -> Then(CursorLast(w, c), FromEnd)
  IN ClearFlags(Moved, c, {"del"})

-----------------------------------------------------------------------------
\* Splitting a page.

\* The split point of mdb_page_split: half of the keys, moved so that neither
\* page overflows: from the left if the new node goes there or is the last one,
\* from the right otherwise.  (Pages of fewer than 20 keys; on fuller pages
\* with small new nodes the code keeps the half.)  all: the nodes and the new
\* one, at newindx.
SplitPoint(kind, all, newindx) ==
  LET nkeys == Len(all) - 1
      half  == (nkeys + 1) \div 2
      Over(a, b) == Sizes(kind, SubSeq(all, a + 1, b + 1)) > PageMax
      stop  == IF newindx >= nkeys THEN nkeys - 1 ELSE half + 1
      Lowest(S) == CHOOSE i \in S : \A j \in S : i <= j
      Highest(S) == CHOOSE i \in S : \A j \in S : i >= j
  IN IF newindx <= half \/ newindx >= nkeys
     THEN Lowest({i \in 0..stop : Over(0, i)} \cup {stop})
     ELSE Highest({i \in half..nkeys : Over(i, nkeys)} \cup {half}) + 1

\* A root page gets a parent, whose first node it is.
RootUp(w, c) ==
  NodeAdd(PageNew([w EXCEPT !.cur[c].pg = <<w.next>> \o @, !.cur[c].ki = <<0>> \o @,
                            !.db.root = w.next, !.db.depth = @ + 1], "branch"),
          w.next, 0, Node(NoKey, TopPage(w, c)))

\* "Right page might now have changed parent": c follows m at the levels up to
\* ptop if its page there no longer has the node it is at.
FollowParent(w, c, m, ptop) ==
  LET x == w.cur[c]
      y == w.cur[m]
  IN IF y.pg[ptop] # x.pg[ptop] /\ x.ki[ptop] >= NumKeys(w, x.pg[ptop])
     THEN [w EXCEPT !.cur[c].pg = SubSeq(y.pg, 1, ptop) \o SubSeq(@, ptop + 1, Len(@)),
                    !.cur[c].ki = SubSeq(y.ki, 1, ptop - 1) \o <<y.ki[ptop] - 1>>
                                    \o SubSeq(@, ptop + 1, Len(@))]
     ELSE w

\* What mdb_page_split keeps in its variables.  all: the nodes of the page with
\* the new one among them; mn: a copy of the cursor, on the right page.
Splitting(w, c, new, append, replace) ==
  LET mp  == TopPage(w, c)
      at  == TopKi(w, c)
      all == InsertAt(w.pg[mp].nodes, at + 1, new)
      kind == w.pg[mp].kind
  IN [mp |-> mp, rp |-> w.next, newindx |-> at, all |-> all, new |-> new, kind |-> kind,
      split |-> IF append THEN at ELSE SplitPoint(kind, all, at), mn |-> NewCursor(w),
      newroot |-> Depth(w, c) < 2, append |-> append, replace |-> replace]

\* The separator: the first key of the right page.
Separator(s) == Node(s.all[s.split + 1].key, s.rp)

\* The right page, a new root if need be, and mn.
RightPage(w, c, s) ==
  LET top == Depth(w, c)
      mn(x) == [x EXCEPT !.pg[Len(x.pg)] = s.rp, !.ki[Len(x.pg) - 1] = @ + 1,
                         !.ki[Len(x.pg)] = IF s.append THEN 0 ELSE @]
      Copied(v) == Keep(v, s.mn, mn(v.cur[c]))
      Started(v) == Copied(SetFlag(IF s.newroot THEN RootUp(v, c) ELSE v, c, "splitting"))
  IN Started(PageNew(w, s.kind))

\* The nodes from the split point on go to the right page.
Fill(w, p, s, nodes) ==
  LET first == IF s.kind = "branch" THEN [nodes EXCEPT ![1].key = NoKey] ELSE nodes
  IN FoldLeft(LAMBDA v, n : NodeAdd(v, p, NumKeys(v, p), n), [w EXCEPT !.pg[p].nodes = <<>>], first)

MoveNodes(w, c, s) ==
  LET top == Depth(w, c)
      OnRight(v) == [v EXCEPT !.cur[c].pg[top] = s.rp, !.cur[c].ki[top] = s.newindx - s.split,
                              !.cur[c].ki[top - 1] = @ + 1]
      Both == Fill(Fill(w, s.rp, s, SubSeq(s.all, s.split + 1, Len(s.all))),
                   s.mp, s, SubSeq(s.all, 1, s.split))
  IN IF s.append
     THEN NodeAdd([w EXCEPT !.cur[c].pg[top] = s.rp,
                            !.cur[c].ki = SubSeq(w.cur[s.mn].ki, 1, top - 1) \o <<0>>],
                  s.rp, 0, s.new)
     ELSE Then(Both, LAMBDA v : IF s.newindx < s.split THEN v
                                ELSE FollowParent(OnRight(v), c, s.mn, top - 1))

\* The other cursors.  With a new root all of them get it as their first page;
\* those behind the new node move up, those on the moved nodes go to the right
\* page, those on later pages of the parent move up there, unless the parent
\* was split too.
SplitAdjust(w, c, s, didsplit) ==
  LET x     == w.cur[c]
      top   == Len(x.pg)
      fixup == NumKeys(w, s.mp)
      Rooted(m) == IF s.newroot
                   THEN [m EXCEPT !.pg = <<x.pg[1]>> \o @,
                                  !.ki = <<IF @[1] >= s.split THEN 1 ELSE 0>> \o @]
                   ELSE m
      Shift(m) == IF m.ki[top] >= s.newindx /\ ~s.replace THEN [m EXCEPT !.ki[top] = @ + 1] ELSE m
      Right(m) == IF m.ki[top] >= fixup
                  THEN [m EXCEPT !.pg[top] = s.rp, !.ki[top] = @ - fixup,
                                 !.ki[top - 1] = w.cur[s.mn].ki[top - 1]]
                  ELSE m
      Moved(m) == IF Len(m.pg) >= top /\ m.pg[top] = s.mp THEN Right(Shift(m))
                  ELSE IF ~didsplit /\ Len(m.pg) >= top - 1
                          /\ m.pg[top - 1] = x.pg[top - 1] /\ m.ki[top - 1] >= x.ki[top - 1]
                  THEN [m EXCEPT !.ki[top - 1] = @ + 1]
                  ELSE m
  IN Adjust(w, c, LAMBDA m : "init" \in m.fl /\ "splitting" \notin m.fl,
               LAMBDA m : Moved(Rooted(m)))

\* The separator goes to the parent, which may have to be split for it; c then
\* has its page there looked up again.  ("root split?": the stack of c grows by
\* the new root, as a copy of the old one.)
RECURSIVE PageSplit(_, _, _, _, _)
ParentFull(w, s) ==
  SizeLeft(w.pg[w.cur[s.mn].pg[Depth(w, s.mn) - 1]]) < NodeSize("branch", Separator(s))
SeparatorUp(w, c, s) ==
  LET top == Depth(w, c)
      Deeper(q) == SubSeq(q, 1, top - 1) \o <<q[top - 1], q[top]>>
      Grown(v) == IF Depth(v, s.mn) < top THEN v
                  ELSE [v EXCEPT !.cur[c].pg = Deeper(@), !.cur[c].ki = Deeper(@)]
      Follow(v) == FollowParent(v, c, s.mn, Depth(v, c) - 1)
  IN IF ParentFull(w, s)
     THEN Follow(Grown(PageSplit(Pop(w, s.mn), s.mn, Separator(s), FALSE, FALSE)))
     ELSE NodeAdd(w, w.cur[s.mn].pg[top - 1], w.cur[s.mn].ki[top - 1], Separator(s))

\* mdb_page_split: the page at the top of c gets a right sibling, and new goes
\* at c's index of one of them.
SplitEnd(w, c, s) ==
  Then(Then(ClearFlags(SeparatorUp(w, c, s), c, {"splitting"}), LAMBDA v : MoveNodes(v, c, s)),
       LAMBDA v : SplitAdjust(v, c, s, ParentFull(w, s)))
SplitPages(w, c, s) == SplitEnd(RightPage(w, c, s), c, s)
PageSplit(w, c, new, append, replace) == SplitPages(w, c, Splitting(w, c, new, append, replace))

-----------------------------------------------------------------------------
\* Filling up after a delete.

\* Mutant: the room for a longer key is not looked at.
UpdateKeyInPlace(w, c, key) == Ok([w EXCEPT !.pg[TopPage(w, c)].nodes[TopKi(w, c) + 1].key = key])

\* mdb_update_key at the top of c: a longer key may not fit.
UpdateKey(w, c, key) ==
  LET p    == TopPage(w, c)
      i    == TopKi(w, c)
      node == w.pg[p].nodes[i + 1]
      more == KSize(key) - KSize(node.key)
  IN IF more > 0 /\ SizeLeft(w.pg[p]) < more
     THEN PageSplit(NodeDel(w, p, i), c, [node EXCEPT !.key = key], FALSE, TRUE)
     ELSE Ok([w EXCEPT !.pg[p].nodes[i + 1].key = key])

\* The node at the top of c; the first node of a branch page has the lowest key
\* below it.
KeyedNode(w, c, i) ==
  LET page == w.pg[TopPage(w, c)]
      node == page.nodes[i + 1]
  IN IF i = 0 /\ page.kind = "branch" THEN [node EXCEPT !.key = LowestKey(w, node.ref)] ELSE node

\* Mutant: the separator stays.
SeparatorKept(w, c) == Ok(w)

\* The separator of the page at the top of c, if c is at its first node, and
\* the empty key there on a branch page.
KeyAbove(w, c, mn, key) == UpdateKey(Pop(Keep(w, mn, w.cur[c]), mn), mn, key)
UpdateSeparator(w, c) ==
  LET x    == w.cur[c]
      top  == Len(x.pg)
      page == w.pg[x.pg[top]]
  IN IF w.rc # "ok" \/ x.ki[top] # 0 THEN w
     ELSE Then(IF x.ki[top - 1] = 0 THEN w ELSE KeyAbove(w, c, NewCursor(w), page.nodes[1].key),
               LAMBDA v : IF page.kind = "branch" THEN [v EXCEPT !.pg[x.pg[top]].nodes[1].key = NoKey]
                          ELSE v)

\* The first node of a branch page is about to be the second: it gets its key.
KeyFirst(w, c, mn) ==
  IF w.pg[TopPage(w, c)].kind = "branch" /\ TopKi(w, c) = 0
  THEN UpdateKey(SetKi(Keep(w, mn, w.cur[c]), mn, 0), mn, KeyedNode(w, c, 0).key)
  ELSE Ok(w)

\* mdb_node_move: the node at the top of src goes to the top of dst.
MoveNode(w, src, dst) ==
  LET top == Depth(w, src)
      sp  == TopPage(w, src)
      dp  == TopPage(w, dst)
      si  == TopKi(w, src)
      di  == TopKi(w, dst)
      Followed(v) == Adjust(NodeDel(v, sp, si), src,
                       LAMBDA m : Len(m.pg) >= top /\ m.pg[top] = sp /\ m.ki[top] = si,
                       LAMBDA m : [m EXCEPT !.pg[top] = dp, !.ki[top] = di])
  IN UpdateSeparator(UpdateSeparator(
       Then(NodeAdd(KeyFirst(w, dst, NewCursor(w)), dp, di, KeyedNode(w, src, si)), Followed),
       src), dst)
NodeMove(w, src, dst) ==
  MoveNode(PageTouch(PageTouch(w, src, Depth(w, src)), dst, Depth(w, dst)), src, dst)

\* mdb_page_merge, but for the rebalancing of the parent: the nodes of src's
\* page go to the end of dst's, and src is left at the parent.
MergePage(w, src, dst) ==
  LET top == Depth(w, src)
      sp  == TopPage(w, src)
      dp  == TopPage(w, dst)
      n   == NumKeys(w, dp)
      up  == w.cur[src].pg[top - 1]
      ui  == w.cur[src].ki[top - 1]
      Added == FoldLeft(LAMBDA v, i : NodeAdd(v, dp, n + i - 1, KeyedNode(w, src, i - 1)),
                        Ok(w), [i \in 1..NumKeys(w, sp) |-> i])
      NoFirst(v) == IF ui = 0 THEN [v EXCEPT !.pg[up].nodes[1].key = NoKey] ELSE v
      Dropped(v) == [PageDrop(v, sp) EXCEPT !.db[w.pg[sp].kind] = @ - 1]
      Followed(v) == Adjust(v, src, LAMBDA m : Len(m.pg) >= top /\ m.pg[top] = sp,
                            LAMBDA m : [m EXCEPT !.pg[top] = dp, !.ki[top] = @ + n])
  IN Then(Added, LAMBDA v : Pop(Followed(Dropped(NoFirst(NodeDel(v, up, ui)))), src))
PageMerge(w, src, dst) == MergePage(PageTouch(w, dst, Depth(w, dst)), src, dst)

\* mdb_rebalance of a root page: an empty tree loses it, but the cursors keep it
\* in mc_pg[0]; a branch page with one node gives way to its child.  (mc_ki[0] is
\* taken from mc_ki[1], which Neighbour has set to 0.)
RootShrink(w, c) ==
  LET mp   == w.cur[c].pg[1]
      page == w.pg[mp]
      Lose(m) == [pg |-> <<mp>>, ki |-> <<m.ki[1]>>, fl |-> m.fl \ {"init"}]
  IN CASE page.nodes = <<>> ->
            Ok(Adjust([PageDrop(w, mp) EXCEPT !.db.root = NoPage, !.db.depth = 0, !.db.leaf = 0,
                                              !.cur[c] = Lose(@)],
                      c, LAMBDA m : m.pg # <<>> /\ m.pg[1] = mp, Lose))
       [] page.kind = "branch" /\ Len(page.nodes) = 1 ->
            Ok(Adjust([PageDrop(w, mp) EXCEPT !.db.root = page.nodes[1].ref, !.db.depth = @ - 1,
                                              !.db.branch = @ - 1,
                                              !.cur[c].pg = <<page.nodes[1].ref>>, !.cur[c].ki = <<0>>],
                      c, LAMBDA m : m.pg # <<>> /\ m.pg[1] = mp,
                         LAMBDA m : [m EXCEPT !.pg = Tail(@), !.ki = Tail(@)]))
       [] OTHER -> Ok(w)

\* mdb_rebalance: a page that is too empty gets a node of a neighbour or is
\* merged with it, and then its parent may be too empty.
RECURSIVE Rebalance(_, _)
Refill(w, c, mn, left) ==
  LET np  == TopPage(w, mn)
      src == IF left THEN mn ELSE c
      dst == IF left THEN c ELSE mn
      Lends == ~Underfull(w.pg[np]) /\ NumKeys(w, np) > MinKeys(w.pg[np])
      Ready == IF left THEN w ELSE SetKi(w, mn, NumKeys(w, np))
      Copied(v) == IF left THEN v ELSE [v EXCEPT !.cur[c] = v.cur[mn]]
  IN IF Lends THEN NodeMove(w, mn, c)
     ELSE ClearFlags(Copied(Rebalance(PageMerge(Ready, src, dst), src)), c, {"init", "eof"})

\* mn is c on the neighbour: the right one if c is leftmost in the parent.
Neighbour(w, c, mn, left) ==
  LET x   == w.cur[c]
      top == Len(x.pg)
      ni  == IF left THEN 1 ELSE x.ki[top - 1] - 1
      np  == w.pg[x.pg[top - 1]].nodes[ni + 1].ref
  IN SetKi(Keep(w, mn, [x EXCEPT !.pg[top] = np, !.ki[top - 1] = ni,
                                 !.ki[top] = IF left THEN 0 ELSE NumKeys(w, np) - 1]),
           c, IF left THEN NumKeys(w, x.pg[top]) ELSE 0)

Rebalance(w, c) ==
  LET x     == w.cur[c]
      page  == w.pg[Last(x.pg)]
      left  == x.ki[Len(x.ki) - 1] = 0
      mn    == NewCursor(w)
  IN IF w.rc # "ok" \/ (~Underfull(page) /\ Len(page.nodes) >= MinKeys(page)) THEN w
     ELSE IF Len(x.pg) = 1 THEN RootShrink(w, c)
     ELSE Refill(Neighbour(w, c, mn, left), c, mn, left)

-----------------------------------------------------------------------------
\* Writing.

\* The item is put in place of an equally long one, or of one on an overflow
\* page of this transaction.
Fits(w, old, d) ==
  IF old.ov # NoPage THEN w.pg[old.ov].dirty ELSE DataSize[old.ref] = DataSize[d]

\* Mutants: the pages are not counted down; the page is not given back.
OverflowFreeUncounted(w, node) == IF node.ov = NoPage THEN w ELSE PageDrop(w, node.ov)
OverflowFreeLost(w, node) == IF node.ov = NoPage THEN w ELSE [w EXCEPT !.db.overflow = @ - 1]
OverflowFree(w, node) ==
  IF node.ov = NoPage THEN w ELSE [PageDrop(w, node.ov) EXCEPT !.db.overflow = @ - 1]

\* mdb_cursor_put, the cursor on its place: new_sub.
AddHere(w, c, new, append, insert) ==
  LET p   == TopPage(w, c)
      i   == TopKi(w, c)
      top == Depth(w, c)
      Behind(m) == Len(m.pg) >= top /\ m.pg[top] = p /\ m.ki[top] >= i
      Shifted(v) == IF insert THEN Adjust(v, c, Behind, LAMBDA m : [m EXCEPT !.ki[top] = @ + 1]) ELSE v
  IN IF SizeLeft(w.pg[p]) < NodeSize("leaf", new) THEN PageSplit(w, c, new, append, ~insert)
     ELSE Then(NodeAdd(w, p, i, new), Shifted)

\* The item is added, or takes the place of the one that is there; only a new
\* one is counted.
PutHere(w, c, key, d, flag, insert) ==
  LET p    == TopPage(w, c)
      i    == TopKi(w, c)
      old  == w.pg[p].nodes[i + 1]
      Count(v) == IF flag = "current" THEN v ELSE [v EXCEPT !.db.entries = @ + 1]
      Counted(v) == IF v.rc # "ok" THEN [v EXCEPT !.bad = TRUE]
                    ELSE IF insert THEN SetFlag(Count(v), c, "init") ELSE Count(v)
      Ready == IF insert THEN Ok(w)
               ELSE [NodeDel(OverflowFree(Ok(w), old), p, i) EXCEPT !.db.entries = @ - 1]
  IN IF ~insert /\ Fits(w, old, d) THEN Ok([w EXCEPT !.pg[p].nodes[i + 1].ref = d])
     ELSE Counted(AddHere(Ready, c, Node(key, d), flag = "append", insert))

NewRoot(w, c) ==
  SetFlag([PageNew(w, "leaf") EXCEPT !.cur[c].pg = <<w.next>>, !.cur[c].ki = <<0>>,
                                     !.db.root = w.next, !.db.depth = @ + 1], c, "init")

\* Where the item goes: "ok" on an item of that key, "notfound" before the next,
\* "noroot" in an empty database.
PutPlace(w, c, key, flag) ==
  LET Behind(v) == IF key > v.out[1] THEN Answer(SetKi(v, c, TopKi(v, c) + 1), "notfound", <<>>)
                   ELSE Answer(v, "keyexist", <<>>)
      Once(v) == IF flag = "nooverwrite" /\ v.rc = "ok" THEN Answer(v, "keyexist", <<>>) ELSE v
  IN CASE flag = "current" -> Answer(w, IF Has(w, c, "init") THEN "ok" ELSE "einval", <<>>)
       [] flag # "current" /\ w.db.root = NoPage ->
            Answer(ClearFlags([w EXCEPT !.cur[c].pg = <<>>, !.cur[c].ki = <<>>], c, {"init"}),
                   "noroot", <<>>)
       [] flag = "append" /\ w.db.root # NoPage -> Then(CursorLast(w, c), Behind)
       [] OTHER -> Once(CursorSet(w, c, key, FALSE))

PutReady(w, c) ==
  IF w.rc = "noroot" THEN NewRoot(ClearFlags(w, c, {"del"}), c)
  ELSE CursorTouch(ClearFlags(w, c, {"del"}), c)
PutAt(w, c, key, d, flag) ==
  IF w.rc \in {"einval", "keyexist"} THEN w
  ELSE PutHere(PutReady(w, c), c, key, d, flag, w.rc # "ok")
CursorPut(w, c, key, d, flag) ==
  IF w.bad THEN Answer(w, "badtxn", <<>>) ELSE PutAt(PutPlace(w, c, key, flag), c, key, d, flag)

\* mdb_cursor_del0 after the rebalancing: the cursors on the page c is left on
\* follow if they were not before ki; those past the last node, c too, go to
\* the next page.
DelAdjust(w, c, ki) ==
  LET top == Depth(w, c)
      mp  == TopPage(w, c)
      n   == NumKeys(w, mp)
      On(m) == "init" \in m.fl /\ Len(m.pg) >= top /\ m.pg[top] = mp
      Back(m) == IF m.ki[top] < ki THEN m
                 ELSE [m EXCEPT !.fl = @ \cup {"del"}, !.ki[top] = IF @ > ki THEN @ - 1 ELSE @]
      Past(v, m) == IF On(v.cur[m]) /\ v.cur[m].ki[top] >= n THEN Sibling(v, m, TRUE) ELSE v
  IN FoldLeft(Past, Adjust(IF TopKi(w, c) >= n THEN Sibling(w, c, TRUE) ELSE w, c, On, Back),
              SetToSeq(w.trk \ {c}))

\* mdb_cursor_del0.
DelHere(w, c) ==
  LET p  == TopPage(w, c)
      ki == TopKi(w, c)
      Gone == NodeDel(OverflowFree(w, w.pg[p].nodes[ki + 1]), p, ki)
      End(v) == IF v.rc # "ok" THEN [v EXCEPT !.bad = TRUE]
                ELSE Ok(SetFlag(IF v.db.root = NoPage THEN v ELSE DelAdjust(v, c, ki), c, "del"))
  IN End(Rebalance([Gone EXCEPT !.db.entries = @ - 1], c))

CursorDel(w, c) ==
  IF w.bad THEN Answer(w, "badtxn", <<>>)
  ELSE IF ~Has(w, c, "init") THEN Answer(w, "einval", <<>>)
  ELSE IF TopKi(w, c) >= NumKeys(w, TopPage(w, c)) THEN Answer(w, "notfound", <<>>)
  ELSE DelHere(CursorTouch(w, c), c)

\* mdb_get, mdb_put and mdb_del have a cursor of their own; mdb_del tracks it.
Get(w, key) == IF w.bad THEN Answer(w, "badtxn", <<>>) ELSE CursorSet(Keep(w, Own, NoCursor), Own, key, FALSE)
Put(w, key, d, flag) == CursorPut(Keep(w, Own, NoCursor), Own, key, d, flag)
DelAt(w) == IF w.rc # "ok" THEN w ELSE CursorDel([w EXCEPT !.trk = @ \cup {Own}], Own)
Del(w, key) == DelAt(Get(w, key))

-----------------------------------------------------------------------------
\* Contents, and the names of pages.

RECURSIVE Walk(_, _)
\* The pages of the tree under p, in the order of the tree.
Walk(pg, p) ==
  IF p \notin DOMAIN pg THEN <<p>>
  ELSE FoldLeft(LAMBDA s, n : s \o (IF pg[p].kind = "branch" THEN Walk(pg, n.ref)
                                     ELSE IF n.ov # NoPage THEN <<n.ov>> ELSE <<>>),
                <<p>>, pg[p].nodes)

TreePages(pg, root) == IF root = NoPage THEN <<>> ELSE Walk(pg, root)

\* Page numbers are names: after a call the pages are numbered in the order of
\* the tree, and what nothing points to after them.
Renumber(w) ==
  LET tree  == TreePages(w.pg, w.db.root)
      live  == DOMAIN w.pg \ w.gone
      order == tree \o SetToSeq(live \ ToSet(tree))
      names == (NoPage :> NoPage) @@ (Lost :> Lost)
                 @@ [p \in ToSet(order) |-> SelectInSeq(order, LAMBDA q : q = p)]
      New(p) == IF p \in DOMAIN names THEN names[p] ELSE NoPage
      Renamed(page) ==
        [page EXCEPT !.nodes = [i \in DOMAIN @ |->
           IF page.kind = "branch" THEN [@[i] EXCEPT !.ref = New(@)] ELSE [@[i] EXCEPT !.ov = New(@)]]]
      Settled(x) == IF "init" \in x.fl THEN [x EXCEPT !.pg = [l \in DOMAIN @ |-> New(@[l])]]
                    ELSE IF "eof" \in x.fl THEN [pg |-> <<Lost>>, ki |-> <<0>>, fl |-> x.fl]
                    ELSE [NoCursor EXCEPT !.fl = x.fl]
  IN [w EXCEPT !.pg = [i \in {i \in DOMAIN order : order[i] \in live} |-> Renamed(w.pg[order[i]])],
               !.db.root = New(@), !.trk = Cursor, !.gone = {}, !.next = Cardinality(live) + 1,
               !.cur = [c \in Cursor |-> Settled(@[c])]]

Emptied == [kind |-> "leaf", dirty |-> TRUE, nodes |-> <<>>]
World == [pg |-> pages @@ (Lost :> Emptied), db |-> db, cur |-> cursors, trk |-> Cursor,
          gone |-> {Lost}, next |-> Cardinality(DOMAIN pages) + 1, rc |-> "ok", out |-> <<>>, bad |-> bad]

EmptyWorld == [pg |-> <<>>, cur |-> [c \in Cursor |-> NoCursor], trk |-> Cursor, gone |-> {},
               next |-> 1, rc |-> "ok", out |-> <<>>, bad |-> FALSE,
               db |-> [root |-> NoPage, depth |-> 0, branch |-> 0, leaf |-> 0, overflow |-> 0,
                       entries |-> 0]]
RECURSIVE Loaded(_, _)
Loaded(w, s) ==
  IF s = <<>> THEN w
  ELSE Loaded(Renumber(IF s[1][2] = NoData THEN Del(w, s[1][1]) ELSE Put(w, s[1][1], s[1][2], "none")),
              Tail(s))

\* The items under page p of pages pg.
RECURSIVE Items(_, _)
Items(pg, p) ==
  FoldLeft(LAMBDA f, n : f @@ (IF pg[p].kind = "branch" THEN Items(pg, n.ref) ELSE n.key :> n.ref),
           <<>>, pg[p].nodes)
Contents(pg, root) == IF root = NoPage THEN <<>> ELSE Items(pg, root)

Call(op, k, d, rc) == [op |-> op, key |-> k, data |-> d, rc |-> rc]
NoCall == Call("none", NoKey, NoKey, "ok")
Clean(pg) == [p \in DOMAIN pg |-> [pg[p] EXCEPT !.dirty = FALSE]]

Init ==
  \E s \in Loads :
    LET w == Loaded(EmptyWorld, s)
    IN /\ pages = Clean(w.pg) /\ db = w.db /\ bad = FALSE
       /\ contents = Contents(w.pg, w.db.root)
       /\ cursors = [c \in Cursor |-> NoCursor]
       /\ seen = [c \in Cursor |-> NoKey]
       /\ stale = {} /\ wrote = {} /\ res = NoCall /\ calls = 0

\* A call that ended with world v.  (\E w \in {...}: one world, computed once.)
Done(v) ==
  /\ calls' = calls + 1
  /\ \E w \in {Renumber(v)} :
       /\ pages' = w.pg /\ db' = w.db /\ cursors' = w.cur /\ bad' = w.bad
       /\ contents' = Contents(w.pg, w.db.root)

Wrote(v, op, k, d, C) ==
  /\ Done(v) /\ res' = Call(op, k, d, v.rc) /\ wrote' = wrote \cup C
  /\ stale' = stale \cup {c \in Cursor : "init" \in cursors[c].fl \cup cursors'[c].fl}

mdb_put(k, d, flag) ==
  /\ calls < MaxCalls
  /\ \E v \in {Put(World, k, d, flag)} :
       Wrote(v, IF flag = "none" THEN "put" ELSE flag, k, d, {})
  /\ UNCHANGED seen

mdb_del(k) ==
  /\ calls < MaxCalls
  /\ \E v \in {Del(World, k)} : Wrote(v, "del", k, NoKey, {})
  /\ UNCHANGED seen

\* Bound: MDB_LAST and MDB_PREV set a cursor on the root page of a tree that is
\* gone and read what lies behind its last node, which is undefined: what becomes
\* of that cursor is not followed.
Astray(c) == "init" \in cursors[c].fl /\ Lost \in ToSet(cursors[c].pg)

mdb_cursor_get(c, op, k) ==
  /\ calls < MaxCalls /\ ~bad /\ ~Astray(c)
  /\ \E v \in {CursorGet(World, c, op, k)} :
       /\ Done(v)
       /\ seen' = [seen EXCEPT ![c] = IF v.rc = "ok" /\ v.out # Beyond THEN v.out[1] ELSE NoKey]
  /\ res' = NoCall /\ UNCHANGED <<stale, wrote>>

\* A program writes through a cursor that it knows the place of.
MayWrite(c) == c \in CursorWrites /\ ~Astray(c) /\ (c \notin stale \/ Trust)

mdb_cursor_del(c) ==
  /\ calls < MaxCalls /\ MayWrite(c) /\ seen[c] \in DOMAIN contents
  /\ \E v \in {CursorDel(World, c)} : Wrote(v, "del", seen[c], NoKey, {c})
  /\ UNCHANGED seen

mdb_cursor_put(c, k, d, flag) ==
  /\ calls < MaxCalls /\ MayWrite(c)
  /\ flag = "current" => k = seen[c] /\ k \in DOMAIN contents
  /\ \E v \in {CursorPut(World, c, k, d, flag)} : Wrote(v, "put", k, d, {c})
  /\ seen' = [seen EXCEPT ![c] = k]

\* mdb_txn_commit and the next mdb_txn_begin: the pages are clean again, and
\* the cursors new.
NextTxn ==
  /\ ~bad /\ \E p \in DOMAIN pages : pages[p].dirty
  /\ calls < MaxCalls /\ calls' = calls + 1
  /\ pages' = Clean(pages)
  /\ cursors' = [c \in Cursor |-> NoCursor]
  /\ seen' = [c \in Cursor |-> NoKey] /\ stale' = {} /\ wrote' = {}
  /\ res' = NoCall /\ UNCHANGED <<db, bad, contents>>

Next ==
  \/ \E k \in Key, d \in Data, f \in PutFlags : mdb_put(k, d, f)
  \/ \E k \in Key : mdb_del(k)
  \/ \E c \in Cursor, op \in Moves, k \in Key \cup {NoKey} :
       (k = NoKey <=> op \notin {"set", "range"}) /\ mdb_cursor_get(c, op, k)
  \/ \E c \in Cursor : mdb_cursor_del(c)
  \/ \E c \in Cursor, k \in Key, d \in Data, f \in CursorFlags : mdb_cursor_put(c, k, d, f)
  \/ NextTxn

Spec == Init /\ [][Next]_vars

-----------------------------------------------------------------------------
\* Properties.

\* Page p, at a level of the tree and with the keys from low to below high.
RECURSIVE Sound(_, _, _, _)
Sound(p, level, low, high) ==
  /\ p \in DOMAIN pages
  /\ LET page == pages[p]
         n    == Len(page.nodes)
         From(i) == IF page.kind = "branch" /\ i = 1 THEN low ELSE page.nodes[i].key
         To(i)   == IF i = n THEN high ELSE page.nodes[i + 1].key
     IN /\ page.kind = IF level = db.depth THEN "leaf" ELSE "branch"
        /\ SizeLeft(page) >= 0 /\ n >= MinKeys(page)
        /\ \A i \in 1..n :
             /\ low <= From(i) /\ From(i) < To(i)
             /\ page.kind = "branch" =>
                  /\ i = 1 <=> page.nodes[i].key = NoKey
                  /\ Sound(page.nodes[i].ref, level + 1, From(i), To(i))

\* However pages were split, filled up and merged, the tree is balanced with its
\* leaves md_depth below, keys are in order, the separators of a branch page
\* bound what is under them, and no page holds more than fits or less than the
\* minimum.  (mdb_page_split, mdb_node_move, mdb_page_merge, mdb_update_key)
WellFormed == IF db.root = NoPage THEN db.depth = 0 ELSE Sound(db.root, 1, NoKey, Max(Key) + 1)

Kinds(kind) == {p \in DOMAIN pages : pages[p].kind = kind}

\* The counters of MDB_db, which mdb_stat reports and mdb_drop relies on, are
\* those of the tree: the functions count up and down in a dozen places.
CountsRight ==
  /\ db.entries = Cardinality(DOMAIN contents)
  /\ db.branch = Cardinality(Kinds("branch")) /\ db.leaf = Cardinality(Kinds("leaf"))
  /\ db.overflow = Cardinality(Kinds("overflow"))

\* A page is in the tree, once, or it was given to the list of free pages: none
\* is lost, freed while in use, or used twice.  (mdb_page_touch,
\* mdb_page_merge, mdb_rebalance, mdb_ovpage_free)
PagesKept ==
  LET tree == TreePages(pages, db.root)
  IN ToSet(tree) = DOMAIN pages /\ Len(tree) = Cardinality(DOMAIN pages)

Least(S) == IF S = {} THEN NoKey ELSE Min(S)
Greatest(S) == IF S = {} THEN NoKey ELSE Max(S)
Got(w) == IF w.rc = "ok" THEN w.out[1] ELSE NoKey

\* mdb_get finds every item there is, and no other, through the separators.
LookupRight ==
  \A k \in Key : Got(Get(World, k)) = IF k \in DOMAIN contents THEN k ELSE NoKey

\* MDB_NEXT and MDB_PREV take the cursors of C to the neighbours of the key they
\* were left on.
ToNext(C) ==
  \A c \in {x \in C : seen[x] # NoKey} :
    Got(CursorGet(World, c, "next", NoKey)) = Least({k \in DOMAIN contents : k > seen[c]})
ToPrev(C) ==
  \A c \in {x \in C : seen[x] # NoKey} :
    Got(CursorGet(World, c, "prev", NoKey)) = Greatest({k \in DOMAIN contents : k < seen[c]})

\* A cursor that nothing was written under is in its place after any sequence
\* of moves: the pages and flags a move leaves are right for the next one.
CursorsScan == ToNext(Cursor \ stale) /\ ToPrev(Cursor \ stale)

\* MDB_NEXT is right on any cursor, whatever was written since it was placed
\* (lmdb.h: "Position at next data item"; mdb.c: "Adjust other cursors").
CursorsFollow == ToNext(Cursor)

\* A cursor that does not write, and that MDB_LAST did not set on the page of a
\* tree that is gone (Astray), has one page of the tree per level: no split,
\* merge, copy, new or lost root leaves it on a page that was freed, or of another
\* level.
CursorsOnTree ==
  \A c \in {x \in Cursor \ wrote : "init" \in cursors[x].fl /\ ~Astray(x)} :
    LET pg == cursors[c].pg
    IN /\ Len(pg) = db.depth
       /\ \A l \in DOMAIN pg :
            /\ pg[l] \in DOMAIN pages
            /\ pages[pg[l]].kind = IF l = db.depth THEN "leaf" ELSE "branch"

\* The tree is a map: a call changes the items and answers as SortedMap says,
\* and no put fails for want of room on a page.
Map == INSTANCE SortedMap WITH dict <- contents, call <- res
MapSpec == Map!Spec
=============================================================================
