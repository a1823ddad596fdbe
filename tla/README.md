# Verification of elmdb

elmdb is a Node.js binding (`src/src/*.cpp`) over a copy of LMDB (`src/liblmdb/`), a
memory-mapped, multi-version, copy-on-write B+tree store shared by the threads of many
processes. This directory holds TLA+ models of it, the TLC runs that check them and
the proofs, checked by TLAPS, of what matters most. Paths below are relative to the
repository; `mdb.c` is `src/liblmdb/mdb.c`.

## The system

| component | where | state | operations |
|---|---|---|---|
| Multi-version core | `mdb.c` 1682-2100, 2244-3352, 4930-5003 | data file (pages, two meta pages), `mti_txnid`, the reader slots' `mr_txnid`, the writer's `MDB_txn`, `me_pghead`/`me_pglast` | begin, renew, reset, abort, commit; `mdb_page_alloc`, `mdb_page_touch`, `mdb_page_spill`, `mdb_ovpage_free`; `mdb_freelist_save`, `mdb_page_flush`, `mdb_env_sync`, `mdb_env_write_meta` |
| Reader table, lock file | `mdb.c` 460-600, 2204-2303, 3671-4065, 4213-4299, 8387-8507 | `mti_numreaders`, `mr_pid`, `mr_tid`, `mr_txnid`, pid byte locks, rmutex, wmutex, exclusive/shared file lock | slot acquisition, thread exit, `mdb_env_close`, `mdb_reader_check`, `mdb_reader_list`, set-up by the first process |
| Durability | `mdb.c` 2080-2100, 3103-3352 | what has reached the disk | sync modes (`MDB_NOSYNC`, `MDB_NOMETASYNC`, `MDB_MAPASYNC`), `mdb_env_sync`, recovery by `mdb_env_read_header` and `mdb_env_pick_meta` |
| Nested transactions, spilling | `mdb.c` 1583-1679, 1921-1973, 2103-2178, 2379-2473, 2925-3028 | stack of dirty lists, spill lists, cursor shadows, saved `me_pgstate` | begin with a parent, spill, unspill, merge into the parent, abort |
| Free-list records | `mdb.c` 1734-1887, 2595-2749 | the freeDB, `me_pghead` | multi-page allocation, the reserve-and-fill loop of `mdb_freelist_save` |
| ID lists | `midl.c`, `midl.h` | sorted arrays | search, append, sort, merge |
| B+tree and cursors | `mdb.c` 4703-7915 | pages, nodes, cursor stacks | search, put, del, split, merge, rebalance; sub-pages and sub-databases for duplicates |
| Named databases | `mdb.c` 2483-2506, 8081-8344 | `me_dbxs`, `me_dbflags`, `mt_dbflags` | `mdb_dbi_open`, `mdb_dbi_close`, `mdb_drop`, `mdb_dbis_update` |
| Environment | `mdb.c` 3355-3660, 4085-4299 | map, file descriptors, flags | open, close, map, set options |
| Environment copy | `mdb.c` 7920-8045 | a read transaction, wmutex | `mdb_env_copyfd` |
| Node binding | `src/src/*.cpp` | pointers kept by the Env, Txn, Dbi, Cursor wrappers | constructors, close, commit, abort, reset, renew, drop, finalizers, the sync worker |

How they interact. A write transaction holds wmutex from begin to commit or abort, so
there is one at a time in all processes. A read transaction takes no lock once its
thread owns a slot: it stores an id in the slot and copies the roots from the meta page
the id's parity selects. The two meet in three words of shared memory only: the writer
reads the slots (`mdb_find_oldest`) before it reuses pages, readers read `mti_txnid` and
a meta page that the writer may be writing. Everything a commit changes reaches the
readers through the meta page and `mti_txnid`, in that order. The B+tree asks the core
for pages (`mdb_page_touch`, `mdb_page_new`) and hands them back (`mt_free_pgs`,
`mdb_ovpage_free`). The binding calls all of this from the JavaScript thread, from
finalizers and, for `sync`, from a worker thread.

What is hard: readers and writer interleave at single words without locks; a reader may
sleep between taking an id and using it; freed pages are reused, so an error of one in
an id comparison destroys a live snapshot long after the fact; a commit fails half-way
and the environment's allocator state must not survive it; a crash may leave either
meta page the newest; processes die holding slots and mutexes; one deletion may move
nodes, merge pages, split a parent and lose the root, with other cursors in the middle
of it; a nested transaction and its ancestors have several copies of one page, in
memory and in the file, of which one is current.

What makes each part correct:

* core: no snapshot and no meta page ever loses a page; a reader is never older than
  its slot; no page is lost or offered twice, whatever commits, aborts and failures
  came before; what a user sees is one version after another (`SnapshotStore`);
* durability: what a crash leaves is one whole version, and as new as the sync mode says;
* reader table: one thread per slot, no slot of a living reader taken away, none left
  behind, the writer never misses a living reader;
* nested transactions: an abort restores the parent exactly, a commit is as if the
  parent had done the work itself; no dirty page in two lists, no page lost;
* free-list records: the save loop ends, and the records hold exactly the pages freed;
* ID lists: sorted, without loss, equal to the set or bag they stand for;
* B+tree: equal to a sorted map; keys ordered and separated by the branch keys; fill
  and depth; counters; no page lost; the other cursors of the transaction stay on their
  item;
* named databases: a handle means one name until it is closed; what a transaction that
  aborts opened is closed;
* binding: every lock, slot, handle and cursor belongs to the one object that will give
  it back, once.

## Modules

| module | models |
|---|---|
| `MVCC` | the multi-version core: readers and the writer at the grain of single shared accesses, page reuse, commit, abort and their failures |
| `MVCC_proof` | the inductive invariant of `MVCC` and the theorems |
| `SnapshotStore` | what the engine promises: versions, drafts, snapshots, and nothing of pages |
| `MVCC_refines` | the refinement mapping and the theorem that `MVCC` implements `SnapshotStore` |
| `Durability` | `MVCC` over a disk: sync modes, write-back in any order, crashes, recovery |
| `Durability_proof` | the inductive invariant of `Durability`, on top of that of `MVCC_proof`, and the theorems |
| `ReaderTable` | the lock file: opening, closing, slots, `mdb_reader_check`, the writer's scan, processes that die |
| `ReaderTable_proof` | the inductive invariant of `ReaderTable` and the theorems |
| `BTree` | the B+tree of a database in a write transaction, and the cursors on it |
| `SortedMap` | what its write operations promise: a map, and an answer per call |
| `NestedTxn` | a stack of write transactions: dirty and spill lists, allocator state, cursors |
| `NestedTxn_lemmas`, `NestedTxn_writes`, `NestedTxn_proof` | its inductive invariant with the lemmas about it, the proofs about writes, those about begin, abort, commit, and the theorems, with the refinement of `DraftStack` |
| `DraftStack` | what nested transactions promise: a stack of drafts |
| `Binding` | the JavaScript objects and what LMDB keeps for their process |
| `Binding_proof` | the inductive invariants of `Binding` and the theorems |
| `MCMVCC`, `MCDurability`, `MCReaderTable`, `MCBTree`, `MCNestedTxn`, `MCBinding` | the modules TLC runs |

`Durability` extends `MVCC` (every step of the writer is one of `MVCC`'s, with its
effect on the disk); `MVCC_refines` instantiates `SnapshotStore`, `BTree` `SortedMap`,
`NestedTxn` `DraftStack`. `BTree` is what a write transaction does between `MVCC`'s
`Begin` and `FreelistSave`: there each page touched, added or freed is one step of a
tree that is a set of pages. `NestedTxn` refines the same interval in another way, with
the copies of a page that `MVCC`'s `dirty` is one set of. `ReaderTable` and
`MVCC` meet at the slots: `MVCC` has the single stores of a reader that has a slot and
takes slots for granted, `ReaderTable` shows that they may be, with a begin and a
commit as one step each.

### MVCC: state, actions and code

| in the model | in the code |
|---|---|
| `page[p]`: the image a page of the file holds | the data file, as every process sees it in the page cache |
| `metaDbs`, `metaLast`, `metaTxnid` | `mm_dbs`, `mm_last_pg`, `mm_txnid` of the two meta pages |
| `mti`, `slot` | `mti_txnid`, each `mr_txnid` |
| `rpc`, `rid`, `view`, `rnext` | where `mdb_txn_renew0` stands; the reader's `mt_txnid`, `mt_dbs`, `mt_next_pgno` |
| `wid`, `wtree`, `wrec`, `wnext` | the writer's `mt_txnid`, its trees, its freeDB, `mt_next_pgno` |
| `freePgs`, `pghead`, `pglast`, `dirty` | `mt_free_pgs`, `me_pghead`, `me_pglast`, the dirty and spill lists |
| `LoadTxnid`, `StoreSlot`, `CopyDbs`, `CopyLast`, `EndRead` | `mdb_txn_renew0` for a reader, one shared access each; `mdb_txn_reset0` |
| `Begin` | `mdb_txn_renew0` for the writer |
| `Touch`, `NewPage`, then `TakeFree`, or `StartScan`, `ScanSlot`, `Fetch`, `TakeNew`, `MapFull` | `mdb_page_touch`, `mdb_page_new`, `mdb_page_alloc` with `mdb_find_oldest` |
| `FreePage`, `FreeOverflow`, `Spill` | `mdb_ovpage_free`, freeing of a tree page, `mdb_page_spill` |
| `FreelistSave`, `PageFlush`, `EnvSync`, `WriteMetaDbs`, `WriteMetaLast`, `WriteMetaTxnid`, `Publish` | `mdb_txn_commit` with `mdb_freelist_save`, `mdb_page_flush`, `mdb_env_sync`, `mdb_env_write_meta` |
| `Abort`, `CommitNothing`, `CommitFails` | the other ends of a write transaction |

Abstractions. A tree is the map from its page numbers to the image it expects there; an
image is named by the transaction that wrote it. Memory is sequentially consistent
(x86 keeps stores in order; the code has no fences). Pages are allocated one at a time.
Dirty pages are flushed together. What remains of `me_pghead` is saved as one record,
under `me_pglast`. The touches of freeDB pages that `mdb_freelist_save` makes are the
writer's earlier `Touch` steps. A spilled page stays in `dirty`. Any order of the slots
is allowed in a scan. `MDB_MAP_RESIZED` is not modelled. A write of the meta page
succeeds here; the one that fails is in `Durability`.

### Durability

`disk[p]` is what each page of the disk holds; the file is `MVCC`'s. `WriteBack` copies a
page at any time; with the flag `ORDERED`, a property of the file system, the writes go
out in the order they were made (`queue`, `WriteBackNext`). `SyncPages`, `MetaWritten`
and `CommitReturns` are the syncs of a commit; `ForceStart` and `ForceReturns` are
`mdb_env_sync(env, 1)` from another thread, beside the writer and without a lock.
`Crash` restarts from the disk, `Restart` (all processes killed) from the file; both go
through `mdb_env_read_header` and `mdb_env_pick_meta`. `durable` is the version lmdb.h
promises to keep (507-533). A meta page lies in one sector, so a `pwrite` of it reaches
the disk whole or not at all, and a kill does not cut it; with `MDB_WRITEMAP` its stores
reach the disk singly, in program order. In a mode that may corrupt the file no crash is
followed, except when everything was synced (`Settled`). The flags do not change. With the flag
`IOERRORS`, `MetaFails`: a write of the meta page fails when `mm_dbs` and `mm_last_pg` are
in the page cache, and `mm_txnid` is put back, as the code does on purpose (mdb.c:3313-3328); what
reached the disk is either page. A process that fails so refuses to begin again
(`MDB_FATAL_ERROR`), and the `Begin` that follows is another process's.

### ReaderTable

`excl`, `share`, `pidlock` are the kernel's record locks (byte 0 and the byte of each
pid), `formatted` the magic number, `rmutex` and `wmutex` the process-shared mutexes,
`mrPid` and `mrTxn` the slots, `numreaders` `mti_numreaders`; `ppc`, `envReaders`, `index`
and `cpc`, `rdrs`, `pids`, `deadPid` are the variables of `mdb_env_open`,
`mdb_env_close0` and `mdb_reader_check` in each process; `tls` is the slot under
`me_txkey`. `Die` kills a process anywhere: the kernel drops its locks, its slots stay,
a mutex it held is `Orphan`'s for ever (the mutexes are not robust). The pid can come
back. A begin of a reader and a commit are one step each, the scan reads all counted
slots after taking `mti_numreaders`, and `mr_pid` is read once in `mdb_reader_check`. An
open that fails without having the exclusive lock is an open and a close.

### BTree

A call of the API is one step; the functions under it are operators from a world (pages,
`MDB_db`, cursors, tracked cursors, the answer) to the world they leave, in the order of
the code. `pages[p]` is the sequence of nodes of a page, `db` the `MDB_db` record with its
counters, `cursors[c]` a cursor's stack `mc_pg`, `mc_ki` and its flags. The cursors of
the functions' own stack (`mn`, that of `mdb_del`) are cursors of the world as well, and
`trk` says which ones `mt_cursors` has. Sizes are in units: a page has `PageMax` for its
nodes, `Big` is the test for `F_BIGDATA`. Page numbers are only names: after each call
`Renumber` gives them in the order of the tree, so that equal trees are one state.
`contents`, `res`, `seen`, `stale` and `wrote` are history: what the leaves hold, the last
call, where a cursor was left, and which cursors were written under or with. A program
writes through a cursor only while it knows its place (`MayWrite`). Three reads go past the
end of what is there: an index past the nodes of a branch page is taken to give no page
(`MDB_PAGE_NOTFOUND`), one past the nodes of a leaf gives `Beyond`, and the root page of a
tree that was emptied is `Lost`, a freed page without nodes that cursors may still have in
`mc_pg[0]`. Bound: once `MDB_LAST` or `MDB_PREV` has made a cursor initialised on `Lost`, what
becomes of that cursor is not followed (`Astray`).

| in the model | in the code |
|---|---|
| `PageSearch`, `Descend`, `Toward`, `NodeSearch` | `mdb_page_search`, `mdb_page_search_root`, `mdb_node_search` |
| `CursorFirst` .. `CursorSet`, `Sibling`, `CursorGet` | `mdb_cursor_first` .. `mdb_cursor_set`, `mdb_cursor_sibling`, `mdb_cursor_get` |
| `PageTouch`, `CursorTouch` | `mdb_page_touch`, `mdb_cursor_touch` |
| `Splitting`, `Fill`, `SplitAdjust` and their helpers | `mdb_page_split` |
| `UpdateKey`, `MoveNode`, `UpdateSeparator`, `MergePage`, `RootShrink`, `Refill`, `Rebalance` | `mdb_update_key`, `mdb_node_move`, `mdb_page_merge`, `mdb_rebalance` |
| `CursorPut`, `PutHere`, `CursorDel`, `DelAdjust`, `OverflowFree` | `mdb_cursor_put`, `mdb_cursor_del`, `mdb_cursor_del0`, `mdb_ovpage_free` |
| `mdb_put`, `mdb_del`, `mdb_cursor_get`, `mdb_cursor_put`, `mdb_cursor_del` | the calls of these names |
| `NextTxn` | commit and begin: the pages are clean again |

### NestedTxn

`txns` is the stack of write transactions, each with its root, `mt_next_pgno`,
`mt_dirty_room`, dirty list, spill list, freed pages, error flag and the `me_pgstate` it
saved; `pg` is `me_pgstate`. A page's memory is `<<k, p>>`, the copy in the dirty list of
transaction k, or `<<0, p>>`, the map; a cursor's path is its two pages' memory, so that a
cursor on freed memory can be seen. `Where` is `mdb_page_get`. The tree is a root page
over leaf pages, a leaf page holds a value, and the splits and merges of `BTree` are cut
down to a leaf that appears or goes; what is kept whole is which pages are touched, in which
order, after `PageSpill`, and how each one gets into the transaction's dirty list: unspilled,
copied from an ancestor, or under a new number (`PageTouch`). `BeginNested`, `CommitNested`,
`Abort`, `CommitFails` and `Commit` are `mdb_txn_begin` with a parent, `mdb_txn_commit` and
`mdb_txn_abort`. `MergeAborts` is the assertion of mdb.c:3007 that fails. A call may fail with
`MDB_TXN_FULL` or `MDB_MAP_FULL` in the middle, with what it did until then and
`MDB_TXN_ERROR`. A parent's cursors are not used in its child (comment at
`mdb_cursor_shadow`). The binding begins no nested transactions (txn.cpp:43,
dbi.cpp:71): they belong to the C interface.

### Binding

`env`, `txn`, `dbi`, `cursor` are the JavaScript objects with the pointers they keep;
`dbxs`, `valid`, `numdbs` are `me_dbxs[].md_name`, `me_dbflags` and `me_numdbs`; `wlock`
and `reader` say which Txn has wmutex and the thread's slot; `exists` and `holds` are the
data: of each database the names under which its records were put. A method is one
step, with every LMDB call in it, and so is a finalizer, which may run between any two
once the object is lost. Calls that throw and change nothing are no steps. The program
keeps lmdb.h on environments and threads: it closes the Env last and has one write
transaction at a time (a second `mdb_txn_begin` would wait for itself). `Care` says what
else it takes care of: one Dbi object for each name, closed once, while no transaction
is open, and after a drop before another is opened ("handles"). A program need not close its
cursors: the end of a write transaction frees them (`EndWrite`), and an object may go on with
its pointer to a freed one; the second free by its close or finalizer is not followed.
A put through a handle closed under its transaction is not followed either. When `mdb_txn_begin` fails, `DbiWrap::ctor` calls
`mdb_txn_abort` on a variable never set: the process goes on or ends.

## Runs

TLC checks each for deadlock too, except where the bound on calls or commits stops the
model (the runs of `BTree` and `NestedTxn`).

| run | instance | what it asks |
|---|---|---|
| `mvcc` | 1 reader, 6 pages, 4 transactions, trees of 2 pages, fair scheduling | snapshots and meta pages stay whole, snapshots are fresh; the core implements `SnapshotStore`; no page is lost; `IInv`, the invariant of the proofs, holds; the reader and the writer never wait for each other |
| `mvcc_torn_meta` (violation) | 1 reader, trees of 2 pages | does a reader take its roots and `mm_last_pg` of one version? |
| `durability_file` | `pwrite`; default, `MDB_NOMETASYNC`, `MDB_NOSYNC` on an ordered file system, `MDB_NOSYNC` with meta writes that fail | what a crash, a forced sync or a failed write leaves is whole and new enough, and the next process starts from a whole version |
| `durability_writemap` | `MDB_WRITEMAP`, alone and with `MDB_MAPASYNC` | the same, and what a forced sync covered stays whole |
| `reader_table` | 2 processes with 1 thread each, 2 slots, 1 commit | slots are owned, versions being read are kept, a close leaves nothing |
| `lock_file_reset` (violation) | the same, an open that fails while another waits | is `mti_txnid` the newest meta page's in an open environment? |
| `btree` | 7 keys of two lengths, 2 data items, 2 cursors, 3 calls on an empty tree, one of one item and two that are filled | the tree is a well-formed sorted map; counters, pages and cursors are right |
| `btree_cursors` (violation) | the same, 1 cursor placed by `MDB_SET` | does `MDB_NEXT` go to the next item after others wrote? |
| `nested` | 3 nested transactions, room for 3 dirty pages, 2 leaves, 1 cursor, `FewStaleCopies` | the stack of transactions implements `DraftStack`; pages and cursors are right at every level |
| `nested_deep` (violation) | the same, without `FewStaleCopies` | is `mt_dirty_room` the room there is? |
| `binding` | 3 names, 3 Dbi, 2 Txn, 1 Cursor, `maxDbs` 2 | locks, slots and handles are their objects', and cursors end with their write transaction |
| `binding_handles` (violation) | 2 names, 2 Dbi, no care of handles | does a put land in the database of its Dbi object? |

Bounds. `MaxTxn` = 4: a page freed by transaction n is reused by n+2 at the earliest, and
a reader can be behind by two commits when its meta page is overwritten; a fourth
transaction meets both. `MaxPg` = 6: two meta pages and four more (the last number is never
handed out: mdb.c:1855), so that the map is full while pages are free, and the reverse.
Trees of two pages let a page be freed beside one that stays. One reader is enough here, as
readers do not read each other's slots: it may be of any age, and start, sleep and end at any
step of the writer. What the writer makes of several slots is in `reader_table`, and the
theorems are of any number. `MaxLag` bounds the pages
kept off the disk. In `ReaderTable` one commit is enough, since a second write
transaction may begin and scan after it; with two slots the table is full. In `Binding`
three names over a table of two meet `MDB_DBS_FULL`, and a handle goes from one name to
the next.

In `BTree` a page holds two to five nodes, so that trees of seven items have three levels;
`Deep` has one node on most pages and `Tight` a root page with no room over a page that
the next deletion empties. Three calls then reach each of: a split of the root, a parent
split in a split and in a deletion, both ways of borrowing and of merging, a lost root, an
overflow page made, replaced and freed, and two more calls on the tree and the cursors
that this leaves. `VIEW` leaves out the last call and its answer, which no state's future
depends on. In `NestedTxn` the room is three dirty pages (of 131071), `Need` and `Batch`
one page, so that a root page and two leaves already spill, and a child runs full;
`MaxPg` lets pages be used up; three levels let a child spill what its grandparent has.
`VIEW` drops the contents of pages of the file that no transaction reads there; the leaves
and the values are interchangeable. In `nested` alone the constraint `FewStaleCopies` leaves
out stacks of three in which a page is spilled that is dirty there or below: what the code
does with them is what `nested_deep` shows. One commit of the top level is
enough there, as it leaves what `Init` chooses from.

Fairness. `FairSpec` of `MVCC` assumes that threads are scheduled: a call of
`mdb_page_alloc`, `mdb_txn_commit` or `mdb_txn_renew0` that can take a step takes one in
the end (weak fairness of `CallStep` and of a reader's three steps of beginning). That a
program calls anything, or ends a transaction it began, is not assumed; so
`NobodyWaits` says that a reader which sleeps for ever inside its transaction holds up no
commit and no allocation, and a writer that stops no reader. No other liveness is
claimed: nothing in the code schedules transactions, a writer does wait for another
writer, for ever if a process dies with wmutex, as lmdb.h says; nested transactions and
the tree are sequential.

Each property of a passing run is also checked against a mutated form of the code, a
bug one could write there (the operators marked "Mutant"), which breaks it.

## What the runs found

* `mvcc_torn_meta`: a reader delayed by two commits copies `mm_dbs` and then `mm_last_pg`
  (mdb.c:2333, 2336) of two versions; pages of its own snapshot are then
  `MDB_PAGE_NOTFOUND`. The comment at 3334-3336 says readers get consistent data however
  stale their view is. The roots themselves are right (`SnapshotIntact`).
* `lock_file_reset`: a process that waits for a shared lock in `mdb_env_excl_lock` also
  gets it when the process that was resetting the lock file fails or dies before
  `mdb_env_share_locks` sets `mti_txnid`; it goes on with `mti_txnid` = 0, and its writer
  commits as transaction 1 over a meta page. With `FailAwaited` = FALSE (`reader_table`)
  everything holds.
* `binding_handles`: two Dbi objects of one name share a handle, and each closes it. When
  one is collected the handle goes to the next database opened, and a put through the
  other object is stored there. lmdb.h:954-955 says that the handle must be closed once.
  A drop followed by the finalizer does the same, as `needsClose` stays set.
* `btree_cursors`: `mdb_cursor_del0` gives `C_DEL` to all other cursors at or behind the
  index of the deleted item, the index from before `mdb_rebalance` at that (mdb.c:7451). A
  cursor on an item that is still there gets the flag, and `MDB_NEXT` answers that item again.
* What does hold of cursors (`btree`): one that nothing was written under is right after any moves
  (`CursorsScan`), and one that does not write stays, but for `Astray`, on pages of the tree, one of
  each level (`CursorsOnTree`). Which node of these pages it is on is what the code gets
  wrong, here and in the next list.
* `nested_deep`: a child that spills a page of which its parent has a dirty copy counts that page
  as hidden, and the comment on `mt_dirty_room` (946-949) has the commit free the parent's copy;
  it does not, and puts the page into the parent's spill list beside it. From there the room is
  wrong, and the parent's next spill writes the old copy over the child's newer page, whose
  contents are lost without an error: without the constraint `DraftSpec` is violated too.

More errors of the code were met in modelling; they are not stated as runs.

* The same at the top: for a child of the top-level transaction the merged length is computed
  from the room and comes out too small, the merge overwrites entries it has not read, and the
  assertion at 3007 fails (`MergeAborts`; with the list reduced to 2047 entries a C program
  crashes after 3600 pages).
* `mdb_ovpage_free` (4963-4995) gives a dirty overflow page back to `me_pghead` and takes it
  off the dirty list without `mt_dirty_room++`. The next commit of a nested transaction
  computes the length of the merged list from the room (2990), and the assertion at 3007
  stops the process. A C program against `mdb.c` (put big data, delete it, begin a child,
  put, commit the child) shows it. `NestedTxn` has no overflow pages.
* When a node is moved to the neighbouring page (`mdb_node_move`, 7032; `mdb_page_merge` does the
  same, 7208) a cursor on it gets the new page, but its index in the parent, `mc_ki[mc_top-1]`,
  stays that of the old one: the next `MDB_PREV` misses the item before, and `MDB_NEXT` at the end
  of the page may pass over one. TLC reports `ToPrev(Cursor)` violated after `MDB_SET` of the
  second key and `mdb_del` of the third.
* `MDB_LAST` sets `C_EOF`, an item added behind the cursor does not clear it, and `MDB_NEXT` is
  `MDB_NOTFOUND` (5126): another violation of `CursorsFollow`.
* `MDB_LAST` on a cursor with `C_EOF` trusts `mc_pg[0]`, also when the deletion of the last item
  has freed that page (5516; 7299 clears `C_INITIALIZED` only): put, `MDB_LAST`, del, `MDB_LAST`
  read a node of a freed page. The model has these cursors as `Astray`.
* `mdb_cursor_put` with `MDB_CURRENT` and data of another size takes one from `md_entries`
  (6119) and, alone of all paths, does not put it back (6210). With `"current"` in
  `CursorFlags` TLC reports `CountsRight` violated; the run leaves this call out, and with all
  others the counters are right.
* The cursors of a write transaction are freed when it is committed, aborted or collected
  (mdb.c:2172); the Cursor objects are not told, and their close or finalizer hands the
  pointer to `mdb_cursor_close` again (cursor.cpp:17, 47), against lmdb.h:1265. In `Binding` it is
  every state with an object whose cursor is `freed`.

Not stated as runs either (`hazards` in PROJECT.json): a failed
`DbiWrap::drop` leaves wmutex locked; after a failed meta write a reader with an id two
older may take the roots that were not committed; in the synced modes a failed meta page
that reached the disk may be recovered after its pages were reused; `env.h:38` gives 126
as the default of `maxReaders`, `env.cpp:95` sets 1.

## What is proved

By TLAPS, for any number of readers, pages and transactions in the core and on the disk,
of processes, threads and slots in the reader table, of leaves, pages, cursors and levels
of nested transactions with any room in their dirty lists, and of objects, names and
handles in the binding:

| theorem | says |
|---|---|
| `TypeCorrect` | every variable of `MVCC` keeps its type, whatever fails |
| `SnapshotsStayIntact` | snapshot isolation: the pages of a reader's snapshot keep their contents |
| `MetasStayIntact` | the trees of both meta pages are whole |
| `PagesConserved` | every page is in the trees or in exactly one free-list record |
| `SnapshotsAreFresh` | a snapshot is at least as new as the id in the reader's slot |
| `Inductive` | `IInv`, the inductive invariant of the core |
| `Implements` | `MVCC` implements `SnapshotStore` |
| `DiskInductive` | `DInv`, the inductive invariant of the core over its disk |
| `CrashesRecoverable` | after any crash the mode promises to survive, recovery finds one whole version |
| `CommitsDurable` | a crash undoes no commit the mode promises to keep, nothing a forced sync covered |
| `SyncsSettle` | in the unsynced modes the disk is whole from a forced sync to the next meta page |
| `CommittedStaysIntact`, `CrashesLoseNoPage` | the newest version is whole in the file and no page is lost, through crashes, restarts and failed meta writes |
| `TableTypes` | every variable of `ReaderTable` keeps its type |
| `SlotsOwned` | a thread's slot is its own and counted, whatever the processes do |
| `SlotsGivenBack` | `mdb_env_close0` leaves no slot of its process |
| `VersionsKept` | no version that a living reader reads has lost pages to reuse |
| `MtiStaysCurrent` | `mti_txnid` is the newest meta page's id in every open environment |
| `NestedInvariant` | `NInv`, the inductive invariant of `NestedTxn` |
| `PagesAlwaysPlaced` | at every level of a stack of nested transactions each page below `mt_next_pgno` is in one place: tree, freed pages, `me_pghead` or a record not read yet |
| `RoomOfTwo` | in a transaction and its child `mt_dirty_room` is the room of the array less the dirty pages seen there, through spills, aborts and merges |
| `CursorsAlwaysCurrent` | a cursor, and each copy of it that an abort would restore, is at the memory where its pages are found |
| `DraftsRefined` | `NestedTxn` implements `DraftStack`: a child's changes are its own until its commit and gone after its abort, and no spill shows |
| `DraftsOfTwo` | the same of a transaction and its child, in all reachable states |
| `BindingTypes` | every variable of `Binding` keeps its type |
| `WriteLockKept` | a Txn object holds wmutex exactly while it has its write transaction |
| `SlotKept` | the thread's reader slot belongs to the one live reader |
| `HandlesWork` | an open Dbi object has a valid handle of its own database |
| `PutsStay` | each record is in the database of the Dbi object it was put through |
| `CursorsStayOwned` | a cursor that was not freed is a reader's or of the write transaction that runs |

Assumptions. `MVCCAssumption`, `DurabilityAssumption`, `ReaderTableAssumption`,
`NestedAssumption` and `BindingAssumption` are the types of the constants, that "none",
"orphan" and "leaked" name no process or object, that a map written through has no write
order, and that the first database fits the map. Further:

* The theorems of `Durability_proof` assume `ErrorsUnsynced`: writes of the meta page
  fail, if at all, with `pwrite`, in a mode with `MDB_NOSYNC`, without a write order.
  It is needed. In a synced mode a failed meta page that reached the disk may be
  recovered after its pages were reused (see above); an ordered file system would keep
  the failed page in its queue, which `MetaFails` does not model. All runs satisfy it.
* `VersionsKept` and `MtiStaysCurrent` assume `~FailAwaited`, that no process gets its
  shared lock because the one that was resetting the lock file failed:
  `lock_file_reset` shows the violation otherwise. The other three theorems of the
  reader table do not need it.
* The theorems of `NestedTxn_proof` but two assume `[]FewStaleCopies`, the bound under which
  the run `nested` checks the same properties (its CONSTRAINT): in a stack of three or more
  no transaction has spilled a page that it or an ancestor has dirty. It is needed: `nested_deep`
  shows what the commit of such a transaction does.
* `RoomOfTwo` and `DraftsOfTwo` assume `[]Shallow` instead: no stack is deeper than a transaction
  and its child. Then `FewStaleCopies` holds by itself, so nothing that code for two can reach is
  left out. That the merged length may be wrong at two does not touch them, as
  the process stops there (`MergeAborts`).
* `HandlesWork` and `PutsStay` are of programs with "handles" in `Care`; the other theorems of
  the binding are of all programs.

The core. `SnapshotIntact` is not inductive: it does not say why a page the writer
takes is not in a snapshot. `IInv` adds: which version each meta page has in each phase of
a commit (`MetaInv`); that a reader's roots are those of a version its slot protects, or
can still become so (`ReaderInv`); that pages in the writer's records or in `me_pghead`
are free in every version the oldest slot protects, which is where `oldest`, a bound
that was true when the slots were read, is shown to stay true (`RecInv`, `ScanInv`); that
trees, records, `me_pghead` and `mt_free_pgs` divide the pages among them (`PartInv`); and
that a page of the writer's that is not dirty holds its image (`ImageInv`). The heart
is `HeldFrame`: a tree held at version v stays whole as long as the writer changes only
pages unsafe for v, and `ObtainInv` shows that what it takes is such. A reader that starts
after a scan gets an id that no record fetched can touch (`MetaFresh`). There is a lemma
for each group of actions. `MVCC_refines` uses the same invariant: a draft sealed in
`WriteMetaDbs` and published in `Publish`, everything else a change of the draft or a
stutter. `CoreInv` is the part of `IInv` about the writer and the newest version; it is
inductive by itself, and `Kept` is what each step then does to any snapshot. This is
what `Durability_proof` builds on, where a crash may bring back an older version, so that the
meta page before the newest need no longer be whole.

The disk. A content of the file or of the disk is `Sound` for version n when its meta page
n % 2 describes n, whole, with a free list that fits, and the other one is older: then
recovery finds n (`SoundMeta`) and the next process starts in `CoreInv` (`Reopen`). The
file always holds `Top`, the newest version or the one being published (`FileSound`). What
the disk holds depends on the mode:

* synced (`SyncInv`): all pages of the newest version, and either its meta page
  (`NewestOnDisk`) or, before the meta page of a commit with `MDB_NOMETASYNC` gets there,
  the version before, whose pages must not have been reused: they are `SnapshotOK` in the
  sense of the core's proof, until the next commit has synced its pages, which comes before
  its own meta page (`SyncStep`);
* not synced (`LossyInv`): nothing, unless the newest version is covered by a forced sync
  that has returned, or that runs and still has in `force` what is missing (`Except`);
* ordered (`OrderInv`): there is a history of contents, from the disk to the file, each
  being the one before with one more write of the queue, and each is `Sound` for some
  version (`Reached`). A write of the queue is either pages no version on the way needs or
  one meta page; that one page of several may reach the disk alone is in `OrderWriteBack`.
  In a synced commit nothing but the meta page may still be queued when its sync returns
  (`QueueShort`).

`PromiseInv` follows `durable` and the version a forced sync started from: in the file, and
on the disk or still in `force`. `Recoverable` puts the cases together.

The reader table. `FileInv` says what the record lock on byte 0 decides: one process sets
the file up, or any number share it. `MutexInv` says more than `rmutex` can: it keeps the
threads of one process apart too. `SlotOwned` is not inductive, since `mdb_reader_check`
clears slots after it found their process dead: `SlotInv` adds that a process shows its pid
lock before a thread of it looks for a slot, so that one found dead under `rmutex` has
none until the check has ended. `CloseInv` says that `me_numreaders`, though taken at the
last acquisition of the process, counts all its slots. For `VersionKept` the writer's scan
is inductive with `ReadInv`: a slot it does not count any more was taken after the
scan began and holds the newest id. `MtiInv` follows `mti_txnid` through set-up.

Nested transactions. Each transaction of the stack has its own tree, lists and allocator
state, but the open one keeps its `me_pghead`, record position and `mt_next_pgno` in the
environment, while those of its ancestors lie in the `saved` of the child (`PgAt`). `NInv` is
therefore a predicate of each level (`Level`), read through `PgAt`: `TreeOK` and `PartOK`, that
the tree has no page twice and that pages are divided as in `PagesAtEveryLevel`; `ListOK`, that
the dirty and spill lists of the level and of those below it have what the tree has beyond
the committed one and else only freed pages, which is what makes looking a page up in the
lists and then in the file right; `AllocOK`, `RoomOK`, and `CursLow`
that the cursors a child has shadowed will be current again when it aborts. `ListsApart` says
that no page is dirty and spilled at one level or spilled at two.

A write is a chain of touches, each of which may unspill, copy, allocate, or spill
other pages. The lemmas of `NestedTxn_writes` are about worlds, values of all variables in the
middle of a call: `Sound` is `NInv` of a world, and each helper takes a sound world to a sound
one `Alongside` it, with the levels below unread and unchanged. A spill writes pages into the
file that may be at the place of pages other levels read: `Harmless`, proved of all that a
transaction may spill, says that no other level has such a page in its tree but through a
list of its own. The commit of a child is `Joined`: the parent gets the child's tree, and its
lists, where the child's copies replace the parent's. That the child spilled no page its parent
has dirty follows from `FewStaleCopies` or, with two transactions, from the length that fits
(`ListsFit`). The commit of the last transaction empties the lists into the
file and gives the freed pages to a record (`Rest`).

`DraftsRefined` follows what each level sees, as a function from leaves to values (`Held`; `Views`
has those of the whole stack, `Base` what is committed), and `HInv` says these are such functions.
The same lemmas about worlds carry it: touching, unspilling and spilling pages leave every view
as it was (`Alongside`), and a write then changes the last view at one leaf and no other
(`OnlyAt`, `Below`). So each action does to the sequence of views one of five things: it
copies the last (`Begins`), changes it at a leaf (`WritesOne`), puts it in the place of the one
below (`CommitsNested`) or of the committed one (`CommitsOne`), or drops some (`Discards`).
`DraftsFollow` turns these into steps of `DraftStack`, whose sets of items are read off the
views (`ReadsAre`).

The binding. The types and the locks are proved together, since each lock is freed
by the object that the other variables say has it: `LockInv` adds to `WriteLock` and
`SlotProtects` that only readers are reset, that only the holder of wmutex has changed
databases, and that wmutex is free when the Env is not open. (`DropFails` leaves it
locked for no object.) `HandleInv` adds to
`HandleWorks` what makes a handle given to another name harmless: `needsClose` is set
exactly in objects that have a handle, no two objects have one name, and the handle of a
dropped object is free, so that its close or finalizer takes nobody's. `DraftInv` adds
to `PutsLand` that a transaction's changes go under the name the handle still has at the
commit, because no handle is closed while one is open (`QuietClean`). `CursorsOwned` is inductive with `WriteLock`, which says
whose cursors `EndWrite` frees (`CursorsEnd`).

Model-checked only: `NobodyWaits` (liveness), and the properties of `BTree`, whose
operators are recursive.

## Plan

Done: the core, durability, the reader table, the tree with its cursors, nested
transactions, the binding. Left, the most important first:

1. `FreelistSave`: the loop that saves `mt_free_pgs` and `me_pghead` in the freeDB it
   changes by saving, with contiguous runs; it ends with what `MVCC.FreelistSave` states.
2. DUPSORT databases in `BTree`: sub-pages, sub-databases and their cursors.
3. `DbiTable`: handles in nested and aborted transactions.
4. `Midl`: the ID lists as recursive functions against sets, over all short lists.
5. `EnvCopy` over `MVCC`; the sync worker in `Binding`.

## Not modelled

The loop of `mdb_freelist_save` and runs of contiguous pages; DUPSORT databases;
overflow pages, several databases and failures of malloc in nested transactions; spilled
pages and failed allocations under the tree; ID lists; environment copy. Further
`MDB_NOTLS`, `MDB_NOLOCK`, `MDB_FIXEDMAP`; the Windows and named-semaphore branches; file
names, mapping, page sizes; key comparison and value conversion; the command-line tools
and tests; compilation switches. The components in PROJECT.json give the reason for each.
Out of the prover's reach and left to TLC: liveness, and induction over data.
