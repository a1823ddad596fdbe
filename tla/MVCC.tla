-------------------------------- MODULE MVCC --------------------------------
(***************************************************************************)
(* The multi-version core of LMDB (liblmdb/mdb.c): one write transaction   *)
(* at a time copies the pages it changes, publishes a new pair of tree     *)
(* roots in one of two meta pages, and reuses the pages that no reader     *)
(* can still reach.  Readers take no lock: they store the id of the        *)
(* transaction they start from in a slot of the reader table, which the    *)
(* writer scans, slot after slot, before it reuses anything.               *)
(*                                                                         *)
(* Abstraction.  The trees of an environment (freeDB, main DB and named    *)
(* DBs) are one map "tree" from page number to the image the tree expects  *)
(* there, 0 when the page is in no tree.  An image is named by the write   *)
(* transaction, counted by "begun", that produced it; aborted transactions *)
(* count too, so that an image left by one is never mistaken for another.  *)
(* "page" is what the file (its page cache, which every process maps)      *)
(* holds.  The records of the freeDB are "rec": transaction id -> pages.   *)
(* Memory is sequentially consistent.  mti_txnid, each mr_txnid, mm_dbs,   *)
(* mm_last_pg and mm_txnid are each read or written in a step of its own;  *)
(* mm_dbs counts as one word because the pages a reader reaches hang on    *)
(* one word of it, mm_dbs[MAIN_DBI].md_root.                               *)
(***************************************************************************)
EXTENDS Integers, FiniteSets

CONSTANTS Reader,            \* reader slots, each used by one thread
          MaxPg,             \* me_maxpg: page numbers stay below it
          MaxTxn,            \* bound on the write transactions begun
          MaxTree,           \* bound on the pages in the trees
          WriteMap           \* MDB_WRITEMAP: pages are changed in the map

ASSUME MVCCAssumption == /\ MaxPg \in Nat \ {0, 1}
                         /\ MaxTxn \in Nat
                         /\ MaxTree \in Nat
                         /\ WriteMap \in BOOLEAN

VARIABLES
  \* shared: the data file and the lock file
  page,       \* image held by each page of the file
  metaDbs,    \* mm_dbs of the two meta pages (with the id that wrote them)
  metaLast,   \* mm_last_pg of the two meta pages
  metaTxnid,  \* mm_txnid of the two meta pages
  mti,        \* mti_txnid: last published transaction
  slot,       \* mr_txnid of each reader slot
  \* readers, private
  rpc,        \* where mdb_txn_renew0 stands
  rid,        \* mt_txnid
  view,       \* mt_dbs: the roots copied from the meta page
  rnext,      \* mt_next_pgno
  \* the writer that holds wmutex
  wpc,        \* where it stands; "idle": wmutex is free
  begun,      \* number of write transactions begun
  wid,        \* mt_txnid
  wtree,      \* the trees as changed so far
  wrec,       \* the freeDB records, as mt_dbs[FREE_DBI] reaches them
  wnext,      \* mt_next_pgno
  freePgs,    \* mt_free_pgs
  pghead,     \* me_pghead
  pglast,     \* me_pglast
  dirty,      \* pages on mt_u.dirty_list or mt_spill_pgs
  req,        \* page being touched while a page is allocated, 0: none
  scan,       \* reader slots mdb_find_oldest has yet to read
  oldest      \* its running minimum

shared == <<page, metaDbs, metaLast, metaTxnid, mti>>
meta   == <<metaDbs, metaLast, metaTxnid>>
reader == <<rpc, rid, view, rnext, slot>>
alloc  == <<pghead, pglast, scan, oldest>>
writer == <<wpc, begun, wid, wtree, wrec, wnext, freePgs, alloc, dirty, req>>
vars   == <<shared, reader, writer>>

-----------------------------------------------------------------------------
Page   == 2 .. MaxPg - 1     \* pages 0 and 1 are the meta pages
Txn    == 0 .. MaxTxn
Image  == 0 .. MaxTxn
Idle   == -1                 \* (txnid_t)-1, larger than every id
Tree   == [Page -> Image]
Dbs    == [ver : Txn, tree : Tree, rec : [Txn -> SUBSET Page]]

NoTree == [p \in Page |-> 0]
NoRec  == [t \in Txn |-> {}]
NoView == [ver |-> 0, tree |-> NoTree]

\* The meta page a transaction id selects.
Toggle(n) == n % 2

InTree(t) == {p \in Page : t[p] # 0}

\* Every page the tree t reaches still holds the image t expects.
Intact(t) == \A p \in Page : t[p] # 0 => page[p] = t[p]

TypeOK ==
  /\ page \in [Page -> Image]
  /\ metaDbs \in [{0, 1} -> Dbs]
  /\ metaLast \in [{0, 1} -> 1 .. MaxPg - 1]
  /\ metaTxnid \in [{0, 1} -> Txn]
  /\ mti \in Txn
  /\ slot \in [Reader -> Txn \cup {Idle}]
  /\ rpc \in [Reader -> {"idle", "loaded", "stored", "copied", "active"}]
  /\ rid \in [Reader -> Txn]
  /\ view \in [Reader -> [ver : Txn, tree : Tree]]
  /\ rnext \in [Reader -> 0 .. MaxPg]
  /\ wpc \in {"idle", "run", "alloc", "scan", "failed", "flush", "sync",
              "metaDbs", "metaLast", "metaTxnid", "publish"}
  /\ begun \in Txn
  /\ wid \in Txn
  /\ wtree \in Tree
  /\ wrec \in [Txn -> SUBSET Page]
  /\ wnext \in 0 .. MaxPg
  /\ freePgs \subseteq Page
  /\ pghead \subseteq Page
  /\ pglast \in Txn
  /\ dirty \subseteq Page
  /\ req \in Page \cup {0}
  /\ scan \subseteq Reader
  /\ oldest \in Txn

\* mdb_env_init_meta: two equal meta pages, no root, last page 1.
Init ==
  /\ page = NoTree
  /\ metaDbs = [i \in {0, 1} |-> [ver |-> 0, tree |-> NoTree, rec |-> NoRec]]
  /\ metaLast = [i \in {0, 1} |-> 1]
  /\ metaTxnid = [i \in {0, 1} |-> 0]
  /\ mti = 0
  /\ slot = [r \in Reader |-> Idle]
  /\ rpc = [r \in Reader |-> "idle"]
  /\ rid = [r \in Reader |-> 0]
  /\ view = [r \in Reader |-> NoView]
  /\ rnext = [r \in Reader |-> 0]
  /\ wpc = "idle" /\ begun = 0 /\ wid = 0
  /\ wtree = NoTree /\ wrec = NoRec /\ wnext = 0
  /\ freePgs = {} /\ pghead = {} /\ pglast = 0 /\ dirty = {}
  /\ req = 0 /\ scan = {} /\ oldest = 0

-----------------------------------------------------------------------------
(* Read transactions: mdb_txn_renew0 with MDB_TXN_RDONLY.                   *)

\* "txn->mt_txnid = r->mr_txnid = ti->mti_txnid": the load of the shared id.
LoadTxnid(r) ==
  /\ rpc[r] = "idle"
  /\ rid' = [rid EXCEPT ![r] = mti]
  /\ rpc' = [rpc EXCEPT ![r] = "loaded"]
  /\ UNCHANGED <<shared, slot, view, rnext, writer>>

\* The same statement's store into the reader's slot.
StoreSlot(r) ==
  /\ rpc[r] = "loaded"
  /\ slot' = [slot EXCEPT ![r] = rid[r]]
  /\ rpc' = [rpc EXCEPT ![r] = "stored"]
  /\ UNCHANGED <<shared, rid, view, rnext, writer>>

\* memcpy of mm_dbs from the meta page the id's parity selects.
\* Mutant: from the other one.
CopyOtherDbs(r) ==
  /\ rpc[r] = "stored"
  /\ LET m == metaDbs[Toggle(rid[r] + 1)]
     IN view' = [view EXCEPT ![r] = [ver |-> m.ver, tree |-> m.tree]]
  /\ rpc' = [rpc EXCEPT ![r] = "copied"]
  /\ UNCHANGED <<shared, slot, rid, rnext, writer>>
CopyDbs(r) ==
  /\ rpc[r] = "stored"
  /\ LET m == metaDbs[Toggle(rid[r])]
     IN view' = [view EXCEPT ![r] = [ver |-> m.ver, tree |-> m.tree]]
  /\ rpc' = [rpc EXCEPT ![r] = "copied"]
  /\ UNCHANGED <<shared, slot, rid, rnext, writer>>

\* mt_next_pgno = mm_last_pg + 1, from the same meta page.
CopyLast(r) ==
  /\ rpc[r] = "copied"
  /\ rnext' = [rnext EXCEPT ![r] = metaLast[Toggle(rid[r])] + 1]
  /\ rpc' = [rpc EXCEPT ![r] = "active"]
  /\ UNCHANGED <<shared, slot, rid, view, writer>>

\* mdb_txn_reset0 of a read transaction: the slot is emptied, nothing more.
EndRead(r) ==
  /\ rpc[r] = "active"
  /\ slot' = [slot EXCEPT ![r] = Idle]
  /\ rpc' = [rpc EXCEPT ![r] = "idle"]
  /\ rid' = [rid EXCEPT ![r] = 0]
  /\ view' = [view EXCEPT ![r] = NoView]
  /\ rnext' = [rnext EXCEPT ![r] = 0]
  /\ UNCHANGED <<shared, writer>>

ReaderStep(r) == \/ LoadTxnid(r) \/ StoreSlot(r) \/ CopyDbs(r)
                 \/ CopyLast(r) \/ EndRead(r)

-----------------------------------------------------------------------------
(* The write transaction.                                                   *)

\* What mdb_txn_reset0 and the end of mdb_txn_commit leave of the writer:
\* nothing, and wmutex released.
\* Mutant: me_pghead and me_pglast outlive the transaction.
UnlockedStale ==
  /\ wpc' = "idle" /\ wid' = 0
  /\ wtree' = NoTree /\ wrec' = NoRec /\ wnext' = 0
  /\ freePgs' = {} /\ pghead' = pghead /\ pglast' = pglast /\ dirty' = {}
  /\ req' = 0 /\ scan' = {} /\ oldest' = 0
  /\ begun' = begun
Unlocked ==
  /\ wpc' = "idle" /\ wid' = 0
  /\ wtree' = NoTree /\ wrec' = NoRec /\ wnext' = 0
  /\ freePgs' = {} /\ pghead' = {} /\ pglast' = 0 /\ dirty' = {}
  /\ req' = 0 /\ scan' = {} /\ oldest' = 0
  /\ begun' = begun

\* mdb_txn_renew0: lock wmutex, take the next id, copy the newest meta page.
Begin ==
  /\ wpc = "idle"
  /\ begun < MaxTxn
  /\ wpc' = "run"
  /\ begun' = begun + 1
  /\ wid' = mti + 1
  /\ wtree' = metaDbs[Toggle(mti)].tree
  /\ wrec' = metaDbs[Toggle(mti)].rec
  /\ wnext' = metaLast[Toggle(mti)] + 1
  /\ UNCHANGED <<shared, reader, freePgs, alloc, dirty, req>>

\* mdb_page_touch of a clean page, or mdb_page_new: a page is asked for.
Touch(p) ==
  /\ wpc = "run"
  /\ p \in InTree(wtree) \ dirty
  /\ wpc' = "alloc"
  /\ req' = p
  /\ UNCHANGED <<shared, reader, begun, wid, wtree, wrec, wnext, freePgs,
                 alloc, dirty>>

NewPage ==
  /\ wpc = "run"
  /\ Cardinality(InTree(wtree)) < MaxTree
  /\ wpc' = "alloc"
  /\ UNCHANGED <<shared, reader, begun, wid, wtree, wrec, wnext, freePgs,
                 alloc, dirty, req>>

\* The end of mdb_page_alloc and of the touch or the page creation that asked
\* for the page: q is dirty and in the tree, the touched page is freed.
Obtain(q) ==
  /\ dirty' = dirty \cup {q}
  /\ wtree' = [p \in Page |-> IF p = q THEN begun
                              ELSE IF p = req THEN 0 ELSE wtree[p]]
  /\ freePgs' = IF req = 0 THEN freePgs ELSE freePgs \cup {req}
  /\ page' = IF WriteMap THEN [page EXCEPT ![q] = begun] ELSE page
  /\ req' = 0
  /\ wpc' = "run"
  /\ UNCHANGED <<meta, mti, reader, begun, wid, wrec>>

\* search_done with a page of me_pghead: the smallest one.
TakeFree ==
  /\ wpc = "alloc"
  /\ \E q \in pghead :
       /\ \A x \in pghead : q <= x
       /\ pghead' = pghead \ {q}
       /\ Obtain(q)
  /\ UNCHANGED <<wnext, pglast, scan, oldest>>

\* me_pghead has nothing: mdb_find_oldest starts from the previous id.
\* Mutant: it starts from the writer's own id.
StartScanFromOwn ==
  /\ wpc = "alloc"
  /\ pghead = {}
  /\ wpc' = "scan"
  /\ scan' = Reader
  /\ oldest' = wid
  /\ UNCHANGED <<shared, reader, begun, wid, wtree, wrec, wnext, freePgs,
                 pghead, pglast, dirty, req>>
StartScan ==
  /\ wpc = "alloc"
  /\ pghead = {}
  /\ wpc' = "scan"
  /\ scan' = Reader
  /\ oldest' = wid - 1
  /\ UNCHANGED <<shared, reader, begun, wid, wtree, wrec, wnext, freePgs,
                 pghead, pglast, dirty, req>>

\* A busy slot lowers the minimum.
\* Mutant: the last busy slot wins.
LastBounds(r) == slot[r] # Idle
Bounds(r) == slot[r] # Idle /\ slot[r] < oldest

\* It reads one reader slot, without a lock.
\* Mutant: it waits for an old reader to end.
ScanSlotWaits(r) ==
  /\ wpc = "scan"
  /\ r \in scan
  /\ ~Bounds(r)
  /\ scan' = scan \ {r}
  /\ UNCHANGED <<shared, reader, wpc, begun, wid, wtree, wrec, wnext, freePgs,
                 pghead, pglast, dirty, req, oldest>>
ScanSlot(r) ==
  /\ wpc = "scan"
  /\ r \in scan
  /\ scan' = scan \ {r}
  /\ oldest' = IF Bounds(r) THEN slot[r] ELSE oldest
  /\ UNCHANGED <<shared, reader, wpc, begun, wid, wtree, wrec, wnext, freePgs,
                 pghead, pglast, dirty, req>>

\* The record mdb_page_alloc would read next, when it is old enough.
\* Mutant: a record as old as the oldest reader is taken too.
FetchableToo(k) ==
  /\ k > pglast
  /\ wrec[k] # {}
  /\ \A j \in Txn : j > pglast /\ wrec[j] # {} => k <= j
  /\ k <= oldest
Fetchable(k) ==
  /\ k > pglast
  /\ wrec[k] # {}
  /\ \A j \in Txn : j > pglast /\ wrec[j] # {} => k <= j
  /\ k < oldest

\* Merge that record into me_pghead; the search then finds a page in it.
Fetch ==
  /\ wpc = "scan"
  /\ scan = {}
  /\ \E k \in Txn :
       /\ Fetchable(k)
       /\ pghead' = pghead \cup wrec[k]
       /\ pglast' = k
  /\ wpc' = "alloc"
  /\ oldest' = 0
  /\ UNCHANGED <<shared, reader, begun, wid, wtree, wrec, wnext, freePgs,
                 scan, dirty, req>>

\* The map has room for a page past the last one.
\* Mutant: the limit is not tested.
AlwaysRoom == TRUE
HasRoom == wnext + 1 < MaxPg

\* No record is old enough: a page past the last one ...
TakeNew ==
  /\ wpc = "scan"
  /\ scan = {}
  /\ \A k \in Txn : ~Fetchable(k)
  /\ HasRoom
  /\ wnext' = wnext + 1
  /\ Obtain(wnext)
  /\ oldest' = 0
  /\ UNCHANGED <<pghead, pglast, scan>>

\* ... or MDB_MAP_FULL, and the transaction can only be aborted.
MapFull ==
  /\ wpc = "scan"
  /\ scan = {}
  /\ \A k \in Txn : ~Fetchable(k)
  /\ ~HasRoom
  /\ wpc' = "failed"
  /\ oldest' = 0
  /\ UNCHANGED <<shared, reader, begun, wid, wtree, wrec, wnext, freePgs,
                 pghead, pglast, scan, dirty, req>>

\* A page leaves the tree: mdb_page_merge, mdb_rebalance, mdb_drop0, the else
\* branch of mdb_ovpage_free.  Its parent was touched before.
FreePage(p) ==
  /\ wpc = "run"
  /\ dirty # {}
  /\ p \in InTree(wtree)
  /\ wtree' = [wtree EXCEPT ![p] = 0]
  /\ freePgs' = freePgs \cup {p}
  /\ UNCHANGED <<shared, reader, wpc, begun, wid, wrec, wnext, alloc, dirty,
                 req>>

\* mdb_ovpage_free of a page this transaction allocated: straight back to
\* me_pghead, if there is one (me_pglast is set with it).  The dirty leaf that
\* referred to it stays dirty.
\* Mutant: the page need not be one this transaction allocated.
FreeAnyOverflow(p) ==
  /\ wpc = "run"
  /\ pglast # 0
  /\ p \in InTree(wtree)
  /\ dirty \ {p} # {}
  /\ wtree' = [wtree EXCEPT ![p] = 0]
  /\ pghead' = pghead \cup {p}
  /\ dirty' = dirty \ {p}
  /\ UNCHANGED <<shared, reader, wpc, begun, wid, wrec, wnext, freePgs,
                 pglast, scan, oldest, req>>
FreeOverflow(p) ==
  /\ wpc = "run"
  /\ pglast # 0
  /\ p \in InTree(wtree) \cap dirty
  /\ dirty # {p}
  /\ wtree' = [wtree EXCEPT ![p] = 0]
  /\ pghead' = pghead \cup {p}
  /\ dirty' = dirty \ {p}
  /\ UNCHANGED <<shared, reader, wpc, begun, wid, wrec, wnext, freePgs,
                 pglast, scan, oldest, req>>

\* mdb_page_spill: some dirty pages are written to the file early.
Spill(p) ==
  /\ wpc = "run"
  /\ p \in dirty
  /\ page[p] # begun
  /\ page' = [page EXCEPT ![p] = begun]
  /\ UNCHANGED <<meta, mti, reader, writer>>

\* mdb_txn_abort, and mdb_txn_commit of a transaction flagged with an error.
Abort ==
  /\ wpc \in {"run", "failed"}
  /\ Unlocked
  /\ UNCHANGED <<shared, reader>>

\* mdb_txn_commit of a transaction that wrote nothing.
CommitNothing ==
  /\ wpc = "run"
  /\ dirty = {}
  /\ Unlocked
  /\ UNCHANGED <<shared, reader>>

\* mdb_freelist_save: the records read into me_pghead are deleted, the pages
\* freed are saved under this id, what is left of me_pghead under me_pglast.
\* Mutant: what is left of me_pghead is forgotten.
SavedRecLost == [k \in Txn |-> IF k = wid THEN freePgs
                               ELSE IF k <= pglast THEN {} ELSE wrec[k]]
SavedRec == [k \in Txn |-> IF k = wid THEN freePgs
                           ELSE IF k = pglast THEN pghead
                           ELSE IF k < pglast THEN {} ELSE wrec[k]]

\* Mutant: the meta page is written before the pages it reaches.
FreelistSaveUnflushed ==
  /\ wpc = "run"
  /\ dirty # {}
  /\ wrec' = SavedRec
  /\ wpc' = "metaDbs"
  /\ pghead' = {}
  /\ UNCHANGED <<shared, reader, begun, wid, wtree, wnext, freePgs, pglast,
                 scan, oldest, dirty, req>>

FreelistSave ==
  /\ wpc = "run"
  /\ dirty # {}
  /\ wrec' = SavedRec
  /\ wpc' = "flush"
  /\ pghead' = {}
  /\ UNCHANGED <<shared, reader, begun, wid, wtree, wnext, freePgs, pglast,
                 scan, oldest, dirty, req>>

\* mdb_page_flush: the dirty pages are written at their page numbers.
PageFlush ==
  /\ wpc = "flush"
  /\ page' = [p \in Page |-> IF p \in dirty THEN begun ELSE page[p]]
  /\ wpc' = "sync"
  /\ UNCHANGED <<meta, mti, reader, begun, wid, wtree, wrec, wnext, freePgs,
                 alloc, dirty, req>>

\* mdb_env_sync.
EnvSync ==
  /\ wpc = "sync"
  /\ wpc' = "metaDbs"
  /\ UNCHANGED <<shared, reader, begun, wid, wtree, wrec, wnext, freePgs,
                 alloc, dirty, req>>

\* An I/O error in either: what was written stays, the commit is an abort.
CommitFails ==
  /\ \/ /\ wpc = "flush"
        /\ \E S \in SUBSET dirty :
             page' = [p \in Page |-> IF p \in S THEN begun ELSE page[p]]
     \/ /\ wpc = "sync"
        /\ page' = page
  /\ Unlocked
  /\ UNCHANGED <<meta, mti, reader>>

\* mdb_env_write_meta: mm_dbs, then mm_last_pg, then mm_txnid of the meta page
\* the id's parity selects, the one the last commit did not write.
\* Mutant: mm_txnid is stored with mm_dbs, ahead of mm_last_pg.
WriteMetaIdEarly ==
  /\ wpc = "metaDbs"
  /\ metaDbs' = [metaDbs EXCEPT ![Toggle(wid)] =
                   [ver |-> wid, tree |-> wtree, rec |-> wrec]]
  /\ metaTxnid' = [metaTxnid EXCEPT ![Toggle(wid)] = wid]
  /\ wpc' = "metaLast"
  /\ UNCHANGED <<page, metaLast, mti, reader, begun, wid, wtree, wrec, wnext,
                 freePgs, alloc, dirty, req>>
WriteMetaDbs ==
  /\ wpc = "metaDbs"
  /\ metaDbs' = [metaDbs EXCEPT ![Toggle(wid)] =
                   [ver |-> wid, tree |-> wtree, rec |-> wrec]]
  /\ wpc' = "metaLast"
  /\ UNCHANGED <<page, metaLast, metaTxnid, mti, reader, begun, wid, wtree,
                 wrec, wnext, freePgs, alloc, dirty, req>>

WriteMetaLast ==
  /\ wpc = "metaLast"
  /\ metaLast' = [metaLast EXCEPT ![Toggle(wid)] = wnext - 1]
  /\ wpc' = "metaTxnid"
  /\ UNCHANGED <<page, metaDbs, metaTxnid, mti, reader, begun, wid, wtree,
                 wrec, wnext, freePgs, alloc, dirty, req>>

WriteMetaTxnid ==
  /\ wpc = "metaTxnid"
  /\ metaTxnid' = [metaTxnid EXCEPT ![Toggle(wid)] = wid]
  /\ wpc' = "publish"
  /\ UNCHANGED <<page, metaDbs, metaLast, mti, reader, begun, wid, wtree,
                 wrec, wnext, freePgs, alloc, dirty, req>>

\* Store mti_txnid, then release wmutex.
Publish ==
  /\ wpc = "publish"
  /\ mti' = wid
  /\ Unlocked
  /\ UNCHANGED <<page, meta, reader>>

WriterStep ==
  \/ Begin \/ NewPage \/ TakeFree \/ StartScan \/ Fetch \/ TakeNew \/ MapFull
  \/ \E p \in Page : Touch(p) \/ FreePage(p) \/ FreeOverflow(p) \/ Spill(p)
  \/ \E r \in Reader : ScanSlot(r)
  \/ Abort \/ CommitNothing \/ FreelistSave \/ PageFlush \/ EnvSync
  \/ CommitFails \/ WriteMetaDbs \/ WriteMetaLast \/ WriteMetaTxnid
  \/ Publish

Next == WriterStep \/ \E r \in Reader : ReaderStep(r)

Spec == Init /\ [][Next]_vars

\* Threads are scheduled: a call of mdb_page_alloc, mdb_txn_commit or
\* mdb_txn_renew0 that can go on does.  That a program makes another call, ends
\* its transaction or begins one is not assumed.
CallStep ==
  \/ TakeFree \/ StartScan \/ Fetch \/ TakeNew \/ MapFull
  \/ \E r \in Reader : ScanSlot(r)
  \/ PageFlush \/ EnvSync \/ WriteMetaDbs \/ WriteMetaLast \/ WriteMetaTxnid
  \/ Publish
Fairness ==
  /\ WF_vars(CallStep)
  /\ \A r \in Reader : WF_vars(StoreSlot(r) \/ CopyDbs(r) \/ CopyLast(r))
FairSpec == Spec /\ Fairness

-----------------------------------------------------------------------------
(* Safety.                                                                  *)

\* A reader that has copied its roots finds, on every page they reach, the
\* image the roots expect, however many transactions commit meanwhile: the
\* writer never reuses a page a reader can reach (reader table comment,
\* mdb_find_oldest, mdb_page_alloc).
SnapshotIntact ==
  \A r \in Reader : rpc[r] \in {"copied", "active"} => Intact(view[r].tree)

\* Both meta pages always describe trees whose pages are all in the file: the
\* newest for the next writer, the older one for a reader that is still about
\* to copy it and for a recovery that finds the newest meta page lost.
MetasIntact == \A i \in {0, 1} : Intact(metaDbs[i].tree)

\* The roots the next writer and the next reader start from are whole, even
\* after a meta write failed: mti_txnid never named the failed transaction
\* (mdb_env_write_meta, mdb_txn_renew0).
CommittedIntact == Intact(metaDbs[Toggle(mti)].tree)

\* Every page up to "last" is in the tree t or in exactly one record of rec,
\* and no page beyond it is in either.
Partition(t, rec, last) ==
  \A p \in Page :
    /\ t[p] # 0 => p <= last
    /\ p <= last /\ t[p] = 0 => \E k \in Txn : p \in rec[k]
    /\ \A k \in Txn : p \in rec[k] =>
         p <= last /\ t[p] = 0 /\ \A j \in Txn : p \in rec[j] => j = k

\* mdb_audit: in the newest committed version every page is in use or in one
\* freeDB record; none is lost and none could be handed out twice, whichever
\* commits, aborts and failures came before.
PageConservation ==
  Partition(metaDbs[Toggle(mti)].tree, metaDbs[Toggle(mti)].rec, metaLast[Toggle(mti)])

\* A reader that was delayed between taking its id and copying the roots still
\* reads a version at least as new as that id: the parity of the id selects a
\* meta page that only newer transactions can have overwritten, and the slot
\* never claims more than the reader needs (mdb_txn_renew0).
SnapshotFresh ==
  \A r \in Reader : rpc[r] \in {"copied", "active"} =>
    slot[r] = rid[r] /\ rid[r] <= view[r].ver

\* A reader's roots and its mt_next_pgno come from one version: no page of its
\* snapshot lies beyond mt_next_pgno, where mdb_page_get would answer
\* MDB_PAGE_NOTFOUND (mdb_env_write_meta: "readers will get consistent data
\* regardless of how fresh or how stale their view of these values is").
ViewConsistent ==
  \A r \in Reader : rpc[r] = "active" =>
    \A p \in InTree(view[r].tree) : p < rnext[r]

-----------------------------------------------------------------------------
(* Liveness.                                                                *)

\* Readers and the writer never wait for each other: an allocation, with all its
\* scans and fetches, and a commit come to an end while a reader may stop for
\* ever anywhere in its transaction, and a reader begins whatever the writer
\* does or leaves undone (lmdb.h: "writers cannot block readers, and readers
\* don't block writers"; mdb_find_oldest, mdb_txn_renew0).
NobodyWaits ==
  /\ wpc \notin {"idle", "run", "failed"} ~> wpc \in {"idle", "run", "failed"}
  /\ \A r \in Reader : rpc[r] \notin {"idle", "active"} ~> rpc[r] = "active"

=============================================================================
