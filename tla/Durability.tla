----------------------------- MODULE Durability -----------------------------
(***************************************************************************)
(* What of MVCC survives a crash (liblmdb/mdb.c).  Under the file that the  *)
(* processes see lies the disk, to which the operating system writes pages *)
(* back when it likes, or in the order they were written when the file     *)
(* system promises that, and at the latest when mdb_env_sync, the O_DSYNC  *)
(* descriptor of the meta pages or their msync asks for it.  A system      *)
(* crash leaves the disk; the death of the processes leaves the file.  The *)
(* next process starts from the meta page mdb_env_pick_meta finds.         *)
(*                                                                         *)
(* A meta page lies in one disk sector: a write of it is whole or absent.  *)
(* With MDB_WRITEMAP the writer's stores to it may reach the disk singly.  *)
(***************************************************************************)
EXTENDS MVCC, Sequences

CONSTANTS Modes,     \* the modes considered: sets of the flags below
          MaxLag     \* bound, in each mode, on the pages, if ordered the
                     \* writes, that the system keeps off the disk

\* Flags of mdb_env_open; two are of the system: "ORDERED", the file system
\* preserves the order of writes, and "IOERRORS", writing a meta page may fail.
Flag == {"NOSYNC", "NOMETASYNC", "MAPASYNC", "ORDERED", "IOERRORS"}

ASSUME DurabilityAssumption ==
  /\ Modes \subseteq SUBSET Flag
  /\ WriteMap => \A m \in Modes : "ORDERED" \notin m
  /\ MaxLag \in [Modes -> Nat \ {0}]

VARIABLES
  mode,      \* the flags the environment was opened with
  disk,      \* what each page of the disk holds
  queue,     \* if ordered: the writes not on disk yet, oldest first
  force,     \* a running mdb_env_sync(env, 1): pages it has yet to write
  forceVer,  \* mti_txnid when it started, None if none runs
  durable    \* the version a crash may not undo, by what lmdb.h promises

cache == <<queue, force, forceVer>>
dvars == <<vars, mode, disk, cache, durable>>

None == -1

NoSync     == "NOSYNC" \in mode
NoMetaSync == "NOMETASYNC" \in mode
MapAsync   == WriteMap /\ "MAPASYNC" \in mode
Ordered    == "ORDERED" \in mode

-----------------------------------------------------------------------------
\* The file: pages 0 and 1 are the meta pages.
Meta(i) == [dbs |-> metaDbs[i], last |-> metaLast[i], txnid |-> metaTxnid[i]]
File == [p \in 0 .. MaxPg - 1 |-> IF p \in Page THEN page[p] ELSE Meta(p)]

\* mdb_env_pick_meta, mdb_env_read_header: the meta page with the larger id.
\* Mutant: the one with the smaller id.
OldestMeta(f) == IF f[0].txnid < f[1].txnid THEN 0 ELSE 1
PickMeta(f) == IF f[0].txnid < f[1].txnid THEN 1 ELSE 0

\* mdb_env_sync(env, 0) returns when the pages are on disk.
\* Mutant: MDB_NOMETASYNC omits this flush too.
SyncsLess == ~NoSync /\ ~NoMetaSync /\ ~MapAsync
SyncsPages == ~NoSync /\ ~MapAsync

\* mdb_env_write_meta returns when the meta page is on disk.
SyncsMeta == ~NoSync /\ ~NoMetaSync /\ ~MapAsync

\* What lmdb.h promises of the flags (mdb_env_open): with none of them, every
\* commit is kept; with MDB_NOMETASYNC "a system crash may undo the last
\* committed transaction"; else nothing is.
Lossy == NoSync \/ MapAsync
KeptBy(commit) == IF Lossy THEN durable
                  ELSE IF NoMetaSync THEN commit - 1 ELSE commit

DInit ==
  /\ Init
  /\ mode \in Modes
  /\ disk = File
  /\ queue = <<>>
  /\ force = {} /\ forceVer = None
  /\ durable = 0

-----------------------------------------------------------------------------
\* The system does not fall too far behind.
InTime == IF Ordered THEN Len(queue') <= MaxLag[mode]
          ELSE Cardinality({p \in DOMAIN disk : disk'[p] # File[p]'}) <= MaxLag[mode]

\* A step that writes to the file, or not, and waits for nothing.
Written ==
  LET changed == {p \in Page : page'[p] # page[p]}
  IN queue' = IF Ordered /\ changed # {}
                THEN Append(queue, [p \in changed |-> page'[p]]) ELSE queue

WorkStep ==
  /\ \/ Begin \/ NewPage \/ TakeFree \/ StartScan \/ Fetch \/ TakeNew
     \/ MapFull \/ Abort \/ CommitNothing \/ FreelistSave \/ PageFlush
     \/ CommitFails \/ WriteMetaDbs \/ WriteMetaLast
     \/ \E p \in Page : Touch(p) \/ FreePage(p) \/ FreeOverflow(p) \/ Spill(p)
     \/ \E r \in Reader : ScanSlot(r) \/ ReaderStep(r)
  /\ Written
  /\ UNCHANGED <<mode, disk, force, forceVer, durable>>
  /\ InTime

\* mdb_env_sync(env, 0) of the commit.
SyncPages ==
  /\ EnvSync
  /\ IF SyncsPages THEN disk' = File /\ queue' = <<>> /\ force' = {}
                   ELSE UNCHANGED <<disk, queue, force>>
  /\ UNCHANGED <<mode, forceVer, durable>>

\* The end of mdb_env_write_meta's pwrite, or its last store.
MetaWritten ==
  /\ WriteMetaTxnid
  /\ queue' = IF Ordered THEN Append(queue, [i \in {Toggle(wid)} |-> Meta(i)'])
                         ELSE queue
  /\ UNCHANGED <<mode, disk, force, forceVer, durable>>
  /\ InTime

\* mdb_env_write_meta fails.  After a failed pwrite the old mm_last_pg and
\* mm_txnid are written back (the two fields not yet overwritten here) and the
\* new mm_dbs stay; a failed msync leaves all three.  The new meta page may be on
\* the disk all the same; where commits are not synced, nothing is promised until
\* a forced sync that starts later.  The MDB_env becomes unusable
\* (MDB_FATAL_ERROR): the next Begin is another process's.
MetaFails ==
  /\ "IOERRORS" \in mode
  /\ wpc = IF WriteMap THEN "publish" ELSE "metaLast"
  /\ Unlocked
  /\ UNCHANGED <<shared, reader>>
  /\ LET new == [dbs |-> [ver |-> wid, tree |-> wtree, rec |-> wrec],
                 last |-> wnext - 1, txnid |-> wid]
     IN disk' \in {disk, [disk EXCEPT ![Toggle(wid)] = new]}
  /\ IF Lossy THEN durable' = None /\ forceVer' = None /\ force' = {}
              ELSE UNCHANGED <<durable, forceVer, force>>
  /\ UNCHANGED <<mode, queue>>

\* The commit returns.
CommitReturns ==
  /\ Publish
  /\ IF SyncsMeta
       THEN /\ disk' = [disk EXCEPT ![Toggle(wid)] = Meta(Toggle(wid))]
            /\ force' = force \ {Toggle(wid)}
       ELSE UNCHANGED <<disk, force>>
  /\ durable' = KeptBy(wid)
  /\ UNCHANGED <<mode, queue, forceVer>>

-----------------------------------------------------------------------------
\* No pwrite of this meta page is under way (the kernel excludes write-back).
Whole(p) == \/ WriteMap
            \/ p # Toggle(wid)
            \/ wpc \notin {"metaLast", "metaTxnid"}

\* The system writes a page to the disk when it likes ...
WriteBack(p) ==
  /\ ~Ordered
  /\ disk[p] # File[p] \/ p \in force
  /\ Whole(p)
  /\ disk' = [disk EXCEPT ![p] = File[p]]
  /\ force' = force \ {p}
  /\ UNCHANGED <<vars, mode, queue, forceVer, durable>>

\* ... or does the oldest write first (one of the pages of one flush).
WriteBackNext ==
  /\ Ordered
  /\ queue # <<>>
  /\ \E p \in DOMAIN Head(queue) :
       /\ disk' = [disk EXCEPT ![p] = Head(queue)[p]]
       /\ LET rest == DOMAIN Head(queue) \ {p}
          IN queue' = IF rest = {} THEN Tail(queue)
                      ELSE <<[x \in rest |-> Head(queue)[x]]>> \o Tail(queue)
  /\ UNCHANGED <<vars, mode, force, forceVer, durable>>

\* mdb_env_sync(env, 1), from any thread and with no lock: what was not on
\* disk when it started is written, page after page.
\* Mutant: it does nothing in an environment with MDB_NOSYNC.
ForceNothing ==
  /\ ~Ordered
  /\ forceVer = None
  /\ force' = {}
  /\ forceVer' = mti
  /\ UNCHANGED <<vars, mode, disk, queue, durable>>
ForceStart ==
  /\ ~Ordered
  /\ forceVer = None
  /\ force' = {p \in DOMAIN disk : disk[p] # File[p]}
  /\ forceVer' = mti
  /\ UNCHANGED <<vars, mode, disk, queue, durable>>

ForceReturns ==
  /\ forceVer # None
  /\ force = {}
  /\ forceVer' = None
  /\ durable' = IF forceVer > durable THEN forceVer ELSE durable
  /\ UNCHANGED <<vars, mode, disk, queue, force>>

-----------------------------------------------------------------------------
\* The next process finds the file as f: mdb_env_setup_locks empties the reader
\* table, mdb_env_share_locks sets mti_txnid from the newest meta page.
Reopened(f) ==
  /\ page' = [p \in Page |-> f[p]]
  /\ metaDbs' = [i \in {0, 1} |-> f[i].dbs]
  /\ metaLast' = [i \in {0, 1} |-> f[i].last]
  /\ metaTxnid' = [i \in {0, 1} |-> f[i].txnid]
  /\ mti' = f[PickMeta(f)].txnid
  /\ slot' = [r \in Reader |-> Idle]
  /\ rpc' = [r \in Reader |-> "idle"]
  /\ rid' = [r \in Reader |-> 0]
  /\ view' = [r \in Reader |-> NoView]
  /\ rnext' = [r \in Reader |-> 0]
  /\ Unlocked
  /\ force' = {} /\ forceVer' = None

\* Whether integrity is promised whenever the system crashes.
Safe == ~Lossy \/ Ordered

\* Nothing was committed, or is being, since what is promised to be on disk.
Settled == durable = mti /\ wpc \notin {"metaLast", "metaTxnid", "publish"}

\* A system crash.  One that may corrupt the file is not followed.
Crash ==
  /\ Safe \/ Settled
  /\ Reopened(disk)
  /\ queue' = <<>>
  /\ UNCHANGED <<mode, disk, durable>>

\* Every process is killed: the file stays.  A pwrite is not cut in two.
Restart ==
  /\ WriteMap \/ wpc \notin {"metaLast", "metaTxnid"}
  /\ Reopened(File)
  /\ UNCHANGED <<mode, disk, queue, durable>>

DNext ==
  \/ WorkStep \/ SyncPages \/ MetaWritten \/ MetaFails \/ CommitReturns
  \/ WriteBackNext \/ ForceStart \/ ForceReturns \/ Crash \/ Restart
  \/ \E p \in DOMAIN disk : WriteBack(p)

DSpec == DInit /\ [][DNext]_dvars

-----------------------------------------------------------------------------
\* What the next process would find on the disk.
Recovered == disk[PickMeta(disk)]

DiskIntact ==
  /\ \A p \in InTree(Recovered.dbs.tree) : disk[p] = Recovered.dbs.tree[p]
  /\ Partition(Recovered.dbs.tree, Recovered.dbs.rec, Recovered.last)

\* Whenever the system crashes, recovery finds one version of the database,
\* published or just being published, with all its pages and a free list that
\* neither loses a page nor offers one in use ("maintains database integrity",
\* mdb_env_open in lmdb.h, of all modes but MDB_NOSYNC and MDB_MAPASYNC, and of
\* MDB_NOSYNC when the file system preserves write order).
RecoveredIntact ==
  Safe => /\ DiskIntact
          /\ Recovered.dbs.ver = Recovered.txnid
          /\ \/ Recovered.txnid <= mti
             \/ Recovered.txnid = wid /\ wpc = "publish"

\* A crash never undoes a commit that the modes in force promise to keep, nor
\* what a completed mdb_env_sync(env, 1) covered.
Durable == durable <= Recovered.txnid

\* In the other modes the file on disk is whole from the return of
\* mdb_env_sync(env, 1) until the next commit writes its meta page, although
\* the next transaction may already be changing pages (lmdb.h, MDB_MAPASYNC).
SyncedIntact ==
  Settled => DiskIntact /\ Recovered.txnid = mti
=============================================================================
