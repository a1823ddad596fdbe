-------------------------- MODULE Durability_proof --------------------------
(***************************************************************************)
(* Proofs about Durability, for any number of pages and transactions and   *)
(* for every mode in which a write of the meta page fails only where       *)
(* nothing is promised of it.                                              *)
(***************************************************************************)
EXTENDS Durability, MVCC_proof

\* Writes of the meta page fail in modes that sync nothing: in the others a
\* failed meta page that reached the disk may be recovered (see README).
ErrorsUnsynced ==
  \A m \in Modes :
    "IOERRORS" \in m => ~WriteMap /\ "NOSYNC" \in m /\ "ORDERED" \notin m

FilePage == 0 .. MaxPg - 1
MetaPage == [dbs : Dbs, last : 1 .. MaxPg - 1, txnid : Txn]

\* A content of the file or of the disk, and a write that is in the queue: some
\* pages of one flush, or one meta page.
FileOK(f) == /\ f = [p \in FilePage |-> f[p]]
             /\ \A p \in Page : f[p] \in Image
             /\ \A i \in {0, 1} : f[i] \in MetaPage
PageWrite == UNION {[D -> Image] : D \in (SUBSET Page) \ {{}}}
MetaWrite == UNION {[{i} -> MetaPage] : i \in {0, 1}}

DTypeOK ==
  /\ mode \in Modes
  /\ FileOK(disk)
  /\ queue \in Seq(PageWrite \cup MetaWrite)
  /\ force \subseteq FilePage
  /\ forceVer \in Txn \cup {None}
  /\ durable \in Txn \cup {None}

Older(m, n) == m < n \/ (m = 0 /\ n = 0)

\* The content f holds version n, whole, and recovery finds it there.
VersionOK(m, n) ==
  /\ m.txnid = n /\ m.dbs.ver = n
  /\ Partition(m.dbs.tree, m.dbs.rec, m.last)
  /\ m.dbs.rec[0] = {}
  /\ \A k \in Txn : k > n => m.dbs.rec[k] = {}
WholeOn(f, t) == \A p \in Page : t[p] # 0 => f[p] = t[p]
Sound(f, n) ==
  /\ VersionOK(f[Toggle(n)], n)
  /\ WholeOn(f, f[Toggle(n)].dbs.tree)
  /\ Older(f[Toggle(n + 1)].txnid, n)

\* Phases from the sync of the pages on, and those of a meta page half written.
SyncDone == {"metaDbs"} \cup MetaDone
Torn     == {"metaLast", "metaTxnid"}

\* The ids of the meta pages, as recovery will compare them, and the newest
\* version in the file.
TxnInv ==
  /\ metaTxnid[Toggle(mti)] = mti
  /\ IF wpc = "publish" THEN metaTxnid[Toggle(mti + 1)] = wid
                        ELSE Older(metaTxnid[Toggle(mti + 1)], mti)
Top == IF wpc = "publish" THEN wid ELSE mti

\* What is promised is in the file, and on the disk or in a running forced sync.
AtLeast(f, n) == f[Toggle(n)].txnid >= n
PromiseInv ==
  /\ durable <= mti /\ AtLeast(File, durable)
  /\ ~Ordered => AtLeast(disk, durable)
  /\ forceVer # None =>
       /\ ~Ordered /\ forceVer <= mti /\ AtLeast(File, forceVer)
       /\ Toggle(forceVer) \in force \/ AtLeast(disk, forceVer)

\* A synced mode: the newest version is on the disk with its meta page, or
\* without it, and then the version before is.
OnDisk == disk[Toggle(mti)] = File[Toggle(mti)]
NewestOnDisk ==
  /\ OnDisk
  /\ \/ Older(disk[Toggle(mti + 1)].txnid, mti)
     \/ wpc = "publish" /\ disk[Toggle(mti + 1)] = File[Toggle(mti + 1)]
PreviousOnDisk ==
  /\ mti >= 1
  /\ disk[Toggle(mti + 1)] = File[Toggle(mti + 1)]
  /\ Sound(disk, mti - 1)
  /\ SnapshotOK(metaDbs[Toggle(mti + 1)].tree, mti - 1)
SyncInv ==
  ~Lossy /\ ~Ordered =>
    /\ WholeOn(disk, Cur.tree)
    /\ NewestOnDisk \/ PreviousOnDisk
    /\ wpc \in SyncDone => WholeOn(disk, wtree) /\ NewestOnDisk

\* An unsynced mode: what a forced sync has still to write of the version it
\* started from, while that is the newest one.
Except(S) ==
  /\ Toggle(mti) \in S \/ OnDisk
  /\ \A p \in Page : Cur.tree[p] # 0 => p \in S \/ disk[p] = Cur.tree[p]
  /\ \/ Toggle(mti + 1) \in S
     \/ Older(disk[Toggle(mti + 1)].txnid, mti)
     \/ wpc = "publish"
LossyInv ==
  Lossy /\ ~Ordered => /\ durable = mti => Except({})
                       /\ forceVer = mti => Except(force)

\* An ordered file system: h[i] is the disk after i writes of the queue.
Over(q, f) == [p \in FilePage |-> IF p \in DOMAIN q THEN q[p] ELSE f[p]]
Reached(f) ==
  /\ FileOK(f)
  /\ \E n \in Txn : n <= Top /\ Sound(f, n)
  /\ AtLeast(f, durable)
  /\ ~Lossy /\ wpc \in SyncDone => AtLeast(f, mti)
History(h) ==
  /\ h[0] = disk
  /\ \A i \in 1 .. Len(queue) : h[i] = Over(queue[i], h[i - 1])
  /\ \A i \in 0 .. Len(queue) : Reached(h[i])
  /\ \A p \in FilePage : \/ h[Len(queue)][p] = File[p]
                         \/ wpc \in Torn /\ p = Toggle(wid)
QueueShort == \/ queue = <<>>
              \/ /\ wpc = "publish" /\ Len(queue) = 1
                 /\ DOMAIN queue[1] = {Toggle(wid)}
OrderInv ==
  Ordered =>
    /\ \E h : History(h)
    /\ ~Lossy /\ wpc \in SyncDone => QueueShort

DInv == /\ CoreInv /\ DTypeOK /\ TxnInv /\ PromiseInv
        /\ SyncInv /\ LossyInv /\ OrderInv
-----------------------------------------------------------------------------
(* The file, the disk and what the next process finds.                      *)

\* The pages of the file: the two meta pages and those the trees may use.
LEMMA Pages ==
  /\ FilePage = Page \cup {0, 1}
  /\ 0 \notin Page /\ 1 \notin Page
  BY MVCCAssumption DEF FilePage, Page

\* The meta page that the running transaction writes is not the newest one.
LEMMA Toggles ==
  ASSUME TypeInv
  PROVE  /\ mti \in Nat /\ mti \in Txn /\ mti + 1 \in Nat
         /\ Toggle(mti) \in {0, 1} /\ Toggle(mti + 1) = 1 - Toggle(mti)
         /\ Toggle(mti + 1) \in {0, 1} /\ Toggle(mti + 1) # Toggle(mti)
         /\ Toggle(mti + 2) = Toggle(mti)
         /\ mti >= 1 => Toggle(mti - 1) = Toggle(mti + 1)
         /\ wpc # "idle" => wid = mti + 1 /\ wid \in Txn /\ wid \in Nat
<1>1. mti \in Nat /\ mti \in Txn /\ wid \in Txn /\ wid \in Nat /\ mti + 1 \in Nat
  BY DEF TypeInv, TypeOK, Txn
<1>2. Toggle(mti) \in {0, 1} /\ Toggle(mti + 1) = 1 - Toggle(mti)
  BY <1>1, ToggleFacts
<1>3. Toggle((mti + 1) + 1) = 1 - Toggle(mti + 1) /\ (mti + 1) + 1 = mti + 2
  BY <1>1, ToggleFacts
<1>4. mti >= 1 => Toggle((mti - 1) + 1) = 1 - Toggle(mti - 1) /\ (mti - 1) + 1 = mti
                  /\ Toggle(mti - 1) \in {0, 1}
  BY <1>1, ToggleFacts
<1>5. wpc # "idle" => wid = mti + 1
  BY DEF TypeInv, Counters
<1> QED BY <1>1, <1>2, <1>3, <1>4, <1>5

\* What the file holds, page by page.
FileFacts == /\ FileOK(File)
             /\ \A p \in Page : File[p] = page[p]
             /\ \A i \in {0, 1} : /\ File[i] = Meta(i)
                                  /\ File[i].txnid = metaTxnid[i]
\* The file is typed, and holds the meta pages and the pages of MVCC.
LEMMA FileAt == TypeOK => FileFacts
<1> SUFFICES ASSUME TypeOK
             PROVE  FileFacts
  OBVIOUS
<1>1. File = [p \in FilePage |-> IF p \in Page THEN page[p] ELSE Meta(p)]
  BY DEF File, FilePage
<1>2. \A p \in Page : File[p] = page[p] /\ File[p] \in Image
  BY <1>1, Pages DEF TypeOK
<1>3. \A i \in {0, 1} : File[i] = Meta(i)
  BY <1>1, Pages
<1>4. ASSUME NEW i \in {0, 1}
      PROVE  Meta(i) \in MetaPage
  BY <1>4 DEF Meta, MetaPage, TypeOK
<1>5. FileOK(File)
  <2>1. File = [p \in FilePage |-> File[p]]
    BY <1>1
  <2> QED BY <1>2, <1>3, <1>4, <2>1 DEF FileOK
<1> QED BY <1>2, <1>3, <1>5 DEF FileFacts, Meta

\* The same after a step.
LEMMA FileAtNext == TypeOK' => FileFacts'
  BY FileAt, PTL

\* A content that holds version n as recovery wants it is one that holds no
\* other, and recovery finds n.
LEMMA SoundMeta ==
  ASSUME NEW f, FileOK(f), NEW n \in Txn, Sound(f, n)
  PROVE  /\ PickMeta(f) = Toggle(n) /\ f[PickMeta(f)].txnid = n
         /\ \A m \in Txn \cup {None} : AtLeast(f, m) => m <= n
         /\ \A m \in Txn : f[Toggle(m)].txnid = m => m <= n
<1>1. /\ n \in Nat /\ Toggle(n) \in {0, 1} /\ Toggle(n + 1) = 1 - Toggle(n)
  BY ToggleFacts DEF Txn
<1>2. f[0].txnid \in Nat /\ f[1].txnid \in Nat
  BY DEF FileOK, MetaPage, Txn
<1>3. f[Toggle(n)].txnid = n /\ Older(f[1 - Toggle(n)].txnid, n)
  BY <1>1 DEF Sound, VersionOK
<1>4. f[1 - Toggle(n)].txnid <= n /\ (f[1 - Toggle(n)].txnid = n => n = 0)
  BY <1>1, <1>2, <1>3 DEF Older
<1>5. n = 0 => Toggle(n) = 0
  BY DEF Toggle
<1>6. PickMeta(f) = Toggle(n)
  BY <1>1, <1>2, <1>3, <1>4, <1>5 DEF PickMeta
<1>7. ASSUME NEW m \in Txn \cup {None}, AtLeast(f, m)
      PROVE  m <= n
  <2>1. m = -1 \/ m \in Nat
    BY DEF Txn, None
  <2>2. m \in Nat => Toggle(m) \in {0, 1}
    BY ToggleFacts
  <2>3. m \in Nat => f[Toggle(m)].txnid <= n
    BY <1>1, <1>3, <1>4, <2>2
  <2> QED BY <1>1, <1>2, <1>7, <2>1, <2>2, <2>3 DEF AtLeast
<1>8. ASSUME NEW m \in Txn, f[Toggle(m)].txnid = m
      PROVE  m <= n
  BY <1>7, <1>8 DEF AtLeast, Txn
<1> QED BY <1>3, <1>6, <1>7, <1>8

\* The newest version is in the file, with its meta page.
LEMMA NewestInFile ==
  ASSUME CoreInv, TxnInv
  PROVE  /\ File[Toggle(mti)].dbs = Cur /\ File[Toggle(mti)].txnid = mti
         /\ VersionOK(File[Toggle(mti)], mti)
         /\ WholeOn(File, Cur.tree)
         /\ wpc # "publish" => Older(File[Toggle(mti + 1)].txnid, mti)
<1>1. TypeOK /\ TypeInv
  BY DEF CoreInv, TypeInv
<1>2. /\ File[Toggle(mti)].dbs = Cur /\ File[Toggle(mti)].last = CurLast
      /\ File[Toggle(mti)].txnid = mti
  BY <1>1, Toggles, FileAt DEF FileFacts, Meta, Cur, CurLast, TxnInv
<1>3. VersionOK(File[Toggle(mti)], mti)
  BY <1>2 DEF VersionOK, CoreInv, CurInv, RecInv, PageConservation, Cur, CurLast
<1>4. WholeOn(File, Cur.tree)
  BY <1>1, FileAt DEF FileFacts, WholeOn, CoreInv, CurInv, Held
<1> QED BY <1>1, <1>2, <1>3, <1>4, Toggles, FileAt DEF FileFacts, TxnInv

NewestFacts ==
  /\ WholeOn(File, Cur.tree) /\ File[Toggle(mti)].txnid = mti
  /\ wpc # "publish" => Older(File[Toggle(mti + 1)].txnid, mti)
\* It is the part of NewestInFile that the steps need, before and after.
LEMMA NewestNow == CoreInv /\ TxnInv => NewestFacts
  BY NewestInFile DEF NewestFacts
\* The same after a step.
LEMMA NewestNext == CoreInv' /\ TxnInv' => NewestFacts'
  BY NewestNow, PTL

\* The file holds the newest version, or the one being published.
TopSound == Top \in Txn /\ Top <= begun /\ Sound(File, Top)
\* That version is whole in the file, and recovery from the file finds it.
LEMMA FileSound == CoreInv /\ TxnInv => TopSound
<1> SUFFICES ASSUME CoreInv, TxnInv
             PROVE  TopSound
  OBVIOUS
<1>1. TypeOK /\ Counters /\ TypeInv
  BY DEF CoreInv, TypeInv
<1>2. CASE wpc = "publish"
  <2>1. Top = wid /\ wid = mti + 1 /\ wid \in Txn
    BY <1>1, <1>2, Toggles DEF Top
  <2>2. File[Toggle(wid)] = [dbs |-> [ver |-> wid, tree |-> wtree, rec |-> wrec],
                             last |-> wnext - 1, txnid |-> wid]
    <3>1. /\ metaDbs[Toggle(wid)] = [ver |-> wid, tree |-> wtree, rec |-> wrec]
          /\ metaLast[Toggle(wid)] = wnext - 1
      BY <1>2, <2>1 DEF CoreInv, CurInv, MetaDone
    <3>2. metaTxnid[Toggle(wid)] = wid
      BY <1>2, <2>1 DEF TxnInv
    <3> QED BY <1>1, <2>1, <3>1, <3>2, Toggles, FileAt DEF FileFacts, Meta
  <2>3. Partition(wtree, wrec, wnext - 1)
    BY <1>2 DEF CoreInv, PartInv, EffRec, PreSave
  <2>4. wrec[0] = {} /\ \A k \in Txn : k > wid => wrec[k] = {}
    BY <1>2 DEF CoreInv, RecInv, PreSave
  <2>5. WholeOn(File, wtree)
    <3>1. \A p \in Page : wtree[p] # 0 => page[p] = wtree[p]
      BY <1>2 DEF CoreInv, ImageInv, Flushed, MetaDone
    <3> QED BY <1>1, <3>1, FileAt DEF FileFacts, WholeOn
  <2>6. Older(File[Toggle(wid + 1)].txnid, wid)
    <3>1. Toggle(wid + 1) = Toggle(mti)
      BY <1>1, <2>1, Toggles
    <3>2. File[Toggle(mti)].txnid = mti
      BY <1>1, Toggles, FileAt DEF FileFacts, TxnInv
    <3> QED BY <1>1, <2>1, <3>1, <3>2, Toggles DEF Older
  <2> QED BY <1>1, <2>1, <2>2, <2>3, <2>4, <2>5, <2>6
     DEF Sound, VersionOK, Counters, TopSound
<1>3. CASE wpc # "publish"
  <2>1. Top = mti
    BY <1>3 DEF Top
  <2> QED BY <1>1, <1>3, <2>1, NewestInFile, Toggles DEF Sound, Counters, TopSound
<1> QED BY <1>2, <1>3

\* The same after a step.
LEMMA FileSoundNext == CoreInv' /\ TxnInv' => TopSound'
  BY FileSound, PTL

-----------------------------------------------------------------------------
(* What the steps do to the writer and to the meta pages.                   *)

\* The steps of WorkStep are steps of MVCC.
LEMMA WorkIs ==
  ASSUME WorkStep
  PROVE  WriterStep \/ \E r \in Reader : ReaderStep(r)
  BY DEF WorkStep, WriterStep

\* What a step that writes no id of a meta page leaves alone.
Moves ==
  /\ CoreInv' /\ Kept
  /\ UNCHANGED <<mti, metaTxnid>>
  /\ pglast' <= pglast \/ pglast' < mti
  /\ \/ UNCHANGED <<page, metaDbs, metaLast, wpc, wid, wtree>>
     \/ /\ wpc \notin SyncDone /\ wpc' \notin SyncDone
        /\ UNCHANGED <<metaDbs, metaLast>>
     \/ /\ wpc \in {"metaDbs", "metaLast"} /\ wpc' \in Torn
        /\ UNCHANGED <<page, wid, wtree>>
        /\ \A i \in {0, 1} : i # Toggle(wid) =>
             metaDbs'[i] = metaDbs[i] /\ metaLast'[i] = metaLast[i]

\* A step of a reader, and one that only writes pages back.
LEMMA QuietMoves ==
  ASSUME CoreInv, UNCHANGED <<shared, writer>>, TypeOK'
  PROVE  Moves
<1>1. CoreInv' /\ Kept
  BY OutsideFrame
<1>2. pglast' <= pglast
  BY DEF writer, alloc, CoreInv, TypeInv, TypeOK, Txn
<1> QED BY <1>1, <1>2 DEF Moves, shared, writer, alloc

\* The steps of WorkStep.
LEMMA WorkMoves ==
  ASSUME CoreInv, WorkStep
  PROVE  Moves
<1>0. TypeOK /\ Counters /\ pglast \in Int /\ mti \in Int /\ pglast >= 0
  BY DEF CoreInv, TypeInv, TypeOK, Txn
<1>1. ASSUME NEW r \in Reader, ReaderStep(r)
      PROVE  Moves
  <2>1. UNCHANGED <<shared, writer>>
    BY <1>1 DEF ReaderStep, LoadTxnid, StoreSlot, CopyDbs, CopyLast, EndRead, shared,
       writer
  <2> QED BY <1>0, <1>1, <2>1, ReaderType, QuietMoves
<1>2. ASSUME ~ \E r \in Reader : ReaderStep(r)
      PROVE  Moves
  <2>1. WriterStep
    BY <1>2, WorkIs
  <2>2. CoreInv' /\ Kept
    BY <2>1, WriterCore
  <2>3. CASE Begin
    BY <1>0, <2>2, <2>3 DEF Begin, Moves, shared, alloc, SyncDone, MetaDone
  <2>4. CASE Fetch
    <3>1. pglast' < mti
      <4>1. PICK k \in Txn : Fetchable(k) /\ pglast' = k
        BY <2>4 DEF Fetch
      <4>2. oldest <= mti /\ oldest \in Int
        BY <2>4 DEF Fetch, CoreInv, SearchInv, TypeInv, TypeOK, Txn
      <4> QED BY <1>0, <4>1, <4>2 DEF Fetchable, Txn
    <3> QED BY <2>2, <2>4, <3>1 DEF Fetch, Moves, shared, SyncDone, MetaDone
  <2>5. CASE TakeFree \/ TakeNew
    BY <1>0, <2>2, <2>5 DEF TakeFree, TakeNew, Obtain, Moves, meta, SyncDone, MetaDone
  <2>6. CASE \/ NewPage \/ StartScan \/ MapFull
             \/ \E p \in Page : Touch(p) \/ FreePage(p) \/ FreeOverflow(p)
             \/ \E r \in Reader : ScanSlot(r)
    BY <1>0, <2>2, <2>6 DEF NewPage, StartScan, MapFull, Touch, FreePage, FreeOverflow,
       ScanSlot, Moves, shared, alloc, SyncDone, MetaDone
  <2>7. CASE \/ \E p \in Page : Spill(p)
             \/ FreelistSave \/ PageFlush
    BY <1>0, <2>2, <2>7 DEF Spill, FreelistSave, PageFlush, Moves, shared, meta, writer,
       alloc, SyncDone, MetaDone
  <2>8. CASE Abort \/ CommitNothing \/ CommitFails
    BY <1>0, <2>2, <2>8 DEF Abort, CommitNothing, CommitFails, Unlocked, Moves, shared,
       meta, SyncDone, MetaDone
  <2>9. CASE WriteMetaDbs \/ WriteMetaLast
    BY <1>0, <2>2, <2>9 DEF WriteMetaDbs, WriteMetaLast, Moves, alloc, TypeOK, Torn
  <2> QED BY <1>2, <2>3, <2>4, <2>5, <2>6, <2>7, <2>8, <2>9 DEF WorkStep
<1> QED BY <1>1, <1>2

\* The next process starts from a content that holds version n.
LEMMA Reopen ==
  ASSUME TypeInv, NEW f, FileOK(f), NEW n \in Txn, n <= begun, Sound(f, n),
         Reopened(f)
  PROVE  CoreInv' /\ TxnInv' /\ mti' = n /\ wpc' = "idle" /\ begun' = begun
         /\ \A p \in FilePage : File'[p] = f[p]
<1>1. mti' = n /\ n \in Nat
  BY SoundMeta DEF Reopened, Txn
<1>2. /\ Toggle(n) \in {0, 1} /\ Toggle(n + 1) \in {0, 1}
  BY <1>1, ToggleFacts
<1>3. /\ page' = [p \in Page |-> f[p]]
      /\ \A i \in {0, 1} : /\ metaDbs'[i] = f[i].dbs
                           /\ metaLast'[i] = f[i].last
                           /\ metaTxnid'[i] = f[i].txnid
  BY DEF Reopened
<1>4. /\ Unlocked /\ wpc' = "idle" /\ dirty' = {} /\ pglast' = 0 /\ pghead' = {}
      /\ freePgs' = {} /\ req' = 0 /\ begun' = begun /\ wid' = 0
  BY DEF Reopened, Unlocked
<1>5. TypeOK'
  <2>1. /\ \A p \in Page : f[p] \in Image
        /\ \A i \in {0, 1} : /\ f[i].dbs \in Dbs
                             /\ f[i].last \in 1 .. MaxPg - 1
                             /\ f[i].txnid \in Txn
    BY DEF FileOK, MetaPage
  <2>2. /\ page' \in [Page -> Image]
        /\ metaDbs' \in [{0, 1} -> Dbs]
        /\ metaLast' \in [{0, 1} -> 1 .. MaxPg - 1]
        /\ metaTxnid' \in [{0, 1} -> Txn]
    BY <2>1 DEF Reopened
  <2>3. /\ slot' \in [Reader -> Txn \cup {Idle}]
        /\ rpc' \in [Reader -> {"idle", "loaded", "stored", "copied", "active"}]
        /\ rid' \in [Reader -> Txn]
        /\ view' \in [Reader -> [ver : Txn, tree : Tree]]
        /\ rnext' \in [Reader -> 0 .. MaxPg]
    BY EmptyType DEF Reopened
  <2> QED BY <1>1, <1>4, <2>2, <2>3, EmptyType DEF Unlocked, TypeInv, TypeOK
<1>6. Counters'
  BY <1>1, <1>4, MVCCAssumption DEF TypeInv, TypeOK, Counters, Txn
<1>7. /\ Cur' = f[Toggle(n)].dbs /\ CurLast' = f[Toggle(n)].last
      /\ metaTxnid'[Toggle(n)] = f[Toggle(n)].txnid
      /\ metaTxnid'[Toggle(n + 1)] = f[Toggle(n + 1)].txnid
  BY <1>1, <1>2, <1>3 DEF Cur, CurLast
<1>8. /\ Cur'.ver = n /\ Partition(Cur'.tree, Cur'.rec, CurLast') /\ Cur'.rec[0] = {}
      /\ \A k \in Txn : k > n => Cur'.rec[k] = {}
      /\ WholeOn(f, Cur'.tree)
  BY <1>7 DEF Sound, VersionOK
<1>9. CurInv'
  <2>1. \A p \in Page : Cur'.tree[p] # 0 => /\ page'[p] = Cur'.tree[p]
                                            /\ p <= CurLast'
                                            /\ \A k \in Txn : p \notin Cur'.rec[k]
    BY <1>3, <1>8 DEF WholeOn, Partition
  <2>2. CurLast' \in Int
    BY <1>2, <1>7 DEF FileOK, MetaPage
  <2>3. Held(Cur.tree, mti)'
    BY <1>4, <2>1, <2>2 DEF Held, Unsafe, Page
  <2> QED BY <1>1, <1>4, <1>8, <2>3 DEF CurInv, MetaDone
<1>10. RecInv'
  BY <1>1, <1>4, <1>8 DEF RecInv, PreSave
<1>11. PartInv' /\ ImageInv' /\ ReqInv' /\ SearchInv'
  BY <1>4 DEF PartInv, ImageInv, ReqInv, SearchInv, Flushed, MetaDone
<1>12. PageConservation'
  <2>1. Cur' = metaDbs'[Toggle(mti')] /\ CurLast' = metaLast'[Toggle(mti')]
    BY DEF Cur, CurLast
  <2> QED BY <1>8, <2>1 DEF PageConservation
<1>13. TxnInv'
  BY <1>1, <1>4, <1>7 DEF TxnInv, Sound, VersionOK
<1>14. \A p \in FilePage : File'[p] = f[p]
  <2>1. FileFacts'
    BY <1>5, FileAtNext
  <2>2. \A p \in Page : File'[p] = f[p]
    BY <1>3, <2>1 DEF FileFacts
  <2>3. ASSUME NEW i \in {0, 1}
        PROVE  File'[i] = f[i]
    <3>1. File'[i] = [dbs |-> f[i].dbs, last |-> f[i].last, txnid |-> f[i].txnid]
      BY <1>3, <2>1 DEF FileFacts, Meta
    <3> QED BY <3>1 DEF FileOK, MetaPage
  <2> QED BY <2>2, <2>3, Pages
<1> QED BY <1>1, <1>4, <1>5, <1>6, <1>9, <1>10, <1>11, <1>12, <1>13, <1>14 DEF CoreInv, TypeInv

\* Whenever a crash is followed, the disk holds a version whole, none that was
\* promised is lost, and a settled disk holds the newest one.
LEMMA Recoverable ==
  ASSUME DInv, Safe \/ Settled
  PROVE  \E n \in Txn : /\ n <= Top /\ n <= begun /\ Sound(disk, n) /\ durable <= n
                        /\ Settled => n = mti
<1>1. /\ TypeInv /\ TypeOK /\ Counters /\ CoreInv /\ TxnInv /\ DTypeOK /\ PromiseInv
      /\ FileOK(disk)
  BY DEF DInv, CoreInv, TypeInv, DTypeOK
<1>2. /\ Sound(File, Top) /\ Top \in Txn /\ Top <= begun
      /\ FileFacts
  BY <1>1, FileSound, FileAt DEF TopSound
<1>3. /\ Settled => wpc # "publish" /\ durable = mti
      /\ wpc # "publish" => Top = mti
      /\ wpc = "publish" => Top = wid /\ wid = mti + 1
      /\ durable \in Txn \cup {None} /\ durable <= mti /\ mti <= Top /\ mti <= begun
  <2>1. wpc = "publish" => wid = mti + 1
    BY <1>1, Toggles
  <2> QED BY <1>1, <2>1, Toggles DEF Settled, Top, DTypeOK, PromiseInv, Counters
<1>4. ASSUME NEW n \in Txn, n <= Top, Sound(disk, n), AtLeast(disk, durable)
      PROVE  n <= begun /\ durable <= n /\ (Settled => n = mti)
  <2>1. durable <= n
    BY <1>1, <1>3, <1>4, SoundMeta
  <2> QED BY <1>1, <1>2, <1>3, <1>4, <2>1 DEF Txn, TypeOK
<1>5. CASE Ordered
  <2>1. PICK h : History(h)
    BY <1>5 DEF DInv, OrderInv
  <2>2. Reached(h[0]) /\ h[0] = disk
    <3>1. 0 \in 0 .. Len(queue)
      BY <1>1 DEF DTypeOK
    <3> QED BY <2>1, <3>1 DEF History
  <2>3. PICK n \in Txn : n <= Top /\ Sound(disk, n)
    BY <2>2 DEF Reached
  <2> QED BY <1>4, <2>2, <2>3 DEF Reached
<1>6. CASE ~Ordered /\ ~Lossy
  <2>1. AtLeast(disk, durable)
    BY <1>1, <1>6 DEF PromiseInv
  <2>2. /\ WholeOn(disk, Cur.tree)
        /\ NewestOnDisk \/ PreviousOnDisk
        /\ wpc = "publish" => WholeOn(disk, wtree) /\ NewestOnDisk
    BY <1>6 DEF DInv, SyncInv, SyncDone, MetaDone
  <2>3. CASE NewestOnDisk /\ Older(disk[Toggle(mti + 1)].txnid, mti)
    <3>1. disk[Toggle(mti)] = File[Toggle(mti)]
      BY <2>3 DEF NewestOnDisk, OnDisk
    <3>2. Sound(disk, mti)
      BY <1>1, <2>2, <2>3, <3>1, NewestInFile DEF Sound
    <3> QED BY <1>1, <1>3, <1>4, <2>1, <3>2, Toggles
  <2>4. CASE /\ NewestOnDisk /\ wpc = "publish"
             /\ disk[Toggle(mti + 1)] = File[Toggle(mti + 1)]
    <3>1. /\ Top = wid /\ wid = mti + 1 /\ Toggle(wid + 1) = Toggle(mti)
          /\ wid \in Txn
      BY <1>1, <1>3, <2>4, Toggles
    <3>2. disk[Toggle(wid)] = File[Toggle(wid)] /\ disk[Toggle(wid + 1)] = File[Toggle(wid + 1)]
      BY <2>4, <3>1 DEF NewestOnDisk, OnDisk
    <3>3. WholeOn(disk, File[Toggle(wid)].dbs.tree)
      <4>1. metaDbs[Toggle(wid)] = [ver |-> wid, tree |-> wtree, rec |-> wrec]
        BY <2>4, <3>1 DEF DInv, CoreInv, CurInv, MetaDone
      <4>2. File[Toggle(wid)].dbs.tree = wtree
        BY <1>1, <1>2, <3>1, <4>1, Toggles DEF FileFacts, Meta
      <4> QED BY <2>2, <2>4, <4>2
    <3>4. Sound(disk, wid)
      BY <1>2, <3>1, <3>2, <3>3 DEF Sound
    <3> QED BY <1>3, <1>4, <2>1, <3>1, <3>4
  <2>5. CASE PreviousOnDisk
    <3>1. mti - 1 \in Txn /\ mti - 1 <= Top /\ Sound(disk, mti - 1)
      BY <1>1, <1>2, <1>3, <2>5, Toggles, MVCCAssumption DEF PreviousOnDisk, Txn
    <3> QED BY <1>4, <2>1, <3>1
  <2> QED BY <2>2, <2>3, <2>4, <2>5 DEF NewestOnDisk
<1>7. CASE ~Ordered /\ Lossy
  <2>1. Settled /\ Except({}) /\ AtLeast(disk, durable)
    BY <1>1, <1>3, <1>7 DEF Safe, Settled, DInv, LossyInv, PromiseInv
  <2>2. /\ disk[Toggle(mti)] = File[Toggle(mti)] /\ WholeOn(disk, Cur.tree)
        /\ Older(disk[Toggle(mti + 1)].txnid, mti)
    BY <1>3, <2>1 DEF Except, OnDisk, WholeOn
  <2>3. Sound(disk, mti)
    BY <1>1, <2>2, NewestInFile DEF Sound
  <2> QED BY <1>1, <1>3, <1>4, <2>1, <2>3, Toggles
<1> QED BY <1>5, <1>6, <1>7

\* Steps that leave the processes alone.
LEMMA IdleMoves ==
  ASSUME CoreInv, UNCHANGED vars
  PROVE  Moves
<1>1. UNCHANGED <<shared, writer>>
  BY DEF vars
<1>2. TypeOK'
  BY DEF vars, shared, reader, writer, alloc, CoreInv, TypeInv, TypeOK
<1> QED BY <1>1, <1>2, QuietMoves

\* Such moves keep the order of the ids.
LEMMA TxnOfMoves ==
  ASSUME TxnInv, Moves
  PROVE  TxnInv' /\ (wpc = "publish" <=> wpc' = "publish") /\ Top' = Top
<1>1. /\ UNCHANGED <<mti, metaTxnid>>
      /\ \/ UNCHANGED <<wpc, wid>>
         \/ wpc # "publish" /\ wpc' # "publish"
  BY DEF Moves, SyncDone, MetaDone, Torn
<1> QED BY <1>1 DEF TxnInv, Top

\* Where a write of the meta page fails, nothing is synced.
LEMMA FailsLossy ==
  ASSUME ErrorsUnsynced, DTypeOK, MetaFails
  PROVE  ~WriteMap /\ Lossy /\ ~Ordered /\ wpc = "metaLast"
  BY DEF ErrorsUnsynced, DTypeOK, MetaFails, Lossy, NoSync, Ordered

\* A failed write of the meta page only ends the transaction.
LEMMA FailMoves ==
  ASSUME CoreInv, TxnInv, MetaFails, wpc = "metaLast"
  PROVE  CoreInv' /\ TxnInv'
<1>1. UNCHANGED <<page, metaDbs, metaLast, metaTxnid, mti, reader>> /\ Unlocked
  BY DEF MetaFails, shared
<1>2. TypeOK'
  BY <1>1, UnlockedType DEF CoreInv, TypeInv, TypeOK
<1>3. CoreInv'
  BY <1>1, <1>2, DropStep
<1>4. TxnInv'
  BY <1>1 DEF TxnInv, Unlocked
<1> QED BY <1>3, <1>4

\* The sync of the pages, the last field of the meta page and the publication.
LEMMA CommitMoves ==
  ASSUME CoreInv, TxnInv, EnvSync \/ WriteMetaTxnid \/ Publish
  PROVE  CoreInv' /\ Kept /\ TxnInv'
<1>1. CoreInv' /\ Kept
  BY WriterCore DEF WriterStep
<1>2. TypeOK /\ TypeInv
  BY DEF CoreInv, TypeInv
<1>3. CASE EnvSync
  BY <1>1, <1>3 DEF EnvSync, shared, TxnInv
<1>4. CASE WriteMetaTxnid
  <2>1. wid = mti + 1 /\ mti' = mti /\ wid' = wid
    BY <1>2, <1>4, Toggles DEF WriteMetaTxnid
  <2>2. /\ metaTxnid'[Toggle(mti)] = metaTxnid[Toggle(mti)]
        /\ metaTxnid'[Toggle(mti + 1)] = wid
    BY <1>2, <1>4, <2>1, Toggles DEF WriteMetaTxnid, TypeOK
  <2> QED BY <1>1, <1>4, <2>1, <2>2 DEF WriteMetaTxnid, TxnInv, TypeInv
<1>5. CASE Publish
  <2>1. wid = mti + 1 /\ mti' = mti + 1 /\ metaTxnid' = metaTxnid
    BY <1>2, <1>5, Toggles DEF Publish, meta
  <2>2. Toggle(mti' + 1) = Toggle(mti) /\ Toggle(mti') = Toggle(mti + 1)
    BY <1>2, <2>1, Toggles
  <2> QED BY <1>1, <1>2, <1>5, <2>1, <2>2, Toggles DEF Publish, Unlocked, TxnInv, Older
<1> QED BY <1>1, <1>3, <1>4, <1>5

\* The processes are killed.
LEMMA RestartMoves ==
  ASSUME CoreInv, TxnInv, Restart
  PROVE  /\ CoreInv' /\ TxnInv' /\ wpc' = "idle" /\ mti' = Top /\ Top' = Top
         /\ UNCHANGED <<page, metaDbs, metaLast, metaTxnid>>
         /\ \A p \in FilePage : File'[p] = File[p]
         /\ \A t \in Tree, v \in Txn :
              SnapshotOK(t, v) /\ v <= mti => SnapshotOK(t, v)'
<1>1. TypeOK /\ TypeInv
  BY DEF CoreInv, TypeInv
<1>2. Top \in Txn /\ Top <= begun /\ Sound(File, Top) /\ FileFacts
  BY <1>1, FileSound, FileAt DEF TopSound
<1>3. /\ CoreInv' /\ TxnInv' /\ mti' = Top /\ wpc' = "idle"
      /\ \A p \in FilePage : File'[p] = File[p]
  BY <1>1, <1>2, Reopen DEF Restart, FileFacts
<1>4. Unlocked /\ TypeOK'
  BY <1>3 DEF Restart, Reopened, CoreInv, TypeInv
<1>5. UNCHANGED <<page, metaDbs, metaLast, metaTxnid>>
  <2>1. /\ page' = [p \in Page |-> File[p]]
        /\ metaDbs' = [i \in {0, 1} |-> File[i].dbs]
        /\ metaLast' = [i \in {0, 1} |-> File[i].last]
        /\ metaTxnid' = [i \in {0, 1} |-> File[i].txnid]
    BY DEF Restart, Reopened
  <2>2. \A i \in {0, 1} : /\ File[i].dbs = metaDbs[i] /\ File[i].last = metaLast[i]
                          /\ File[i].txnid = metaTxnid[i]
    BY <1>2 DEF FileFacts, Meta
  <2> QED BY <1>1, <1>2, <2>1, <2>2 DEF FileFacts, TypeOK
<1>6. ASSUME NEW t \in Tree, NEW v \in Txn, SnapshotOK(t, v), v <= mti
      PROVE  SnapshotOK(t, v)'
  <2>1. CASE wpc = "publish"
    <3>1. Kept
      BY <1>3, <1>4, <1>5, <2>1, PublishStep DEF Top
    <3>2. pglast' = 0 /\ v >= 0
      BY <1>4 DEF Unlocked, Txn
    <3> QED BY <1>6, <3>1, <3>2 DEF Kept
  <2>2. CASE wpc # "publish"
    BY <1>3, <1>4, <1>5, <1>6, <2>2, DropStep DEF Top
  <2> QED BY <2>1, <2>2
<1> QED BY <1>3, <1>5, <1>6 DEF Top

\* Every step keeps what MVCC's proof says of the writer, and the order of the ids.
LEMMA CoreStep ==
  ASSUME ErrorsUnsynced, DInv, [DNext]_dvars
  PROVE  CoreInv' /\ TxnInv' /\ mode' = mode
<1>1. CoreInv /\ TxnInv /\ DTypeOK /\ TypeInv
  BY DEF DInv, CoreInv
<1>2. CASE WorkStep
  BY <1>1, <1>2, WorkMoves, TxnOfMoves DEF Moves, WorkStep
<1>3. CASE SyncPages \/ MetaWritten \/ CommitReturns
  <2>1. EnvSync \/ WriteMetaTxnid \/ Publish
    BY <1>3 DEF SyncPages, MetaWritten, CommitReturns
  <2>2. CoreInv' /\ TxnInv'
    BY <1>1, <2>1, CommitMoves
  <2> QED BY <1>3, <2>2 DEF SyncPages, MetaWritten, CommitReturns
<1>4. CASE MetaFails
  BY <1>1, <1>4, FailsLossy, FailMoves DEF MetaFails
<1>5. CASE \/ WriteBackNext \/ ForceStart \/ ForceReturns \/ UNCHANGED dvars
           \/ \E p \in DOMAIN disk : WriteBack(p)
  <2>1. UNCHANGED vars /\ mode' = mode
    BY <1>5 DEF WriteBackNext, ForceStart, ForceReturns, WriteBack, dvars
  <2> QED BY <1>1, <2>1, IdleMoves, TxnOfMoves DEF Moves
<1>6. CASE Crash
  <2>1. PICK n \in Txn : n <= begun /\ Sound(disk, n)
    BY <1>6, Recoverable DEF Crash
  <2> QED BY <1>1, <1>6, <2>1, Reopen DEF Crash, DTypeOK
<1>7. CASE Restart
  BY <1>1, <1>7, RestartMoves DEF Restart
<1> QED BY <1>2, <1>3, <1>4, <1>5, <1>6, <1>7 DEF DNext

-----------------------------------------------------------------------------
(* Types.                                                                   *)

\* One page of the disk is overwritten.
LEMMA DiskPut ==
  ASSUME NEW f, FileOK(f), NEW p \in FilePage, NEW v,
         p \in Page => v \in Image, p \in {0, 1} => v \in MetaPage
  PROVE  /\ DOMAIN f = FilePage
         /\ FileOK([f EXCEPT ![p] = v])
         /\ \A q \in FilePage : [f EXCEPT ![p] = v][q] = IF q = p THEN v ELSE f[q]
<1>1. f = [q \in FilePage |-> f[q]]
  BY DEF FileOK
<1>2. DOMAIN f = FilePage
  BY <1>1
<1>3. \A q \in FilePage : [f EXCEPT ![p] = v][q] = IF q = p THEN v ELSE f[q]
  BY <1>2
<1>4. [f EXCEPT ![p] = v] = [q \in FilePage |-> [f EXCEPT ![p] = v][q]]
  BY <1>2
<1> QED BY <1>2, <1>3, <1>4, Pages DEF FileOK

\* A write of the queue is of some pages or of one meta page.
LEMMA Writes ==
  ASSUME NEW q \in PageWrite \cup MetaWrite
  PROVE  /\ DOMAIN q \subseteq FilePage /\ DOMAIN q # {}
         /\ \A p \in DOMAIN q : /\ p \in Page => q[p] \in Image /\ DOMAIN q \subseteq Page
                                /\ p \in {0, 1} => q[p] \in MetaPage /\ DOMAIN q = {p}
         /\ \A f : FileOK(f) => FileOK(Over(q, f))
<1>1. CASE q \in PageWrite
  <2>1. PICK D \in (SUBSET Page) \ {{}} : q \in [D -> Image]
    BY <1>1 DEF PageWrite
  <2> QED BY <2>1, Pages DEF FileOK, Over
<1>2. CASE q \in MetaWrite
  <2>1. PICK i \in {0, 1} : q \in [{i} -> MetaPage]
    BY <1>2 DEF MetaWrite
  <2> QED BY <2>1, Pages DEF FileOK, Over
<1> QED BY <1>1, <1>2

\* Pages written together are a write of the queue.
LEMMA PageEntry ==
  ASSUME NEW D \in SUBSET Page, D # {}, NEW q \in [D -> Image]
  PROVE  q \in PageWrite
  BY DEF PageWrite

\* What a step of the writer adds to the queue.
LEMMA WrittenEntry ==
  ASSUME DTypeOK, TypeOK, TypeOK', Written
  PROVE  \/ queue' = queue /\ (Ordered => page' = page)
         \/ /\ Ordered /\ page' # page
            /\ \E e \in PageWrite :
                 /\ queue' = Append(queue, e)
                 /\ \A p \in Page : p \in DOMAIN e <=> page'[p] # page[p]
                 /\ \A p \in DOMAIN e : e[p] = page'[p]
<1> DEFINE changed == {p \in Page : page'[p] # page[p]}
           e       == [p \in changed |-> page'[p]]
<1>1. page \in [Page -> Image] /\ page' \in [Page -> Image]
  BY DEF TypeOK
<1>2. changed = {} => page' = page
  BY <1>1
<1>3. changed # {} => page' # page /\ e \in PageWrite
  <2>1. e \in [changed -> Image] /\ changed \in SUBSET Page
    BY <1>1
  <2>2. changed # {} => page' # page
    OBVIOUS
  <2> HIDE DEF e, changed
  <2> QED BY <2>1, <2>2, PageEntry
<1>4. queue' = IF Ordered /\ changed # {} THEN Append(queue, e) ELSE queue
  BY DEF Written
<1>5. /\ \A p \in Page : p \in DOMAIN e <=> page'[p] # page[p]
      /\ \A p \in DOMAIN e : e[p] = page'[p]
  OBVIOUS
<1> QED BY <1>2, <1>3, <1>4, <1>5

\* The types of disk, queue, force and promises.
LEMMA DTypeStep ==
  ASSUME ErrorsUnsynced, DInv, [DNext]_dvars
  PROVE  DTypeOK'
<1>1. /\ CoreInv /\ TypeInv /\ TypeOK /\ Counters /\ DTypeOK /\ FileOK(disk)
      /\ DOMAIN disk = FilePage /\ mti \in Txn /\ 0 \in FilePage
      /\ None \in Txn \cup {None}
  <2>1. FileOK(disk) /\ TypeInv /\ 0 \in FilePage
    BY Pages DEF DInv, CoreInv, DTypeOK
  <2>2. DOMAIN disk = FilePage
    BY <2>1 DEF FileOK
  <2> QED BY <2>1, <2>2 DEF DInv, CoreInv, TypeInv, TypeOK
<1>2. /\ CoreInv' /\ TxnInv' /\ mode' = mode /\ TypeOK' /\ TypeInv'
  BY CoreStep DEF CoreInv, TypeInv
<1>3. FileFacts /\ FileFacts'
  BY <1>1, <1>2, FileAt, FileAtNext
<1>4. CASE WorkStep
  <2>1. Written /\ UNCHANGED <<disk, force, forceVer, durable>>
    BY <1>4 DEF WorkStep
  <2>2. queue' \in Seq(PageWrite \cup MetaWrite)
    BY <1>1, <1>2, <2>1, WrittenEntry DEF DTypeOK
  <2> QED BY <1>1, <1>2, <2>1, <2>2 DEF DTypeOK
<1>5. CASE SyncPages
  <2>1. FileOK(disk') /\ queue' \in Seq(PageWrite \cup MetaWrite) /\ force' \subseteq FilePage
    <3>1. FileOK(File)
      BY <1>3 DEF FileFacts
    <3>2. CASE SyncsPages
      <4>1. disk' = File /\ queue' = <<>> /\ force' = {}
        BY <1>5, <3>2 DEF SyncPages
      <4>2. FileOK(disk')
        BY <3>1, <4>1
      <4>3. queue' \in Seq(PageWrite \cup MetaWrite)
        BY <4>1
      <4> QED BY <4>1, <4>2, <4>3
    <3>3. CASE ~SyncsPages
      BY <1>1, <1>5, <3>3 DEF SyncPages, DTypeOK
    <3> QED BY <3>2, <3>3
  <2> QED BY <1>1, <1>2, <1>5, <2>1 DEF SyncPages, DTypeOK
<1>6. CASE MetaWritten
  <2>1. Toggle(wid) \in {0, 1}
    BY <1>1, <1>6, Toggles DEF MetaWritten, WriteMetaTxnid
  <2>2. Meta(Toggle(wid))' \in MetaPage /\ wid' = wid
    <3>1. wid' = wid
      BY <1>6 DEF MetaWritten, WriteMetaTxnid
    <3> QED BY <1>3, <2>1, <3>1 DEF FileFacts, FileOK
  <2>3. [i \in {Toggle(wid)} |-> Meta(i)'] \in PageWrite \cup MetaWrite
    <3>1. \A i \in {Toggle(wid)} : Meta(i)' \in MetaPage
      BY <1>3, <2>1 DEF FileFacts, FileOK
    <3> QED BY <2>1, <3>1 DEF MetaWrite
  <2>4. queue' \in Seq(PageWrite \cup MetaWrite)
    BY <1>1, <1>6, <2>3 DEF MetaWritten, DTypeOK
  <2> QED BY <1>1, <1>2, <1>6, <2>4 DEF MetaWritten, DTypeOK
<1>7. CASE MetaFails
  <2>1. wpc = "metaLast"
    BY <1>1, <1>7, FailsLossy
  <2> DEFINE new == [dbs |-> [ver |-> wid, tree |-> wtree, rec |-> wrec],
                     last |-> wnext - 1, txnid |-> wid]
  <2>2. new \in MetaPage
    BY <1>1, <2>1, MVCCAssumption DEF MetaPage, Dbs, TypeOK, Counters
  <2>3. Toggle(wid) \in {0, 1} /\ Toggle(wid) \in FilePage /\ Toggle(wid) \notin Page
    BY <1>1, <2>1, Toggles, Pages
  <2>4. FileOK([disk EXCEPT ![Toggle(wid)] = new])
    <3> HIDE DEF new
    <3> QED BY <1>1, <2>2, <2>3, DiskPut
  <2>5. disk' = disk \/ disk' = [disk EXCEPT ![Toggle(wid)] = new]
    BY <1>7 DEF MetaFails
  <2>6. FileOK(disk')
    BY <1>1, <2>4, <2>5
  <2> QED BY <1>1, <1>2, <1>7, <2>6 DEF MetaFails, DTypeOK
<1>8. CASE CommitReturns
  <2>1. /\ Toggle(wid) \in {0, 1} /\ Toggle(wid) \in FilePage /\ Toggle(wid) \notin Page
        /\ wid = mti + 1 /\ wid \in Txn
    BY <1>1, <1>8, Toggles, Pages DEF CommitReturns, Publish
  <2>2. Meta(Toggle(wid)) \in MetaPage
    BY <1>3, <2>1 DEF FileFacts, FileOK
  <2>3. FileOK([disk EXCEPT ![Toggle(wid)] = Meta(Toggle(wid))])
    BY <1>1, <2>1, <2>2, DiskPut
  <2>4. FileOK(disk')
    BY <1>1, <1>8, <2>3 DEF CommitReturns
  <2>5. durable' \in Txn \cup {None}
    BY <1>1, <1>8, <2>1, Toggles DEF CommitReturns, KeptBy, DTypeOK
  <2> QED BY <1>1, <1>2, <1>8, <2>4, <2>5 DEF CommitReturns, DTypeOK
<1>9. ASSUME NEW p \in DOMAIN disk, WriteBack(p)
      PROVE  DTypeOK'
  <2>1. FileOK(disk')
    <3>1. p \in FilePage /\ disk' = [disk EXCEPT ![p] = File[p]]
      BY <1>1, <1>9 DEF WriteBack
    <3>2. /\ p \in Page => File[p] \in Image
          /\ p \in {0, 1} => File[p] \in MetaPage
      BY <1>3 DEF FileFacts, FileOK
    <3> QED BY <1>1, <3>1, <3>2, DiskPut
  <2> QED BY <1>1, <1>2, <1>9, <2>1 DEF WriteBack, DTypeOK
<1>10. CASE WriteBackNext
  <2> DEFINE q    == Head(queue)
             rest(p) == DOMAIN q \ {p}
  <2>1. q \in PageWrite \cup MetaWrite /\ Tail(queue) \in Seq(PageWrite \cup MetaWrite)
    BY <1>1, <1>10 DEF WriteBackNext, DTypeOK
  <2>2. PICK p \in DOMAIN q :
          /\ disk' = [disk EXCEPT ![p] = q[p]]
          /\ queue' = IF rest(p) = {} THEN Tail(queue)
                      ELSE <<[x \in rest(p) |-> q[x]]>> \o Tail(queue)
    BY <1>10 DEF WriteBackNext
  <2>3. FileOK(disk')
    BY <1>1, <2>1, <2>2, Writes, DiskPut
  <2>4. rest(p) # {} => [x \in rest(p) |-> q[x]] \in PageWrite
    <3>1. rest(p) # {} => DOMAIN q \subseteq Page
      BY <2>1, Writes, Pages
    <3>2. rest(p) # {} => [x \in rest(p) |-> q[x]] \in [rest(p) -> Image]
      BY <2>1, <3>1, Writes
    <3> QED BY <3>1, <3>2, PageEntry
  <2>5. queue' \in Seq(PageWrite \cup MetaWrite)
    <3>1. CASE rest(p) = {}
      BY <2>1, <2>2, <3>1
    <3>2. CASE rest(p) # {}
      <4> DEFINE e == [x \in rest(p) |-> q[x]]
      <4>1. e \in PageWrite \cup MetaWrite /\ queue' = <<e>> \o Tail(queue)
        BY <2>2, <2>4, <3>2
      <4> HIDE DEF e
      <4> QED BY <2>1, <4>1
    <3> QED BY <3>1, <3>2
  <2> QED BY <1>1, <1>2, <1>10, <2>3, <2>5 DEF WriteBackNext, DTypeOK
<1>11. CASE ForceStart \/ ForceReturns \/ UNCHANGED dvars
  BY <1>1, <1>2, <1>11 DEF ForceStart, ForceReturns, dvars, cache, DTypeOK
<1>12. CASE Crash
  BY <1>1, <1>2, <1>12 DEF Crash, Reopened, DTypeOK
<1>13. CASE Restart
  BY <1>1, <1>2, <1>13 DEF Restart, Reopened, DTypeOK
<1> QED BY <1>4, <1>5, <1>6, <1>7, <1>8, <1>9, <1>10, <1>11, <1>12, <1>13 DEF DNext

-----------------------------------------------------------------------------
(* Promises: what they cover is in the file, and on the disk or on the way.  *)

\* The page of an id, or of None, is a meta page.
LEMMA AnyToggle ==
  ASSUME NEW m \in Txn \cup {None}
  PROVE  /\ m \in Int /\ Toggle(m) \in {0, 1}
         /\ Toggle(m) \in FilePage /\ Toggle(m) \notin Page
<1>1. m \in Int
  BY DEF Txn, None
<1>2. Toggle(m) \in {0, 1}
  BY <1>1 DEF Toggle
<1> QED BY <1>1, <1>2, Pages

\* What the file promises stays in it when no id of a meta page is written, and
\* when one is: it is the newest.
LEMMA IdsStay ==
  ASSUME TypeOK, TypeOK',
         \/ metaTxnid' = metaTxnid
         \/ wid = mti + 1 /\ metaTxnid' = [metaTxnid EXCEPT ![Toggle(wid)] = wid],
         NEW m \in Txn \cup {None}, AtLeast(File, m), m <= mti
  PROVE  AtLeast(File', m)
<1>1. FileFacts /\ FileFacts' /\ m \in Int /\ Toggle(m) \in {0, 1}
  BY FileAt, FileAtNext, AnyToggle
<1>2. metaTxnid[Toggle(m)] >= m
  BY <1>1 DEF AtLeast, FileFacts
<1>3. mti \in Int
  BY DEF TypeOK, Txn
<1>4. metaTxnid'[Toggle(m)] >= m
  BY <1>1, <1>2, <1>3 DEF TypeOK
<1> QED BY <1>1, <1>4 DEF AtLeast, FileFacts

\* Overwriting a page with what the file holds there loses no promise.
LEMMA PutKeeps ==
  ASSUME FileOK(disk), FileOK(File), NEW p \in FilePage,
         disk' = [disk EXCEPT ![p] = File[p]],
         NEW m \in Txn \cup {None}, AtLeast(disk, m) \/ p = Toggle(m), AtLeast(File, m)
  PROVE  AtLeast(disk', m)
<1>1. /\ p \in Page => File[p] \in Image
      /\ p \in {0, 1} => File[p] \in MetaPage
  BY DEF FileOK
<1>2. \A q \in FilePage : disk'[q] = IF q = p THEN File[p] ELSE disk[q]
  BY <1>1, DiskPut
<1> QED BY <1>2, AnyToggle DEF AtLeast

\* Every step keeps what is promised in the file, and on the disk or on its way.
LEMMA PromiseStep ==
  ASSUME ErrorsUnsynced, DInv, [DNext]_dvars
  PROVE  PromiseInv'
<1>1. /\ TypeInv /\ TypeOK /\ DTypeOK /\ FileOK(disk) /\ CoreInv /\ TxnInv
      /\ PromiseInv /\ mode' = mode /\ FileFacts /\ FileOK(File) /\ (Ordered' <=> Ordered)
      /\ FileFacts' /\ TypeOK' /\ DTypeOK' /\ DOMAIN disk = FilePage
  <2>1. CoreInv /\ CoreInv' /\ mode' = mode /\ DTypeOK'
    BY CoreStep, DTypeStep DEF DInv
  <2>2. DTypeOK /\ TypeOK /\ TypeOK'
    BY <2>1 DEF DInv, CoreInv, TypeInv
  <2>3. FileOK(disk) /\ DOMAIN disk = FilePage
    BY <2>2 DEF DTypeOK, FileOK
  <2> QED BY <2>1, <2>2, <2>3, FileAt, FileAtNext
          DEF DInv, CoreInv, TypeInv, Ordered, FileFacts
<1>2. /\ durable \in Txn \cup {None} /\ forceVer \in Txn \cup {None}
      /\ mti \in Nat /\ mti \in Txn /\ durable \in Int /\ forceVer \in Int
      /\ AtLeast(File, mti) /\ AtLeast(File, durable)
      /\ durable <= mti
  BY <1>1, Toggles, AnyToggle DEF DTypeOK, PromiseInv, AtLeast, FileFacts, TxnInv
<1>3. ASSUME UNCHANGED <<mti, metaTxnid>>, durable' = durable, forceVer' = forceVer,
             force' = force, disk' = disk
      PROVE  PromiseInv'
  BY <1>1, <1>2, <1>3, IdsStay DEF PromiseInv
<1>4. CASE WorkStep
  BY <1>1, <1>3, <1>4, WorkMoves DEF WorkStep, Moves
<1>5. CASE SyncPages
  <2>1. UNCHANGED <<mti, metaTxnid, durable, forceVer>>
    BY <1>5 DEF SyncPages, EnvSync, shared
  <2>2. CASE SyncsPages
    BY <1>1, <1>2, <1>5, <2>1, <2>2, IdsStay DEF SyncPages, PromiseInv
  <2>3. CASE ~SyncsPages
    BY <1>3, <1>5, <2>1, <2>3 DEF SyncPages
  <2> QED BY <2>2, <2>3
<1>6. CASE MetaWritten
  <2>1. /\ UNCHANGED <<mti, disk, force, forceVer, durable>> /\ wid = mti + 1
        /\ metaTxnid' = [metaTxnid EXCEPT ![Toggle(wid)] = wid]
    BY <1>1, <1>6, Toggles DEF MetaWritten, WriteMetaTxnid
  <2> QED BY <1>1, <1>2, <2>1, IdsStay DEF PromiseInv
<1>7. CASE MetaFails
  <2>1. /\ UNCHANGED <<mti, metaTxnid>> /\ durable' = None /\ forceVer' = None
        /\ FileOK(disk')
    BY <1>1, <1>7, FailsLossy DEF MetaFails, shared, DTypeOK
  <2>2. \A f : FileOK(f) => AtLeast(f, None)
    BY AnyToggle DEF AtLeast, FileOK, MetaPage, Txn, None
  <2> QED BY <1>1, <1>2, <2>1, <2>2 DEF PromiseInv, FileFacts, None
<1>8. CASE CommitReturns
  <2>1. /\ wid = mti + 1 /\ mti' = wid /\ wid \in Txn /\ metaTxnid' = metaTxnid
        /\ wpc = "publish" /\ forceVer' = forceVer /\ durable' = KeptBy(wid)
        /\ Toggle(wid) \in {0, 1} /\ Toggle(wid) \in FilePage
        /\ Meta(Toggle(wid)) = File[Toggle(wid)] /\ AtLeast(File, wid)
    <3>1. /\ wid = mti + 1 /\ mti' = wid /\ wid \in Txn /\ metaTxnid' = metaTxnid
          /\ wpc = "publish" /\ forceVer' = forceVer /\ durable' = KeptBy(wid)
          /\ Toggle(wid) \in {0, 1}
      BY <1>1, <1>8, Toggles DEF CommitReturns, Publish, meta
    <3>2. Toggle(wid) \in FilePage /\ Meta(Toggle(wid)) = File[Toggle(wid)]
      BY <1>1, <3>1, Pages DEF FileFacts
    <3>3. AtLeast(File, wid)
      BY <1>1, <3>1 DEF FileFacts, AtLeast, TxnInv
    <3> QED BY <3>1, <3>2, <3>3
  <2>2. \A m \in Txn \cup {None} : AtLeast(File, m) => AtLeast(File', m)
    BY <1>1, <2>1, AnyToggle DEF AtLeast, FileFacts
  <2>3. CASE SyncsMeta
    <3>1. /\ disk' = [disk EXCEPT ![Toggle(wid)] = File[Toggle(wid)]]
          /\ force' = force \ {Toggle(wid)} /\ durable' = wid
      BY <1>8, <2>1, <2>3 DEF CommitReturns, SyncsMeta, KeptBy, Lossy
    <3>2. AtLeast(disk', wid)
      BY <1>1, <2>1, <3>1, PutKeeps
    <3>3. \A m \in Txn \cup {None} :
            AtLeast(File, m) /\ (AtLeast(disk, m) \/ Toggle(m) \in force) =>
              AtLeast(disk', m) \/ Toggle(m) \in force'
      BY <1>1, <2>1, <3>1, PutKeeps
    <3>4. durable' <= mti' /\ AtLeast(File', durable') /\ AtLeast(disk', durable')
      BY <2>1, <2>2, <3>1, <3>2 DEF Txn
    <3>5. forceVer # None =>
            /\ ~Ordered /\ forceVer <= mti' /\ AtLeast(File', forceVer)
            /\ Toggle(forceVer) \in force' \/ AtLeast(disk', forceVer)
      BY <1>1, <1>2, <2>1, <2>2, <3>3 DEF PromiseInv
    <3> QED BY <1>1, <2>1, <3>4, <3>5 DEF PromiseInv
  <2>4. CASE ~SyncsMeta
    <3>1. disk' = disk /\ force' = force
      BY <1>8, <2>4 DEF CommitReturns
    <3>2. durable' = durable \/ (durable' = mti /\ ~Lossy)
      BY <1>2, <1>8, <2>1, <2>4 DEF CommitReturns, KeptBy, SyncsMeta, Lossy
    <3>3. ~Ordered => AtLeast(disk, durable')
      <4>1. CASE durable' = durable
        BY <1>1, <4>1 DEF PromiseInv
      <4>2. CASE durable' = mti /\ ~Lossy
        <5>1. ~Ordered => disk[Toggle(mti)] = File[Toggle(mti)]
          BY <2>1, <4>2 DEF DInv, SyncInv, SyncDone, MetaDone, NewestOnDisk, OnDisk
        <5> QED BY <1>2, <4>2, <5>1 DEF AtLeast
      <4> QED BY <3>2, <4>1, <4>2
    <3>4. durable' <= mti' /\ AtLeast(File', durable')
      BY <1>2, <2>1, <2>2, <3>2
    <3>5. forceVer # None =>
            /\ ~Ordered /\ forceVer <= mti' /\ AtLeast(File', forceVer)
            /\ Toggle(forceVer) \in force' \/ AtLeast(disk', forceVer)
      BY <1>1, <1>2, <2>1, <2>2, <3>1 DEF PromiseInv
    <3> QED BY <1>1, <2>1, <3>1, <3>3, <3>4, <3>5 DEF PromiseInv
  <2> QED BY <2>3, <2>4
<1>9. ASSUME NEW p \in DOMAIN disk, WriteBack(p)
      PROVE  PromiseInv'
  <2>1. /\ UNCHANGED <<mti, metaTxnid, forceVer, durable>> /\ ~Ordered
        /\ disk' = [disk EXCEPT ![p] = File[p]] /\ force' = force \ {p} /\ p \in FilePage
    BY <1>1, <1>9 DEF WriteBack, vars, shared
  <2>2. \A m \in Txn \cup {None} :
          AtLeast(File, m) /\ (AtLeast(disk, m) \/ Toggle(m) \in force) =>
            AtLeast(disk', m) \/ Toggle(m) \in force'
    BY <1>1, <2>1, PutKeeps
  <2>3. AtLeast(disk', durable)
    BY <1>1, <1>2, <2>1, PutKeeps DEF PromiseInv
  <2>4. \A m \in Txn \cup {None} : AtLeast(File, m) => AtLeast(File', m)
    BY <1>1, <2>1, AnyToggle DEF AtLeast, FileFacts
  <2> QED BY <1>1, <1>2, <2>1, <2>2, <2>3, <2>4 DEF PromiseInv
<1>10. CASE WriteBackNext
  <2>1. UNCHANGED <<mti, metaTxnid, forceVer, durable>> /\ Ordered
    BY <1>10 DEF WriteBackNext, vars, shared
  <2> QED BY <1>1, <1>2, <2>1, IdsStay DEF PromiseInv
<1>11. CASE ForceStart
  <2>1. /\ UNCHANGED <<mti, metaTxnid, disk, durable>> /\ ~Ordered /\ forceVer' = mti
        /\ force' = {p \in DOMAIN disk : disk[p] # File[p]}
    BY <1>11 DEF ForceStart, vars, shared
  <2>2. Toggle(mti) \in force' \/ AtLeast(disk, mti)
    BY <1>1, <1>2, <2>1, AnyToggle DEF AtLeast
  <2>3. \A m \in Txn \cup {None} : AtLeast(File, m) => AtLeast(File', m)
    BY <1>1, <2>1, AnyToggle DEF AtLeast, FileFacts
  <2> QED BY <1>1, <1>2, <2>1, <2>2, <2>3 DEF PromiseInv
<1>12. CASE ForceReturns
  <2>1. /\ UNCHANGED <<mti, metaTxnid, disk>> /\ forceVer' = None
        /\ forceVer # None /\ force = {}
        /\ durable' = durable \/ durable' = forceVer
    BY <1>12 DEF ForceReturns, vars, shared
  <2>2. \A m \in Txn \cup {None} : AtLeast(File, m) => AtLeast(File', m)
    BY <1>1, <2>1, AnyToggle DEF AtLeast, FileFacts
  <2> QED BY <1>1, <1>2, <2>1, <2>2 DEF PromiseInv
<1>13. CASE Crash
  <2>1. PICK n \in Txn : n <= begun /\ Sound(disk, n) /\ durable <= n
    BY <1>13, Recoverable DEF Crash
  <2>2. /\ mti' = n /\ (\A p \in FilePage : File'[p] = disk[p])
        /\ UNCHANGED <<disk, durable>> /\ forceVer' = None
    BY <1>1, <1>13, <2>1, Reopen DEF Crash, Reopened
  <2>3. AtLeast(disk, durable)
    <3>1. CASE Ordered
      <4>1. PICK h : History(h)
        BY <3>1 DEF DInv, OrderInv
      <4>2. 0 \in 0 .. Len(queue)
        BY <1>1 DEF DTypeOK
      <4> QED BY <4>1, <4>2 DEF History, Reached
    <3> QED BY <1>1, <3>1 DEF PromiseInv
  <2>4. AtLeast(File', durable)
    BY <1>2, <2>2, <2>3, AnyToggle DEF AtLeast
  <2> QED BY <1>1, <2>1, <2>2, <2>3, <2>4 DEF PromiseInv
<1>14. CASE Restart
  <2>1. /\ mti' = Top /\ mti <= Top /\ metaTxnid' = metaTxnid
        /\ UNCHANGED <<disk, durable>> /\ forceVer' = None /\ Top \in Int
    BY <1>1, <1>2, <1>14, RestartMoves, Toggles DEF Restart, Reopened, Top
  <2> QED BY <1>1, <1>2, <2>1, IdsStay DEF PromiseInv
<1>15. CASE UNCHANGED dvars
  BY <1>3, <1>15 DEF dvars, cache, vars, shared
<1> QED BY <1>4, <1>5, <1>6, <1>7, <1>8, <1>9, <1>10, <1>11, <1>12, <1>13, <1>14, <1>15 DEF DNext

-----------------------------------------------------------------------------
(* Synced modes without an order of writes.                                 *)

\* The facts about the state before and after a step that the proofs share.
StepFacts ==
  /\ CoreInv /\ TypeInv /\ TypeOK /\ TxnInv /\ DTypeOK /\ FileFacts
  /\ FileOK(disk) /\ FileOK(File) /\ DOMAIN disk = FilePage
  /\ CoreInv' /\ TypeInv' /\ TypeOK' /\ TxnInv' /\ DTypeOK' /\ FileFacts'
  /\ FileOK(disk)' /\ FileOK(File)'
  /\ mode' = mode /\ (Lossy' <=> Lossy) /\ (Ordered' <=> Ordered)
\* They hold at every step from a state of DInv.
LEMMA Facts ==
  ASSUME ErrorsUnsynced, DInv, [DNext]_dvars
  PROVE  StepFacts
<1>1. /\ CoreInv /\ CoreInv' /\ mode' = mode /\ DTypeOK /\ DTypeOK' /\ TxnInv /\ TxnInv'
  BY CoreStep, DTypeStep DEF DInv
<1>2. TypeInv /\ TypeOK /\ TypeInv' /\ TypeOK'
  BY <1>1 DEF CoreInv, TypeInv
<1>3. FileOK(disk) /\ DOMAIN disk = FilePage /\ FileOK(disk)'
  BY <1>1 DEF DTypeOK, FileOK
<1>4. FileFacts /\ FileFacts' /\ FileOK(File) /\ FileOK(File)'
  BY <1>2, FileAt, FileAtNext DEF FileFacts
<1> QED BY <1>1, <1>2, <1>3, <1>4 DEF StepFacts, Lossy, Ordered, NoSync, MapAsync

\* What the file holds of the newest version after such moves.
LEMMA MovesFile ==
  ASSUME StepFacts, Moves
  PROVE  /\ UNCHANGED <<mti, Cur>> /\ File'[Toggle(mti)] = File[Toggle(mti)]
         /\ \/ /\ \A p \in FilePage : File'[p] = File[p]
               /\ UNCHANGED <<metaDbs, wpc, wid, wtree>>
            \/ wpc \notin SyncDone /\ wpc' \notin SyncDone
               /\ metaDbs' = metaDbs /\ \A i \in {0, 1} : File'[i] = File[i]
            \/ wpc \in {"metaDbs", "metaLast"} /\ wpc' \in Torn
               /\ UNCHANGED <<wtree, wid>> /\ wid = mti + 1
               /\ \A p \in FilePage : p # Toggle(wid) => File'[p] = File[p]
<1>1. UNCHANGED <<mti, metaTxnid>> /\ Toggle(mti) \in {0, 1} /\ Toggle(mti + 1) # Toggle(mti)
  BY Toggles DEF Moves, StepFacts
<1>2. wpc # "idle" => wid = mti + 1
  BY Toggles DEF StepFacts
<1>3. ASSUME NEW i \in {0, 1}, metaDbs'[i] = metaDbs[i], metaLast'[i] = metaLast[i]
      PROVE  File'[i] = File[i]
  BY <1>1, <1>3 DEF StepFacts, FileFacts, Meta
<1>4. ASSUME page' = page
      PROVE  \A p \in Page : File'[p] = File[p]
  BY <1>4 DEF StepFacts, FileFacts
<1>5. CASE UNCHANGED <<page, metaDbs, metaLast, wpc, wid, wtree>>
  <2>1. \A p \in FilePage : File'[p] = File[p]
    BY <1>3, <1>4, <1>5, Pages
  <2> QED BY <1>1, <1>5, <2>1, Pages DEF Cur
<1>6. CASE wpc \notin SyncDone /\ wpc' \notin SyncDone /\ UNCHANGED <<metaDbs, metaLast>>
  BY <1>1, <1>3, <1>6 DEF Cur
<1>7. CASE /\ wpc \in {"metaDbs", "metaLast"} /\ wpc' \in Torn
           /\ UNCHANGED <<page, wid, wtree>>
           /\ \A i \in {0, 1} : i # Toggle(wid) =>
                metaDbs'[i] = metaDbs[i] /\ metaLast'[i] = metaLast[i]
  <2>1. \A p \in FilePage : p # Toggle(wid) => File'[p] = File[p]
    BY <1>3, <1>4, <1>7, Pages
  <2>2. wid = mti + 1 /\ Cur' = Cur
    BY <1>1, <1>2, <1>7 DEF Cur
  <2> QED BY <1>1, <1>7, <2>1, <2>2, Pages
<1> QED BY <1>5, <1>6, <1>7 DEF Moves

\* The version before the newest stays held.
LEMMA PreviousKept ==
  ASSUME StepFacts, Moves, metaDbs' = metaDbs, mti >= 1,
         SnapshotOK(metaDbs[Toggle(mti + 1)].tree, mti - 1)
  PROVE  SnapshotOK(metaDbs[Toggle(mti + 1)].tree, mti - 1)'
<1>1. /\ mti \in Nat /\ Toggle(mti + 1) \in {0, 1} /\ mti' = mti /\ pglast \in Int
      /\ mti - 1 \in Txn /\ pglast' \in Int
  BY Toggles, MVCCAssumption DEF StepFacts, Moves, TypeOK, Txn
<1>2. metaDbs[Toggle(mti + 1)].tree \in Tree
  BY <1>1 DEF StepFacts, TypeOK, Dbs
<1>3. pglast <= mti - 1
  BY <1>1 DEF SnapshotOK
<1>4. pglast' <= mti - 1
  BY <1>1, <1>3 DEF Moves
<1> QED BY <1>1, <1>2, <1>4 DEF Moves, Kept

\* Steps that write nothing to the disk.
LEMMA SyncMoves ==
  ASSUME StepFacts, Moves, SyncInv, disk' = disk
  PROVE  SyncInv'
<1> SUFFICES ASSUME ~Lossy, ~Ordered
             PROVE  /\ WholeOn(disk, Cur.tree)'
                    /\ (NewestOnDisk \/ PreviousOnDisk)'
                    /\ (wpc \in SyncDone => WholeOn(disk, wtree) /\ NewestOnDisk)'
  BY DEF SyncInv, StepFacts
<1>1. /\ UNCHANGED <<mti, Cur>> /\ File'[Toggle(mti)] = File[Toggle(mti)]
      /\ Toggle(mti) \in {0, 1} /\ Toggle(mti + 1) \in {0, 1} /\ Toggle(mti) # Toggle(mti + 1)
      /\ WholeOn(disk, Cur.tree)
      /\ NewestOnDisk \/ PreviousOnDisk
      /\ wpc \in SyncDone => WholeOn(disk, wtree) /\ NewestOnDisk
  BY MovesFile, Toggles DEF SyncInv, StepFacts
<1>2. WholeOn(disk, Cur.tree)'
  BY <1>1 DEF WholeOn
<1>3. OnDisk => OnDisk'
  BY <1>1 DEF OnDisk
<1>4. CASE /\ \A p \in FilePage : File'[p] = File[p]
           /\ UNCHANGED <<metaDbs, wpc, wid, wtree>>
  <2>1. File'[Toggle(mti + 1)] = File[Toggle(mti + 1)]
    BY <1>1, <1>4, Pages
  <2>2. NewestOnDisk => NewestOnDisk'
    BY <1>1, <1>3, <1>4, <2>1 DEF NewestOnDisk
  <2>3. PreviousOnDisk => PreviousOnDisk'
    BY <1>1, <1>4, <2>1, PreviousKept DEF PreviousOnDisk
  <2> QED BY <1>1, <1>2, <1>4, <2>2, <2>3 DEF WholeOn
<1>5. CASE /\ wpc \notin SyncDone /\ wpc' \notin SyncDone
           /\ metaDbs' = metaDbs /\ \A i \in {0, 1} : File'[i] = File[i]
  <2>1. NewestOnDisk => NewestOnDisk'
    BY <1>1, <1>3, <1>5 DEF NewestOnDisk, SyncDone, MetaDone
  <2>2. PreviousOnDisk => PreviousOnDisk'
    BY <1>1, <1>5, PreviousKept DEF PreviousOnDisk
  <2> QED BY <1>1, <1>2, <1>5, <2>1, <2>2
<1>6. CASE /\ wpc \in {"metaDbs", "metaLast"} /\ wpc' \in Torn
           /\ UNCHANGED <<wtree, wid>> /\ wid = mti + 1
           /\ \A p \in FilePage : p # Toggle(wid) => File'[p] = File[p]
  <2>1. WholeOn(disk, wtree) /\ NewestOnDisk
    BY <1>1, <1>6 DEF SyncDone, MetaDone
  <2>2. NewestOnDisk'
    BY <1>1, <1>3, <1>6, <2>1 DEF NewestOnDisk
  <2>3. WholeOn(disk, wtree)'
    BY <1>6, <2>1 DEF WholeOn
  <2> QED BY <1>2, <2>2, <2>3
<1> QED BY <1>4, <1>5, <1>6, MovesFile

\* The publication, with or without a sync of the meta page, or a restart.
LEMMA SyncPublish ==
  ASSUME StepFacts, SyncInv, wpc = "publish", wpc' = "idle", mti' = wid,
         UNCHANGED <<metaDbs, metaLast, metaTxnid>>,
         \A v \in Txn, t \in Tree : SnapshotOK(t, v) /\ v <= mti => SnapshotOK(t, v)',
         disk' = disk \/ disk' = [disk EXCEPT ![Toggle(wid)] = File[Toggle(wid)]]
  PROVE  SyncInv'
<1> SUFFICES ASSUME ~Lossy, ~Ordered
             PROVE  /\ WholeOn(disk, Cur.tree)'
                    /\ (NewestOnDisk \/ PreviousOnDisk)'
                    /\ (wpc \in SyncDone => WholeOn(disk, wtree) /\ NewestOnDisk)'
  BY DEF SyncInv, StepFacts
<1>1. /\ WholeOn(disk, wtree) /\ WholeOn(disk, Cur.tree)
      /\ disk[Toggle(mti)] = File[Toggle(mti)]
      /\ \/ Older(disk[Toggle(mti + 1)].txnid, mti)
         \/ disk[Toggle(mti + 1)] = File[Toggle(mti + 1)]
  BY DEF SyncInv, SyncDone, MetaDone, NewestOnDisk, OnDisk
<1>2. /\ mti' = mti + 1 /\ wid = mti + 1 /\ mti \in Nat /\ mti \in Txn /\ wid \in Txn
      /\ Toggle(mti) \in {0, 1} /\ Toggle(wid) \in {0, 1} /\ Toggle(wid) # Toggle(mti)
      /\ Toggle(wid + 1) = Toggle(mti)
      /\ Toggle(wid) \in FilePage /\ Toggle(wid) \notin Page
      /\ Toggle(mti) \in FilePage
  <2>1. /\ mti' = mti + 1 /\ wid = mti + 1 /\ mti \in Nat /\ mti \in Txn /\ wid \in Txn
        /\ Toggle(mti) \in {0, 1} /\ Toggle(wid) \in {0, 1} /\ Toggle(wid) # Toggle(mti)
        /\ Toggle(wid + 1) = Toggle(mti)
    BY Toggles DEF StepFacts
  <2> QED BY <2>1, Pages
<1>3. \A i \in {0, 1} : File'[i] = File[i]
  BY DEF StepFacts, FileFacts, Meta
<1>4. /\ \A p \in Page : disk'[p] = disk[p]
      /\ disk'[Toggle(mti)] = disk[Toggle(mti)]
      /\ \/ disk' = disk
         \/ disk'[Toggle(wid)] = File[Toggle(wid)]
  <2>1. /\ Toggle(wid) \in Page => File[Toggle(wid)] \in Image
        /\ Toggle(wid) \in {0, 1} => File[Toggle(wid)] \in MetaPage
    BY <1>2 DEF StepFacts, FileOK
  <2> QED BY <1>2, <2>1, DiskPut, Pages DEF StepFacts
<1>5. metaDbs[Toggle(wid)].tree = wtree /\ Cur'.tree = wtree
  BY <1>2 DEF StepFacts, CoreInv, CurInv, MetaDone, Cur
<1>6. WholeOn(disk, Cur.tree)'
  BY <1>1, <1>4, <1>5 DEF WholeOn
<1>7. File[Toggle(mti)].txnid = mti
  BY <1>2 DEF StepFacts, FileFacts, TxnInv
<1>8. CASE disk'[Toggle(wid)] = File[Toggle(wid)]
  <2>1. NewestOnDisk'
    BY <1>1, <1>2, <1>3, <1>4, <1>7, <1>8 DEF NewestOnDisk, OnDisk, Older
  <2> QED BY <1>6, <2>1 DEF SyncDone, MetaDone
<1>9. CASE disk' = disk /\ Older(disk[Toggle(mti + 1)].txnid, mti)
  <2>1. Sound(disk, mti)
    BY <1>1, NewestInFile, <1>9 DEF Sound, StepFacts
  <2>2. SnapshotOK(metaDbs[Toggle(mti + 1)].tree, mti - 1)'
    <3>1. SnapshotOK(Cur.tree, mti) /\ Cur.tree \in Tree
      BY CurHeld DEF StepFacts
    <3>2. metaDbs'[Toggle(mti' + 1)].tree = Cur.tree /\ mti' - 1 = mti
      BY <1>2 DEF Cur
    <3>3. \A t \in Tree, v \in Txn : t = Cur.tree /\ v = mti => SnapshotOK(t, v)'
      BY <1>2, <3>1
    <3> QED BY <1>2, <3>1, <3>2, <3>3 DEF SnapshotOK, Held, Unsafe
  <2>3. PreviousOnDisk'
    BY <1>1, <1>2, <1>3, <1>9, <2>1, <2>2 DEF PreviousOnDisk
  <2> QED BY <1>6, <2>3 DEF SyncDone, MetaDone
<1> QED BY <1>1, <1>2, <1>4, <1>8, <1>9

\* One page is written back.
LEMMA SyncWriteBack ==
  ASSUME StepFacts, SyncInv, NEW p \in FilePage, WriteBack(p)
  PROVE  SyncInv'
<1> SUFFICES ASSUME ~Lossy, ~Ordered
             PROVE  /\ WholeOn(disk, Cur.tree)'
                    /\ (NewestOnDisk \/ PreviousOnDisk)'
                    /\ (wpc \in SyncDone => WholeOn(disk, wtree) /\ NewestOnDisk)'
  BY DEF SyncInv, StepFacts
<1>1. /\ disk' = [disk EXCEPT ![p] = File[p]]
      /\ UNCHANGED <<page, metaDbs, metaLast, metaTxnid, mti, wpc, wid, wtree>>
      /\ UNCHANGED vars
  BY DEF WriteBack, vars, shared, writer
<1>2. /\ UNCHANGED Cur /\ Toggle(mti) \in {0, 1} /\ Toggle(mti + 1) \in {0, 1}
      /\ Toggle(mti) # Toggle(mti + 1) /\ mti \in Nat /\ mti \in Txn
      /\ WholeOn(disk, Cur.tree)
      /\ NewestOnDisk \/ PreviousOnDisk
      /\ wpc \in SyncDone => WholeOn(disk, wtree) /\ NewestOnDisk
      /\ mti >= 1 => Toggle(mti - 1) = Toggle(mti + 1)
      /\ mti' = mti
  BY <1>1, Toggles DEF SyncInv, StepFacts, Cur
<1>3. /\ \A i \in {0, 1} : File'[i] = File[i]
      /\ \A x \in Page : File[x] = page[x]
      /\ \A x \in FilePage : disk'[x] = IF x = p THEN File[p] ELSE disk[x]
  <2>1. /\ p \in Page => File[p] \in Image
        /\ p \in {0, 1} => File[p] \in MetaPage
    BY DEF StepFacts, FileOK
  <2>2. \A x \in FilePage : disk'[x] = IF x = p THEN File[p] ELSE disk[x]
    BY <1>1, <2>1, DiskPut DEF StepFacts
  <2> QED BY <1>1, <2>2 DEF StepFacts, FileFacts, Meta
<1>4. ASSUME NEW t, WholeOn(disk, t), WholeOn(File, t)
      PROVE  WholeOn(disk', t)
  BY <1>3, <1>4, Pages DEF WholeOn
<1>5. /\ WholeOn(File, Cur.tree)
      /\ wpc \in SyncDone => WholeOn(File, wtree)
  <2>1. WholeOn(File, Cur.tree)
    BY NewestInFile DEF StepFacts
  <2>2. wpc \in SyncDone => \A x \in Page : wtree[x] # 0 => page[x] = wtree[x]
    BY DEF StepFacts, CoreInv, ImageInv, SyncDone, MetaDone, Flushed
  <2> QED BY <1>3, <2>1, <2>2 DEF WholeOn
<1>6. WholeOn(disk, Cur.tree)' /\ (wpc \in SyncDone => WholeOn(disk', wtree))
  BY <1>1, <1>2, <1>4, <1>5
<1>7. wpc # "publish" => Older(File[Toggle(mti + 1)].txnid, mti)
  BY NewestInFile DEF StepFacts
<1>8. NewestOnDisk => NewestOnDisk'
  <2>1. OnDisk => OnDisk'
    BY <1>1, <1>2, <1>3, Pages DEF OnDisk
  <2> QED BY <1>1, <1>2, <1>3, <1>7, <2>1, Pages DEF NewestOnDisk
<1>9. ASSUME PreviousOnDisk, wpc \notin SyncDone
      PROVE  NewestOnDisk' \/ PreviousOnDisk'
  <2>1. /\ mti >= 1 /\ disk[Toggle(mti + 1)] = File[Toggle(mti + 1)]
        /\ Sound(disk, mti - 1)
        /\ SnapshotOK(metaDbs[Toggle(mti + 1)].tree, mti - 1)
    BY <1>9 DEF PreviousOnDisk
  <2>2. disk'[Toggle(mti + 1)] = File'[Toggle(mti + 1)]
    BY <1>2, <1>3, <2>1, Pages
  <2>3. SnapshotOK(metaDbs[Toggle(mti + 1)].tree, mti - 1)'
    BY <1>1, <2>1, IdleMoves, PreviousKept DEF StepFacts
  <2>4. CASE p = Toggle(mti)
    <3>1. OnDisk'
      BY <1>2, <1>3, <2>4, Pages DEF OnDisk
    <3>2. Older(disk'[Toggle(mti + 1)].txnid, mti)
      BY <1>2, <1>3, <1>7, <1>9, <2>2 DEF SyncDone, MetaDone
    <3> QED BY <1>1, <3>1, <3>2 DEF NewestOnDisk
  <2>5. CASE p # Toggle(mti)
    <3>1. disk'[Toggle(mti)] = disk[Toggle(mti)]
      BY <1>2, <1>3, <2>5, Pages
    <3>2. disk'[Toggle(mti + 1)] = disk[Toggle(mti + 1)]
      BY <1>2, <1>3, <2>1, <2>2
    <3>3. WholeOn(disk', disk[Toggle(mti + 1)].dbs.tree)
      <4>1. disk[Toggle(mti + 1)].dbs.tree = metaDbs[Toggle(mti + 1)].tree
        BY <1>2, <2>1 DEF StepFacts, FileFacts, Meta
      <4>2. WholeOn(File, metaDbs[Toggle(mti + 1)].tree)
        <5>1. mti - 1 # mti + 1
          BY <1>2
        <5>2. Held(metaDbs[Toggle(mti + 1)].tree, mti - 1)
          BY <2>1, <5>1 DEF SnapshotOK
        <5> QED BY <1>3, <5>2 DEF Held, WholeOn
      <4>3. WholeOn(disk, metaDbs[Toggle(mti + 1)].tree)
        BY <1>2, <2>1, <4>1 DEF Sound
      <4> QED BY <1>4, <4>1, <4>2, <4>3
    <3>4. Sound(disk', mti - 1)
      <4>1. Toggle((mti - 1) + 1) = Toggle(mti) /\ Toggle(mti - 1) = Toggle(mti + 1)
        BY <1>2, <2>1
      <4> QED BY <2>1, <3>1, <3>2, <3>3, <4>1 DEF Sound
    <3> QED BY <1>1, <2>1, <2>2, <2>3, <3>4 DEF PreviousOnDisk
  <2> QED BY <2>4, <2>5
<1> QED BY <1>1, <1>2, <1>6, <1>8, <1>9

\* A disk that holds what the file holds.
LEMMA SyncFresh ==
  ASSUME StepFacts, \A p \in FilePage : disk'[p] = File'[p], wpc' # "publish",
         wpc' \in SyncDone => WholeOn(File', wtree')
  PROVE  SyncInv'
<1>1. /\ WholeOn(File', Cur'.tree)
      /\ Older(File'[Toggle(mti' + 1)].txnid, mti')
  BY NewestNext DEF StepFacts, NewestFacts
<1>2. Toggle(mti') \in FilePage /\ Toggle(mti' + 1) \in FilePage
  <2>1. mti' \in Nat
    BY DEF StepFacts, TypeOK, Txn
  <2> QED BY <2>1, ToggleFacts, Pages
<1>3. \A t : WholeOn(File', t) => WholeOn(disk', t)
  BY Pages DEF WholeOn
<1>4. NewestOnDisk'
  BY <1>1, <1>2 DEF NewestOnDisk, OnDisk
<1> QED BY <1>1, <1>3, <1>4 DEF SyncInv

\* Every step of a synced mode keeps one of the two newest versions on the disk.
LEMMA SyncStep ==
  ASSUME ErrorsUnsynced, DInv, [DNext]_dvars
  PROVE  SyncInv'
<1>1. StepFacts /\ SyncInv /\ CoreInv /\ TxnInv
  BY Facts DEF DInv
<1> SUFFICES ASSUME ~Lossy, ~Ordered
             PROVE  SyncInv'
  BY <1>1 DEF StepFacts, SyncInv
<1>2. CASE WorkStep
  BY <1>1, <1>2, WorkMoves, SyncMoves DEF WorkStep
<1>3. CASE SyncPages
  <2>1. disk' = File /\ UNCHANGED <<page, metaDbs, metaLast, metaTxnid, wtree>> /\ wpc' = "metaDbs"
        /\ wpc = "sync"
    BY <1>3 DEF SyncPages, SyncsPages, Lossy, EnvSync, shared
  <2>2. \A p \in FilePage : File'[p] = File[p]
    BY <1>1, <2>1, Pages DEF StepFacts, FileFacts, Meta
  <2>3. WholeOn(File', wtree')
    <3>1. \A p \in Page : wtree[p] # 0 => page[p] = wtree[p]
      BY <1>1, <2>1 DEF CoreInv, ImageInv, Flushed
    <3> QED BY <1>1, <2>1, <3>1 DEF StepFacts, FileFacts, WholeOn
  <2> QED BY <1>1, <2>1, <2>2, <2>3, SyncFresh
<1>4. CASE MetaWritten
  <2>1. /\ UNCHANGED <<page, metaDbs, metaLast, mti, disk, wtree, wid>>
        /\ wpc = "metaTxnid" /\ wpc' = "publish"
        /\ wid = mti + 1 /\ metaTxnid' = [metaTxnid EXCEPT ![Toggle(wid)] = wid]
        /\ Toggle(mti) \in {0, 1} /\ Toggle(mti) # Toggle(wid)
    BY <1>1, <1>4, Toggles DEF MetaWritten, WriteMetaTxnid, StepFacts
  <2>2. WholeOn(disk, Cur.tree) /\ WholeOn(disk, wtree) /\ NewestOnDisk
    BY <1>1, <2>1 DEF SyncInv, SyncDone, MetaDone
  <2>3. File'[Toggle(mti)] = File[Toggle(mti)] /\ Cur' = Cur
    BY <1>1, <2>1 DEF StepFacts, FileFacts, Meta, Cur, TypeOK
  <2>4. NewestOnDisk'
    BY <2>1, <2>2, <2>3 DEF NewestOnDisk, OnDisk
  <2> QED BY <2>1, <2>2, <2>3, <2>4 DEF SyncInv, WholeOn
<1>5. CASE MetaFails
  BY <1>1, <1>5, FailsLossy DEF StepFacts
<1>6. CASE CommitReturns
  <2>1. /\ wpc = "publish" /\ wpc' = "idle" /\ mti' = wid /\ Kept /\ pglast' = 0
        /\ UNCHANGED <<metaDbs, metaLast, metaTxnid>>
    BY <1>1, <1>6, CommitMoves DEF CommitReturns, Publish, Unlocked, meta
  <2>2. Meta(Toggle(wid)) = File[Toggle(wid)]
    BY <1>1, <2>1, Toggles DEF StepFacts, FileFacts
  <2>3. disk' = disk \/ disk' = [disk EXCEPT ![Toggle(wid)] = File[Toggle(wid)]]
    BY <1>6, <2>2 DEF CommitReturns
  <2>4. \A v \in Txn, t \in Tree : SnapshotOK(t, v) /\ v <= mti => SnapshotOK(t, v)'
    BY <2>1 DEF Kept, Txn
  <2> QED BY <1>1, <2>1, <2>3, <2>4, SyncPublish
<1>7. ASSUME NEW p \in DOMAIN disk, WriteBack(p)
      PROVE  SyncInv'
  BY <1>1, <1>7, SyncWriteBack DEF StepFacts
<1>8. CASE WriteBackNext
  BY <1>8 DEF WriteBackNext
<1>9. CASE ForceStart \/ ForceReturns \/ UNCHANGED dvars
  <2>1. UNCHANGED vars /\ disk' = disk
    BY <1>9 DEF ForceStart, ForceReturns, dvars
  <2> QED BY <1>1, <2>1, IdleMoves, SyncMoves
<1>10. CASE Crash
  <2>1. PICK n \in Txn : n <= begun /\ Sound(disk, n)
    BY <1>10, Recoverable DEF Crash
  <2>2. wpc' = "idle" /\ (\A p \in FilePage : File'[p] = disk[p]) /\ disk' = disk
    BY <1>1, <1>10, <2>1, Reopen DEF Crash, StepFacts
  <2> QED BY <1>1, <2>2, SyncFresh DEF SyncDone, MetaDone
<1>11. CASE Restart
  <2>1. /\ wpc' = "idle" /\ mti' = Top /\ disk' = disk
        /\ UNCHANGED <<page, metaDbs, metaLast, metaTxnid>>
        /\ \A p \in FilePage : File'[p] = File[p]
        /\ \A t \in Tree, v \in Txn :
             SnapshotOK(t, v) /\ v <= mti => SnapshotOK(t, v)'
    BY <1>1, <1>11, RestartMoves DEF Restart
  <2>2. CASE wpc = "publish"
    BY <1>1, <2>1, <2>2, SyncPublish DEF Top
  <2>3. CASE wpc # "publish"
    <3>1. mti' = mti /\ Cur' = Cur /\ mti \in Nat /\ Toggle(mti) \in FilePage
          /\ Toggle(mti + 1) \in FilePage /\ Toggle(mti + 1) \in {0, 1}
      BY <1>1, <2>1, <2>3, Toggles, Pages DEF StepFacts, Top, Cur
    <3>2. WholeOn(disk, Cur.tree) /\ (NewestOnDisk \/ PreviousOnDisk)
      BY <1>1 DEF SyncInv
    <3>3. NewestOnDisk => NewestOnDisk'
      BY <2>1, <2>3, <3>1 DEF NewestOnDisk, OnDisk
    <3>4. PreviousOnDisk => PreviousOnDisk'
      <4>1. PreviousOnDisk => mti - 1 \in Txn /\ mti - 1 <= mti
        BY <1>1, <3>1, MVCCAssumption DEF PreviousOnDisk, StepFacts, TypeOK, Txn
      <4>2. metaDbs[Toggle(mti + 1)].tree \in Tree
        BY <1>1, <3>1 DEF StepFacts, TypeOK, Dbs
      <4>3. PreviousOnDisk => SnapshotOK(metaDbs[Toggle(mti + 1)].tree, mti - 1)'
        <5>1. \A t \in Tree, v \in Txn :
                t = metaDbs[Toggle(mti + 1)].tree /\ v = mti - 1 /\ PreviousOnDisk
                  => SnapshotOK(t, v)'
          BY <2>1, <4>1 DEF PreviousOnDisk
        <5> QED BY <2>1, <3>1, <4>1, <4>2, <5>1 DEF SnapshotOK, Held, Unsafe
      <4> QED BY <2>1, <3>1, <4>3 DEF PreviousOnDisk
    <3> QED BY <2>1, <3>1, <3>2, <3>3, <3>4 DEF SyncInv, SyncDone, MetaDone, WholeOn
  <2> QED BY <2>2, <2>3
<1> QED BY <1>2, <1>3, <1>4, <1>5, <1>6, <1>7, <1>8, <1>9, <1>10, <1>11 DEF DNext

-----------------------------------------------------------------------------
(* Unsynced modes without an order of writes.                               *)

\* What is still to be written stays so while the disk does not change.
LEMMA ExceptMoves ==
  ASSUME StepFacts, NEW S, NEW S2, S \subseteq S2, Except(S), disk' = disk, UNCHANGED <<mti, Cur>>,
         File'[Toggle(mti)] = File[Toggle(mti)],
         wpc = "publish" => wpc' = "publish"
  PROVE  Except(S2)'
  BY DEF Except, OnDisk

\* Every step of an unsynced mode keeps a covered version whole on the disk, or
\* what a forced sync has still to write of it in force.
LEMMA LossyStep ==
  ASSUME ErrorsUnsynced, DInv, [DNext]_dvars
  PROVE  LossyInv'
<1>1. StepFacts /\ LossyInv /\ CoreInv /\ TxnInv
  BY Facts DEF DInv
<1> SUFFICES ASSUME Lossy, ~Ordered
             PROVE  /\ (durable = mti => Except({}))'
                    /\ (forceVer = mti => Except(force))'
  BY <1>1 DEF StepFacts, LossyInv
<1>2. /\ mti \in Nat /\ mti \in Txn /\ Toggle(mti) \in {0, 1} /\ Toggle(mti + 1) \in {0, 1}
      /\ Toggle(mti) # Toggle(mti + 1)
      /\ durable <= mti /\ (forceVer # None => forceVer <= mti)
      /\ durable \in Int /\ forceVer \in Int /\ mti # None
      /\ durable = mti => Except({})
      /\ forceVer = mti => Except(force)
  BY <1>1, Toggles DEF DInv, StepFacts, PromiseInv, LossyInv, DTypeOK, Txn, None
<1>3. ASSUME UNCHANGED <<disk, force, forceVer, durable, mti, Cur>>,
             File'[Toggle(mti)] = File[Toggle(mti)], wpc = "publish" => wpc' = "publish"
      PROVE  LossyInv'
  BY <1>1, <1>2, <1>3, ExceptMoves DEF LossyInv
<1>4. CASE WorkStep
  <2>1. Moves /\ UNCHANGED <<disk, force, forceVer, durable>>
    BY <1>1, <1>4, WorkMoves DEF WorkStep
  <2>2. wpc = "publish" => wpc' = "publish"
    BY <1>1, <2>1, TxnOfMoves
  <2>3. LossyInv'
    BY <1>1, <1>3, <2>1, <2>2, MovesFile
  <2> QED BY <1>1, <2>3 DEF StepFacts, LossyInv
<1>5. CASE SyncPages \/ MetaWritten
  <2>1. /\ UNCHANGED <<metaDbs, metaLast, mti, disk, force, forceVer, durable>>
        /\ wpc # "publish"
        /\ \/ metaTxnid' = metaTxnid
           \/ metaTxnid' = [metaTxnid EXCEPT ![Toggle(wid)] = wid] /\ wid = mti + 1
    BY <1>1, <1>5, Toggles DEF SyncPages, SyncsPages, Lossy, MetaWritten, EnvSync, WriteMetaTxnid,
       shared, StepFacts
  <2>2. metaTxnid'[Toggle(mti)] = metaTxnid[Toggle(mti)]
    BY <1>1, <1>2, <2>1 DEF StepFacts, TypeOK
  <2>3. File'[Toggle(mti)] = File[Toggle(mti)] /\ Cur' = Cur
    BY <1>1, <1>2, <2>1, <2>2 DEF StepFacts, FileFacts, Meta, Cur
  <2>4. LossyInv'
    BY <1>3, <2>1, <2>3
  <2> QED BY <1>1, <2>4 DEF StepFacts, LossyInv
<1>6. CASE MetaFails
  BY <1>1, <1>2, <1>6 DEF MetaFails, shared
<1>7. CASE CommitReturns
  <2>1. mti' = mti + 1 /\ durable' = durable /\ forceVer' = forceVer
    BY <1>1, <1>7, Toggles DEF CommitReturns, Publish, KeptBy, StepFacts
  <2> QED BY <1>2, <2>1 DEF None
<1>8. ASSUME NEW p \in DOMAIN disk, WriteBack(p)
      PROVE  LossyInv'
  <2>1. /\ UNCHANGED <<page, metaDbs, metaLast, metaTxnid, mti, wpc, forceVer, durable>>
        /\ disk' = [disk EXCEPT ![p] = File[p]] /\ force' = force \ {p} /\ p \in FilePage
    BY <1>1, <1>8 DEF WriteBack, vars, shared, writer, StepFacts
  <2>2. \A x \in FilePage : disk'[x] = IF x = p THEN File[p] ELSE disk[x]
    <3>1. /\ p \in Page => File[p] \in Image
          /\ p \in {0, 1} => File[p] \in MetaPage
      BY <1>1 DEF StepFacts, FileOK
    <3> QED BY <1>1, <2>1, <3>1, DiskPut DEF StepFacts
  <2>3. /\ \A i \in {0, 1} : File'[i] = File[i]
        /\ Cur' = Cur
    BY <1>1, <2>1 DEF StepFacts, FileFacts, Meta, Cur
  <2>4. /\ WholeOn(File, Cur.tree)
        /\ wpc # "publish" => Older(File[Toggle(mti + 1)].txnid, mti)
    BY <1>1, NewestInFile
  <2>5. ASSUME NEW S, Except(S)
        PROVE  Except(S \ {p})'
    <3>1. Toggle(mti) \in S \ {p} \/ disk'[Toggle(mti)] = File'[Toggle(mti)]
      BY <1>2, <2>2, <2>3, <2>5, Pages DEF Except, OnDisk
    <3>2. \A x \in Page : Cur.tree[x] # 0 => x \in S \ {p} \/ disk'[x] = Cur.tree[x]
      BY <2>2, <2>4, <2>5, Pages DEF Except, WholeOn
    <3>3. \/ Toggle(mti + 1) \in S \ {p}
          \/ Older(disk'[Toggle(mti + 1)].txnid, mti)
          \/ wpc = "publish"
      BY <1>2, <2>2, <2>4, <2>5, Pages DEF Except
    <3> QED BY <2>1, <2>3, <3>1, <3>2, <3>3 DEF Except, OnDisk
  <2>6. durable = mti => Except({})'
    <3>1. {} \ {p} = {}
      OBVIOUS
    <3> QED BY <1>2, <2>5, <3>1
  <2>7. forceVer = mti => Except(force)'
    BY <1>2, <2>1, <2>5 DEF Except, OnDisk
  <2> QED BY <2>1, <2>6, <2>7 DEF LossyInv
<1>9. CASE WriteBackNext
  BY <1>9 DEF WriteBackNext
<1>10. CASE ForceStart
  <2>1. /\ UNCHANGED <<page, metaDbs, metaLast, metaTxnid, mti, wpc, disk, durable>>
        /\ force' = {p \in FilePage : disk[p] # File[p]}
    BY <1>1, <1>10 DEF ForceStart, vars, shared, writer, StepFacts
  <2>2. File'[Toggle(mti)] = File[Toggle(mti)] /\ Cur' = Cur
    BY <1>1, <1>2, <2>1 DEF StepFacts, FileFacts, Meta, Cur
  <2>3. durable = mti => Except({})'
    BY <1>1, <1>2, <2>1, <2>2, ExceptMoves
  <2>4. Except(force)'
    <3>1. /\ WholeOn(File, Cur.tree)
          /\ wpc # "publish" => Older(File[Toggle(mti + 1)].txnid, mti)
      BY <1>1, NewestInFile
    <3>2. \A p \in FilePage : p \in force' \/ disk[p] = File[p]
      BY <2>1
    <3> QED BY <1>2, <2>1, <2>2, <3>1, <3>2, Pages DEF Except, OnDisk, WholeOn
  <2> QED BY <2>1, <2>3, <2>4
<1>11. CASE ForceReturns
  <2>1. /\ UNCHANGED <<page, metaDbs, metaLast, metaTxnid, mti, wpc, disk>>
        /\ force = {} /\ forceVer' = None
        /\ durable' = forceVer \/ durable' = durable
    BY <1>1, <1>11 DEF ForceReturns, vars, shared, writer, StepFacts
  <2>2. File'[Toggle(mti)] = File[Toggle(mti)] /\ Cur' = Cur
    BY <1>1, <1>2, <2>1 DEF StepFacts, FileFacts, Meta, Cur
  <2>3. durable' = mti => Except({})'
    BY <1>1, <1>2, <2>1, <2>2, ExceptMoves
  <2> QED BY <1>2, <2>1, <2>3
<1>12. CASE Crash
  <2>1. PICK n \in Txn : n <= begun /\ Sound(disk, n)
    BY <1>12, Recoverable DEF Crash
  <2>2. /\ wpc' = "idle" /\ disk' = disk /\ (\A p \in FilePage : File'[p] = disk[p])
        /\ forceVer' = None /\ mti' = n
    BY <1>1, <1>12, <2>1, Reopen DEF Crash, Reopened, StepFacts
  <2>3. /\ WholeOn(File', Cur'.tree)
        /\ Older(File'[Toggle(mti' + 1)].txnid, mti')
    BY <1>1, <2>2, NewestNext DEF StepFacts, NewestFacts
  <2>4. Toggle(mti') \in FilePage /\ Toggle(mti' + 1) \in FilePage /\ mti' # None
    <3>1. n \in Nat
      BY DEF Txn
    <3> QED BY <2>2, <3>1, ToggleFacts, Pages DEF None
  <2>5. Except({})'
    BY <2>2, <2>3, <2>4, Pages DEF Except, OnDisk, WholeOn
  <2> QED BY <2>2, <2>4, <2>5
<1>13. CASE Restart
  <2>1. /\ wpc' = "idle" /\ mti' = Top /\ disk' = disk /\ durable' = durable
        /\ forceVer' = None
        /\ UNCHANGED <<page, metaDbs, metaLast, metaTxnid>>
        /\ \A p \in FilePage : File'[p] = File[p]
    BY <1>1, <1>13, RestartMoves DEF Restart, Reopened
  <2>2. CASE wpc = "publish"
    <3>1. mti' = mti + 1
      BY <1>1, <2>1, <2>2, Toggles DEF Top, StepFacts
    <3> QED BY <1>2, <2>1, <3>1 DEF None
  <2>3. CASE wpc # "publish"
    <3>1. mti' = mti /\ Cur' = Cur /\ File'[Toggle(mti)] = File[Toggle(mti)]
      BY <1>2, <2>1, <2>3, Pages DEF Top, Cur
    <3>2. durable = mti => Except({})'
      BY <1>1, <1>2, <2>1, <2>3, <3>1, ExceptMoves
    <3> QED BY <1>2, <2>1, <3>1, <3>2
  <2> QED BY <2>2, <2>3
<1>14. CASE UNCHANGED dvars
  <2>1. /\ UNCHANGED <<disk, force, forceVer, durable, mti, wpc, metaDbs, metaLast, metaTxnid>>
    BY <1>14 DEF dvars, cache, vars, shared, writer
  <2>2. File'[Toggle(mti)] = File[Toggle(mti)] /\ Cur' = Cur
    BY <1>1, <1>2, <2>1 DEF StepFacts, FileFacts, Meta, Cur
  <2>3. LossyInv'
    BY <1>3, <2>1, <2>2
  <2> QED BY <1>1, <2>3 DEF StepFacts, LossyInv
<1> QED
  <2>1. \A p \in DOMAIN disk : WriteBack(p) =>
          /\ (durable = mti => Except({}))'
          /\ (forceVer = mti => Except(force))'
    BY <1>1, <1>8 DEF StepFacts, LossyInv
  <2> QED BY <1>4, <1>5, <1>6, <1>7, <1>9, <1>10, <1>11, <1>12, <1>13, <1>14, <2>1 DEF DNext

-----------------------------------------------------------------------------
(* An ordered file system.                                                  *)

\* Equal page by page, the contents are equal.
LEMMA SameContent ==
  ASSUME NEW f, NEW g, FileOK(f), FileOK(g), \A p \in FilePage : f[p] = g[p]
  PROVE  f = g
  BY DEF FileOK

\* The file is a content that recovery may find.
LEMMA FileReached ==
  ASSUME StepFacts, PromiseInv', NEW f, f = File'
  PROVE  Reached(f)'
<1>1. Top' \in Txn /\ Sound(File', Top')
  BY FileSoundNext DEF StepFacts, TopSound
<1>2. AtLeast(File', mti')
  <2>1. File'[Toggle(mti')].txnid = mti' /\ mti' \in Int
    BY NewestNext DEF StepFacts, NewestFacts, TypeOK, Txn
  <2> QED BY <2>1 DEF AtLeast
<1>3. Top' <= Top'
  BY <1>1 DEF Txn
<1>4. FileOK(File') /\ AtLeast(File', durable')
  BY DEF StepFacts, PromiseInv
<1> QED BY <1>1, <1>2, <1>3, <1>4 DEF Reached

\* The queue and the disk stay.
LEMMA QueueKept ==
  ASSUME StepFacts, NEW h, History(h), UNCHANGED <<disk, queue>>, Top <= Top', Top \in Int,
         Top' \in Int,
         \A i \in 0 .. Len(queue) : /\ AtLeast(h[i], durable')
                                    /\ ~Lossy /\ wpc' \in SyncDone => AtLeast(h[i], mti'),
         \A p \in FilePage : \/ h[Len(queue)][p] = File'[p]
                             \/ wpc' \in Torn /\ p = Toggle(wid')
  PROVE  History(h)'
<1>1. ASSUME NEW i \in 0 .. Len(queue)
      PROVE  Reached(h[i])'
  <2>1. FileOK(h[i]) /\ \E n \in Txn : n <= Top /\ Sound(h[i], n)
    BY DEF History, Reached
  <2>2. \E n \in Txn : n <= Top' /\ Sound(h[i], n)
    BY <2>1 DEF Txn
  <2> QED BY <2>1, <2>2 DEF Reached, StepFacts
<1> QED BY <1>1 DEF History

\* A write of the file joins the queue.
LEMMA QueueGrows ==
  ASSUME StepFacts, PromiseInv', NEW h, History(h), disk' = disk,
         NEW e \in PageWrite \cup MetaWrite, queue' = Append(queue, e),
         \A p \in FilePage : File'[p] = IF p \in DOMAIN e THEN e[p] ELSE h[Len(queue)][p],
         Top <= Top', Top \in Int, Top' \in Int,
         \A i \in 0 .. Len(queue) : /\ AtLeast(h[i], durable')
                                    /\ ~Lossy /\ wpc' \in SyncDone => AtLeast(h[i], mti')
  PROVE  \E g : History(g)'
<1> DEFINE n == Len(queue)
<1>0. PICK g : g = [i \in 0 .. n + 1 |-> IF i <= n THEN h[i] ELSE File']
  OBVIOUS
<1>1. /\ n \in Nat /\ Len(queue') = n + 1 /\ queue'[n + 1] = e
      /\ \A i \in 1 .. n : queue'[i] = queue[i]
  BY DEF StepFacts, DTypeOK
<1>2. /\ \A i \in 0 .. n : g[i] = h[i]
      /\ g[n + 1] = File'
  BY <1>0, <1>1
<1>3. \A i \in 0 .. n : FileOK(h[i]) /\ \E m \in Txn : m <= Top /\ Sound(h[i], m)
  BY DEF History, Reached
<1>4. g[n + 1] = Over(e, h[n])
  <2>1. FileOK(h[n]) /\ FileOK(File')
    BY <1>1, <1>3 DEF StepFacts
  <2>2. FileOK(Over(e, h[n]))
    BY <2>1, Writes
  <2> QED BY <1>2, <2>1, <2>2, SameContent DEF Over
<1>5. \A i \in 1 .. Len(queue') : g[i] = Over(queue'[i], g[i - 1])
  <2> SUFFICES ASSUME NEW i \in 1 .. n + 1
               PROVE  g[i] = Over(queue'[i], g[i - 1])
    BY <1>1
  <2>1. CASE i = n + 1
    BY <1>1, <1>2, <1>4, <2>1
  <2>2. CASE i \in 1 .. n
    BY <1>1, <1>2, <2>2 DEF History
  <2> QED BY <1>1, <2>1, <2>2
<1>6. ASSUME NEW i \in 0 .. Len(queue')
      PROVE  Reached(g[i])'
  <2>1. CASE i = n + 1
    BY <1>2, <2>1, FileReached
  <2>2. CASE i \in 0 .. n
    <3>1. \E m \in Txn : m <= Top' /\ Sound(h[i], m)
      BY <1>3, <2>2 DEF Txn
    <3> QED BY <1>2, <1>3, <2>2, <3>1 DEF Reached, StepFacts
  <2> QED BY <1>1, <2>1, <2>2
<1>7. g[0] = disk'
  BY <1>1, <1>2 DEF History
<1>8. History(g)'
  BY <1>1, <1>2, <1>5, <1>6, <1>7 DEF History
<1> QED BY <1>8

\* The disk holds what the file holds, and so does every write of the queue.
LEMMA QueueFlat ==
  ASSUME StepFacts, PromiseInv', \A p \in FilePage : disk'[p] = File'[p],
         \A i \in 1 .. Len(queue') : \A p \in DOMAIN queue'[i] : queue'[i][p] = File'[p]
  PROVE  \E g : History(g)'
<1>0. PICK g : g = [i \in 0 .. Len(queue') |-> disk']
  OBVIOUS
<1>1. disk' = File' /\ Len(queue') \in Nat
  BY SameContent DEF StepFacts, DTypeOK
<1>2. \A i \in 0 .. Len(queue') : g[i] = File'
  BY <1>0, <1>1
<1>3. ASSUME NEW i \in 1 .. Len(queue')
      PROVE  g[i] = Over(queue'[i], g[i - 1])
  <2>1. g[i] = File' /\ g[i - 1] = File'
    BY <1>1, <1>2
  <2>2. Over(queue'[i], File') = [p \in FilePage |-> File'[p]]
    BY DEF Over
  <2> QED BY <2>1, <2>2 DEF StepFacts, FileOK
<1>4. ASSUME NEW i \in 0 .. Len(queue')
      PROVE  Reached(g[i])'
  BY <1>2, FileReached
<1>5. History(g)'
  BY <1>0, <1>1, <1>2, <1>3, <1>4 DEF History
<1> QED BY <1>5

\* The steps of WorkStep: the queue gets the pages one of them writes.
LEMMA OrderWork ==
  ASSUME StepFacts, PromiseInv', OrderInv, Ordered, Moves, Written, disk' = disk,
         durable' = durable
  PROVE  OrderInv'
<1>1. PICK h : History(h)
  BY DEF OrderInv
<1>2. /\ Top' = Top /\ (wpc = "publish" <=> wpc' = "publish") /\ Top \in Int
      /\ Len(queue) \in Nat
  BY TxnOfMoves, FileSound DEF StepFacts, TopSound, Txn, DTypeOK
<1>3. \A i \in 0 .. Len(queue) : /\ AtLeast(h[i], durable')
                                 /\ ~Lossy /\ wpc' \in SyncDone => AtLeast(h[i], mti')
  <2>1. \A i \in 0 .. Len(queue) : Reached(h[i])
    BY <1>1 DEF History
  <2>2. mti' = mti /\ (wpc' \in SyncDone => wpc \in SyncDone)
    BY MovesFile DEF SyncDone, Torn, MetaDone, Moves
  <2> QED BY <2>1, <2>2 DEF Reached
<1>4. CASE queue' = queue /\ page' = page
  <2>1. \A p \in FilePage : \/ h[Len(queue)][p] = File'[p]
                            \/ wpc' \in Torn /\ p = Toggle(wid')
    <3>1. \A p \in FilePage : \/ h[Len(queue)][p] = File[p]
                              \/ wpc \in Torn /\ p = Toggle(wid)
      BY <1>1 DEF History
    <3>2. \A p \in Page : File'[p] = File[p]
      BY <1>4 DEF StepFacts, FileFacts
    <3> QED BY <3>1, <3>2, MovesFile, Pages DEF SyncDone, Torn, MetaDone
  <2>2. History(h)'
    BY <1>1, <1>2, <1>3, <1>4, <2>1, QueueKept
  <2>3. ~Lossy' /\ wpc' \in SyncDone => QueueShort'
    <3>1. /\ (wpc' \in SyncDone => wpc \in SyncDone)
          /\ wpc = "publish" => wid' = wid
      BY MovesFile DEF SyncDone, Torn, MetaDone
    <3> QED BY <1>2, <1>4, <3>1 DEF StepFacts, OrderInv, QueueShort
  <2> QED BY <2>2, <2>3 DEF OrderInv
<1>5. ASSUME NEW e \in PageWrite, page' # page, queue' = Append(queue, e),
             \A p \in Page : p \in DOMAIN e <=> page'[p] # page[p],
             \A p \in DOMAIN e : e[p] = page'[p]
      PROVE  OrderInv'
  <2>1. /\ wpc \notin SyncDone /\ wpc' \notin SyncDone /\ UNCHANGED <<metaDbs, metaLast>>
        /\ \A i \in {0, 1} : File'[i] = File[i]
    <3>1. wpc \notin SyncDone /\ wpc' \notin SyncDone /\ UNCHANGED <<metaDbs, metaLast>>
      BY <1>5 DEF Moves
    <3> QED BY <3>1 DEF Moves, StepFacts, FileFacts, Meta
  <2>2. ASSUME NEW p \in FilePage
        PROVE  File'[p] = IF p \in DOMAIN e THEN e[p] ELSE h[Len(queue)][p]
    <3>1. h[Len(queue)][p] = File[p]
      BY <1>1, <2>1 DEF History, SyncDone, MetaDone, Torn
    <3>2. DOMAIN e \subseteq Page
      <4>1. PICK D \in (SUBSET Page) \ {{}} : e \in [D -> Image]
        BY DEF PageWrite
      <4> QED BY <4>1
    <3> QED BY <1>5, <2>1, <3>1, <3>2, Pages DEF StepFacts, FileFacts
  <2>3. \E g : History(g)'
    BY <1>1, <1>2, <1>3, <1>5, <2>2, QueueGrows
  <2> QED BY <2>1, <2>3 DEF OrderInv
<1> QED BY <1>4, <1>5, WrittenEntry DEF StepFacts

\* A write of the queue reaches the disk, or one page of it.
LEMMA OrderWriteBack ==
  ASSUME StepFacts, OrderInv, WriteBackNext
  PROVE  OrderInv'
<1>1. PICK h : History(h)
  BY DEF OrderInv, WriteBackNext
<1>2. /\ UNCHANGED <<page, metaDbs, metaLast, metaTxnid, mti, wpc, wid, durable>>
      /\ queue \in Seq(PageWrite \cup MetaWrite) /\ queue # <<>>
  BY DEF WriteBackNext, vars, shared, writer, StepFacts, DTypeOK
<1>3. /\ Len(queue) \in Nat /\ Len(queue) >= 1 /\ Head(queue) = queue[1]
      /\ queue[1] \in PageWrite \cup MetaWrite
      /\ Tail(queue) \in Seq(PageWrite \cup MetaWrite)
      /\ Len(Tail(queue)) = Len(queue) - 1
      /\ \A i \in 1 .. Len(queue) - 1 : Tail(queue)[i] = queue[i + 1]
  BY <1>2
<1> DEFINE q == queue[1]
<1>4. PICK p \in DOMAIN q :
        /\ disk' = [disk EXCEPT ![p] = q[p]]
        /\ queue' = IF DOMAIN q \ {p} = {} THEN Tail(queue)
                      ELSE <<[x \in DOMAIN q \ {p} |-> q[x]]>> \o Tail(queue)
  BY <1>3 DEF WriteBackNext
<1>5. /\ p \in FilePage /\ DOMAIN q \subseteq FilePage
      /\ \A x \in FilePage : disk'[x] = IF x = p THEN q[p] ELSE disk[x]
  <2>1. /\ DOMAIN q \subseteq FilePage
        /\ p \in Page => q[p] \in Image
        /\ p \in {0, 1} => q[p] \in MetaPage
    BY <1>3, Writes
  <2> QED BY <1>4, <2>1, DiskPut DEF StepFacts
<1>6. /\ h[0] = disk /\ h[1] = Over(q, disk)
      /\ \A i \in 0 .. Len(queue) : Reached(h[i])
      /\ \A i \in 1 .. Len(queue) : h[i] = Over(queue[i], h[i - 1])
  BY <1>1, <1>3 DEF History
<1>7. /\ Top' = Top
      /\ \A x \in FilePage : File'[x] = File[x]
  BY <1>2, Pages DEF Top, StepFacts, FileFacts, Meta
<1>8. ASSUME NEW f, Reached(f)
      PROVE  Reached(f)'
  BY <1>2, <1>7, <1>8 DEF Reached, StepFacts
<1>9. CASE DOMAIN q \ {p} = {}
  <2>1. queue' = Tail(queue) /\ Len(queue') = Len(queue) - 1
    BY <1>3, <1>4, <1>9
  <2>2. PICK g : g = [i \in 0 .. Len(queue) - 1 |-> h[i + 1]]
    OBVIOUS
  <2>3. disk' = h[1]
    <3>1. FileOK(h[1]) /\ FileOK(disk')
      BY <1>3, <1>6 DEF Reached, StepFacts
    <3>2. \A x \in FilePage : disk'[x] = h[1][x]
      BY <1>5, <1>6, <1>9 DEF Over
    <3> QED BY <3>1, <3>2, SameContent
  <2>4. \A i \in 0 .. Len(queue) - 1 : g[i] = h[i + 1] /\ Reached(h[i + 1])'
    BY <1>3, <1>6, <1>8, <2>2
  <2>5. \A i \in 1 .. Len(queue) - 1 : g[i] = Over(queue'[i], g[i - 1])
    <3> SUFFICES ASSUME NEW i \in 1 .. Len(queue) - 1
                 PROVE  g[i] = Over(queue'[i], g[i - 1])
      OBVIOUS
    <3>1. i + 1 \in 1 .. Len(queue) /\ i - 1 \in 0 .. Len(queue) - 1
          /\ i \in 0 .. Len(queue) - 1 /\ (i + 1) - 1 = i /\ (i - 1) + 1 = i
      BY <1>3
    <3>2. h[i + 1] = Over(queue[i + 1], h[i])
      BY <1>6, <3>1
    <3> QED BY <1>3, <2>1, <2>4, <3>1, <3>2
  <2>6. \A x \in FilePage : \/ g[Len(queue) - 1][x] = File'[x]
                            \/ wpc' \in Torn /\ x = Toggle(wid')
    BY <1>1, <1>2, <1>3, <1>7, <2>4 DEF History
  <2>7. History(g)'
    BY <1>3, <2>1, <2>3, <2>4, <2>5, <2>6 DEF History
  <2>8. QueueShort => queue' = <<>>
    BY <1>2, <1>3, <2>1 DEF QueueShort
  <2> QED BY <1>2, <2>7, <2>8 DEF OrderInv, QueueShort, StepFacts, WriteBackNext
<1>10. CASE DOMAIN q \ {p} # {}
  <2> DEFINE r == [x \in DOMAIN q \ {p} |-> q[x]]
  <2>1. /\ queue' = <<r>> \o Tail(queue) /\ Len(queue') = Len(queue)
        /\ queue'[1] = r
        /\ \A i \in 2 .. Len(queue) : queue'[i] = queue[i]
    <3>1. queue' = <<r>> \o Tail(queue)
      BY <1>4, <1>10
    <3> HIDE DEF r
    <3> QED BY <1>3, <3>1
  <2>2. DOMAIN q \subseteq Page
    <3>1. \A x \in DOMAIN q : /\ x \in Page => DOMAIN q \subseteq Page
                              /\ x \in {0, 1} => DOMAIN q = {x}
      BY <1>3, Writes
    <3> QED BY <1>5, <1>10, <3>1, Pages
  <2>3. PICK g : g = [i \in 0 .. Len(queue) |-> IF i = 0 THEN disk' ELSE h[i]]
    OBVIOUS
  <2>4. g[0] = disk' /\ \A i \in 1 .. Len(queue) : g[i] = h[i]
    BY <1>3, <2>3
  <2>5. h[1] = Over(r, disk')
    <3>1. FileOK(h[1])
      BY <1>3, <1>6 DEF Reached
    <3>2. \A x \in FilePage : h[1][x] = Over(r, disk')[x]
      BY <1>5, <1>6 DEF Over
    <3>3. h[1] = [x \in FilePage |-> h[1][x]]
      BY <3>1 DEF FileOK
    <3>4. Over(r, disk') = [x \in FilePage |-> Over(r, disk')[x]]
      BY DEF Over
    <3> QED BY <3>2, <3>3, <3>4
  <2>6. Reached(disk)'
    <3>1. /\ Reached(h[0]) /\ Reached(h[1])
      BY <1>3, <1>6
    <3>2. /\ \A i \in {0, 1} : h[1][i] = disk[i] /\ disk'[i] = disk[i]
          /\ \A x \in Page : disk'[x] = disk[x] \/ disk'[x] = h[1][x]
      BY <1>5, <1>6, <2>2, Pages DEF Over
    <3>3. PICK n \in Txn : n <= Top /\ Sound(disk, n)
      BY <1>6, <3>1 DEF Reached
    <3>4. PICK m \in Txn : m <= Top /\ Sound(h[1], m)
      BY <3>1 DEF Reached
    <3>5. m = n
      <4>1. disk[Toggle(n)].txnid = n /\ disk[Toggle(m)].txnid = m
        BY <3>2, <3>3, <3>4, AnyToggle DEF Sound, VersionOK
      <4>2. h[1][Toggle(n)].txnid = n
        BY <3>2, <4>1, AnyToggle
      <4>3. n <= m /\ m <= n
        BY <3>1, <3>3, <3>4, <4>1, <4>2, SoundMeta DEF Reached, StepFacts
      <4> QED BY <4>3 DEF Txn
    <3>6. Sound(disk', n)
      <4>1. Toggle(n) \in {0, 1} /\ Toggle(n + 1) \in {0, 1}
        BY ToggleFacts DEF Txn
      <4>2. WholeOn(disk', disk[Toggle(n)].dbs.tree)
        <5>1. WholeOn(disk, disk[Toggle(n)].dbs.tree)
          BY <3>3 DEF Sound
        <5>2. WholeOn(h[1], disk[Toggle(n)].dbs.tree)
          BY <3>2, <3>4, <3>5, <4>1 DEF Sound
        <5> QED BY <3>2, <5>1, <5>2 DEF WholeOn
      <4> QED BY <3>2, <3>3, <4>1, <4>2 DEF Sound
    <3>7. \A m1 \in Txn \cup {None} : AtLeast(disk, m1) => AtLeast(disk', m1)
      BY <3>2, AnyToggle DEF AtLeast
    <3>8. /\ AtLeast(disk', durable')
          /\ ~Lossy /\ wpc' \in SyncDone => AtLeast(disk', mti')
      <4>1. durable \in Txn \cup {None} /\ mti \in Txn
        BY DEF StepFacts, DTypeOK, TypeOK
      <4> QED BY <1>2, <1>6, <3>1, <3>7, <4>1 DEF Reached
    <3> QED BY <1>7, <3>3, <3>6, <3>8 DEF Reached, StepFacts
  <2>7. ASSUME NEW i \in 0 .. Len(queue)
        PROVE  Reached(g[i])'
    <3>1. CASE i = 0
      BY <2>4, <2>6, <3>1 DEF Reached
    <3>2. CASE i \in 1 .. Len(queue)
      BY <1>6, <1>8, <2>4, <3>2
    <3> QED BY <1>3, <3>1, <3>2
  <2>8. ASSUME NEW i \in 1 .. Len(queue)
        PROVE  g[i] = Over(queue'[i], g[i - 1])
    <3>1. CASE i = 1
      BY <1>3, <2>1, <2>4, <2>5, <3>1
    <3>2. CASE i \in 2 .. Len(queue)
      BY <1>3, <1>6, <2>1, <2>4, <3>2
    <3> QED BY <1>3, <3>1, <3>2
  <2>9. \A x \in FilePage : \/ g[Len(queue)][x] = File'[x]
                            \/ wpc' \in Torn /\ x = Toggle(wid')
    BY <1>1, <1>2, <1>3, <1>7, <2>4 DEF History
  <2>10. History(g)'
    BY <2>1, <2>4, <2>7, <2>8, <2>9 DEF History
  <2>11. ~QueueShort
    BY <1>2, <1>10 DEF QueueShort
  <2> QED BY <1>2, <2>10, <2>11 DEF OrderInv, StepFacts, WriteBackNext
<1> QED BY <1>9, <1>10

\* The last field of a meta page, whose write joins the queue.
LEMMA OrderMeta ==
  ASSUME StepFacts, PromiseInv', OrderInv, Ordered, MetaWritten
  PROVE  OrderInv'
<1>1. PICK h : History(h)
  BY DEF OrderInv
<1>2. /\ wpc = "metaTxnid" /\ wpc' = "publish" /\ wid' = wid /\ mti' = mti /\ disk' = disk
      /\ UNCHANGED <<page, metaDbs, metaLast, durable>>
      /\ metaTxnid' = [metaTxnid EXCEPT ![Toggle(wid)] = wid]
      /\ queue' = Append(queue, [i \in {Toggle(wid)} |-> Meta(i)'])
  BY DEF MetaWritten, WriteMetaTxnid
<1>3. /\ wid = mti + 1 /\ mti \in Int /\ Top = mti /\ Top' = wid
      /\ Toggle(wid) \in {0, 1} /\ Len(queue) \in Nat
  BY <1>2, Toggles DEF StepFacts, Top, DTypeOK
<1>4. PICK e \in MetaWrite : /\ queue' = Append(queue, e) /\ DOMAIN e = {Toggle(wid)}
                             /\ e[Toggle(wid)] = File'[Toggle(wid)]
  <2>1. Meta(Toggle(wid))' = File'[Toggle(wid)] /\ File'[Toggle(wid)] \in MetaPage
    BY <1>2, <1>3 DEF StepFacts, FileFacts, FileOK, Meta
  <2>2. \A i \in {Toggle(wid)} : Meta(i)' = File'[i]
    BY <1>3 DEF StepFacts, FileFacts, Meta
  <2>3. [i \in {Toggle(wid)} |-> Meta(i)'] = [i \in {Toggle(wid)} |-> File'[i]]
    BY <2>2 DEF Meta
  <2>4. [i \in {Toggle(wid)} |-> File'[i]] \in MetaWrite
    BY <1>3, <2>1 DEF MetaWrite
  <2> QED BY <1>2, <2>3, <2>4
<1>5. ASSUME NEW p \in FilePage
      PROVE  File'[p] = IF p \in DOMAIN e THEN e[p] ELSE h[Len(queue)][p]
  <2>1. CASE p = Toggle(wid)
    BY <1>4, <2>1
  <2>2. CASE p # Toggle(wid)
    <3>1. h[Len(queue)][p] = File[p]
      BY <1>1, <2>2 DEF History
    <3>2. File'[p] = File[p]
      BY <1>2, <2>2, Pages DEF StepFacts, FileFacts, Meta, TypeOK
    <3> QED BY <1>4, <2>2, <3>1, <3>2
  <2> QED BY <2>1, <2>2
<1>6. \A i \in 0 .. Len(queue) : /\ AtLeast(h[i], durable')
                                 /\ ~Lossy /\ wpc' \in SyncDone => AtLeast(h[i], mti')
  BY <1>1, <1>2 DEF History, Reached, SyncDone, MetaDone
<1>7. \E g : History(g)'
  <2>1. Top <= Top' /\ Top \in Int /\ Top' \in Int
    BY <1>3
  <2>2. e \in PageWrite \cup MetaWrite /\ queue' = Append(queue, e) /\ disk' = disk
    BY <1>2, <1>4
  <2> QED BY <1>1, <1>5, <1>6, <2>1, <2>2, QueueGrows
<1>8. ~Lossy => QueueShort'
  <2>1. ~Lossy => queue = <<>>
    BY <1>2 DEF OrderInv, QueueShort, SyncDone, MetaDone
  <2>2. ~Lossy => Len(queue') = 1 /\ queue'[1] = e
    BY <1>4, <2>1
  <2> QED BY <1>2, <1>4, <2>2 DEF QueueShort
<1> QED BY <1>7, <1>8 DEF OrderInv, StepFacts

\* The commit returns.
LEMMA OrderReturns ==
  ASSUME StepFacts, PromiseInv', OrderInv, Ordered, CommitReturns
  PROVE  OrderInv'
<1>1. PICK h : History(h)
  BY DEF OrderInv
<1>2. /\ wpc = "publish" /\ wpc' = "idle" /\ mti' = wid /\ queue' = queue
      /\ UNCHANGED <<page, metaDbs, metaLast, metaTxnid>>
      /\ durable' = KeptBy(wid)
  BY DEF CommitReturns, Publish, Unlocked, meta
<1>3. /\ wid = mti + 1 /\ mti \in Int /\ Top = wid /\ Top' = wid /\ Top \in Int
      /\ Toggle(wid) \in {0, 1} /\ Toggle(wid) \in FilePage
      /\ queue \in Seq(PageWrite \cup MetaWrite) /\ Len(queue) \in Nat
  BY <1>2, Toggles, Pages DEF StepFacts, Top, DTypeOK
<1>4. /\ \A p \in FilePage : File'[p] = File[p]
      /\ \A p \in FilePage : h[Len(queue)][p] = File[p]
  BY <1>1, <1>2, Pages DEF History, Torn, StepFacts, FileFacts, Meta
<1>5. CASE ~SyncsMeta
  <2>1. disk' = disk
    BY <1>5 DEF CommitReturns
  <2>2. \A i \in 0 .. Len(queue) : AtLeast(h[i], durable')
    <3>1. durable' = durable \/ (~Lossy /\ durable' = mti)
      BY <1>2, <1>3, <1>5 DEF KeptBy, SyncsMeta, Lossy
    <3> QED BY <1>1, <1>2, <3>1 DEF History, Reached, SyncDone, MetaDone
  <2>3. History(h)'
    BY <1>1, <1>2, <1>3, <1>4, <2>1, <2>2, QueueKept DEF SyncDone, MetaDone
  <2> QED BY <1>2, <2>3 DEF OrderInv, SyncDone, MetaDone
<1>6. CASE SyncsMeta
  <2>1. disk' = [disk EXCEPT ![Toggle(wid)] = File[Toggle(wid)]] /\ QueueShort
    BY <1>2, <1>3, <1>6
       DEF CommitReturns, StepFacts, FileFacts, SyncsMeta, Lossy, OrderInv, SyncDone, MetaDone
  <2>2. \A p \in FilePage : disk'[p] = IF p = Toggle(wid) THEN File[p] ELSE disk[p]
    <3>1. File[Toggle(wid)] \in MetaPage /\ Toggle(wid) \notin Page
      BY <1>3, Pages DEF StepFacts, FileOK
    <3> QED BY <1>3, <2>1, <3>1, DiskPut DEF StepFacts
  <2>3. /\ \A p \in FilePage : disk'[p] = File[p]
        /\ \A i \in 1 .. Len(queue) : \A p \in DOMAIN queue[i] : queue[i][p] = File[p]
    <3>1. CASE queue = <<>>
      <4>1. Len(queue) = 0 /\ h[0] = disk
        BY <1>1, <3>1 DEF History
      <4> QED BY <1>4, <2>2, <4>1
    <3>2. CASE Len(queue) = 1 /\ DOMAIN queue[1] = {Toggle(wid)}
      <4>1. h[1] = Over(queue[1], disk)
        BY <1>1, <3>2 DEF History
      <4>2. \A p \in FilePage : File[p] = IF p = Toggle(wid) THEN queue[1][p] ELSE disk[p]
        BY <1>4, <3>2, <4>1 DEF Over
      <4> QED BY <1>3, <2>2, <3>2, <4>2
    <3> QED BY <2>1, <3>1, <3>2 DEF QueueShort
  <2>4. \E g : History(g)'
    <3>1. DOMAIN disk = FilePage
      BY DEF StepFacts
    <3>2. \A i \in 1 .. Len(queue') : \A p \in DOMAIN queue'[i] :
            p \in FilePage /\ queue'[i][p] = File'[p]
      <4>1. \A i \in 1 .. Len(queue) : DOMAIN queue[i] \subseteq FilePage
        BY <1>3, Writes
      <4> QED BY <1>2, <1>4, <2>3, <4>1
    <3>3. \A p \in FilePage : disk'[p] = File'[p]
      BY <1>4, <2>3
    <3> QED BY <3>2, <3>3, QueueFlat
  <2> QED BY <1>2, <2>4 DEF OrderInv, SyncDone, MetaDone
<1> QED BY <1>5, <1>6

\* The disk has all that was written.
LEMMA OrderFlat ==
  ASSUME StepFacts, PromiseInv', queue' = <<>>, \A p \in FilePage : disk'[p] = File'[p]
  PROVE  OrderInv'
<1>1. \E g : History(g)'
  BY QueueFlat
<1> QED BY <1>1 DEF OrderInv, QueueShort

\* The history of the queue, and that no write of pages waits while a synced
\* commit writes its meta page.
LEMMA OrderStep ==
  ASSUME ErrorsUnsynced, DInv, [DNext]_dvars
  PROVE  OrderInv'
<1>1. StepFacts /\ OrderInv /\ CoreInv /\ TxnInv /\ PromiseInv /\ PromiseInv'
  BY Facts, PromiseStep DEF DInv
<1> SUFFICES ASSUME Ordered
             PROVE  OrderInv'
  BY <1>1 DEF StepFacts, OrderInv
<1>2. ~WriteMap
  BY <1>1, DurabilityAssumption DEF StepFacts, DTypeOK, Ordered
<1>3. PICK h : History(h)
  BY <1>1 DEF OrderInv
<1>4. CASE WorkStep
  BY <1>1, <1>4, WorkMoves, OrderWork DEF WorkStep
<1>5. CASE SyncPages
  <2>1. /\ UNCHANGED <<page, metaDbs, metaLast, metaTxnid, mti, durable>>
        /\ wpc = "sync" /\ wpc' = "metaDbs"
    BY <1>5 DEF SyncPages, EnvSync, shared
  <2>2. /\ \A p \in FilePage : File'[p] = File[p]
        /\ \A p \in FilePage : h[Len(queue)][p] = File[p]
    BY <1>1, <1>3, <2>1, Pages DEF History, Torn, StepFacts, FileFacts, Meta
  <2>3. CASE SyncsPages
    BY <1>1, <1>5, <2>2, <2>3, OrderFlat DEF SyncPages
  <2>4. CASE ~SyncsPages
    <3>1. UNCHANGED <<disk, queue>> /\ Lossy
      BY <1>5, <2>4 DEF SyncPages, SyncsPages, Lossy
    <3>2. Top' = Top /\ Top \in Int
      BY <1>1, <2>1, Toggles DEF Top, StepFacts
    <3>3. History(h)'
      BY <1>1, <1>3, <2>1, <2>2, <3>1, <3>2, QueueKept DEF History, Reached
    <3> QED BY <1>1, <3>1, <3>3 DEF OrderInv, StepFacts
  <2> QED BY <2>3, <2>4
<1>6. CASE MetaWritten
  BY <1>1, <1>6, OrderMeta
<1>7. CASE MetaFails
  BY <1>1, <1>7, FailsLossy DEF StepFacts
<1>8. CASE CommitReturns
  BY <1>1, <1>8, OrderReturns
<1>9. CASE WriteBackNext
  BY <1>1, <1>9, OrderWriteBack
<1>10. CASE ForceStart \/ ForceReturns \/ \E p \in DOMAIN disk : WriteBack(p)
  BY <1>1, <1>10 DEF ForceStart, ForceReturns, WriteBack, PromiseInv
<1>11. CASE Crash
  <2>1. PICK n \in Txn : n <= begun /\ Sound(disk, n)
    BY <1>11, Recoverable DEF Crash
  <2>2. (\A p \in FilePage : File'[p] = disk[p]) /\ disk' = disk /\ queue' = <<>>
    BY <1>1, <1>11, <2>1, Reopen DEF Crash, StepFacts
  <2> QED BY <1>1, <2>2, OrderFlat
<1>12. CASE Restart
  <2>1. /\ wpc' = "idle" /\ mti' = Top /\ Top' = Top /\ UNCHANGED <<disk, queue, durable>>
        /\ \A p \in FilePage : File'[p] = File[p]
    BY <1>1, <1>12, RestartMoves DEF Restart
  <2>2. Top \in Int /\ wpc \notin Torn
    BY <1>1, <1>2, <1>12, Toggles DEF Top, StepFacts, Restart, Torn
  <2>3. History(h)'
    BY <1>1, <1>3, <2>1, <2>2, QueueKept DEF History, Reached, SyncDone, MetaDone
  <2> QED BY <2>1, <2>3 DEF OrderInv, SyncDone, MetaDone
<1>13. CASE UNCHANGED dvars
  <2>1. /\ UNCHANGED <<disk, queue, durable, wpc, wid, mti, metaDbs, metaLast, metaTxnid, page>>
    BY <1>13 DEF dvars, cache, vars, shared, writer
  <2>2. \A p \in FilePage : File'[p] = File[p]
    BY <1>1, <2>1, Pages DEF StepFacts, FileFacts, Meta
  <2>3. Top' = Top /\ Top \in Int
    BY <1>1, <2>1, Toggles DEF Top, StepFacts
  <2>4. History(h)'
    BY <1>1, <1>3, <2>1, <2>2, <2>3, QueueKept DEF History, Reached
  <2> QED BY <1>1, <2>1, <2>4 DEF OrderInv, QueueShort, StepFacts
<1> QED BY <1>4, <1>5, <1>6, <1>7, <1>8, <1>9, <1>10, <1>11, <1>12, <1>13 DEF DNext

-----------------------------------------------------------------------------
(* The inductive invariant and what it shows.                               *)

\* An empty environment, all of it on the disk.
LEMMA DInitInv == DInit => DInv
<1> SUFFICES ASSUME DInit
             PROVE  DInv
  OBVIOUS
<1>1. CoreInv /\ TypeOK /\ TypeInv
  BY InitInv, CoreOfInv DEF DInit, CoreInv, TypeInv
<1>2. /\ mti = 0 /\ Toggle(0) = 0 /\ Toggle(1) = 1 /\ wpc = "idle"
      /\ metaTxnid[0] = 0 /\ metaTxnid[1] = 0 /\ 0 \in Txn
      /\ durable = 0 /\ forceVer = None /\ None \notin Txn
      /\ disk = File /\ queue = <<>> /\ Len(queue) = 0
  BY <1>1 DEF DInit, Init, Toggle, TypeOK, None, Txn
<1>3. FileFacts
  BY <1>1, FileAt
<1>4. TxnInv
  BY <1>2 DEF TxnInv, Older
<1>5. DTypeOK
  <2>1. disk = File /\ FileOK(File)
    BY <1>2, <1>3 DEF FileFacts
  <2>2. FileOK(disk)
    BY <2>1
  <2>3. queue \in Seq(PageWrite \cup MetaWrite)
    BY <1>2
  <2> QED BY <1>2, <2>2, <2>3 DEF DInit, DTypeOK
<1>6. Top = 0 /\ Sound(File, 0)
  BY <1>1, <1>2, <1>4, FileSound DEF TopSound, Top
<1>7. AtLeast(File, 0)
  BY <1>2, <1>3 DEF AtLeast, FileFacts
<1>8. PromiseInv
  BY <1>2, <1>7 DEF PromiseInv
<1>9. /\ WholeOn(File, Cur.tree)
      /\ Older(File[Toggle(mti + 1)].txnid, mti)
  BY <1>1, <1>2, <1>4, NewestInFile
<1>10. NewestOnDisk
  BY <1>2, <1>9 DEF NewestOnDisk, OnDisk
<1>11. SyncInv
  BY <1>2, <1>9, <1>10 DEF SyncInv, SyncDone, MetaDone
<1>12. LossyInv
  BY <1>2, <1>9 DEF LossyInv, Except, OnDisk, WholeOn
<1>13. OrderInv
  <2>1. PICK h : h = [i \in {0} |-> disk]
    OBVIOUS
  <2>2. Reached(disk)
    BY <1>2, <1>3, <1>6, <1>7 DEF Reached, FileFacts
  <2>3. History(h)
    BY <1>2, <2>1, <2>2 DEF History
  <2> QED BY <1>2, <2>3 DEF OrderInv, QueueShort
<1> QED BY <1>1, <1>4, <1>5, <1>8, <1>11, <1>12, <1>13 DEF DInv

\* DInv is an inductive invariant of the environment and its disk, in every
\* mode where a write of the meta page fails only if commits are not synced.
THEOREM DiskInductive ==
  ASSUME ErrorsUnsynced
  PROVE  DSpec => []DInv
<1>1. DInit => DInv
  BY DInitInv
<1>2. DInv /\ [DNext]_dvars => DInv'
  BY CoreStep, DTypeStep, PromiseStep, SyncStep, LossyStep, OrderStep DEF DInv
<1> QED BY <1>1, <1>2, PTL DEF DSpec

\* After any crash that the mode in force promises to survive, the next process
\* finds one whole version of the database (mdb_env_pick_meta after
\* mdb_page_flush, mdb_env_sync and mdb_env_write_meta, whatever of their writes
\* had reached the disk, in whatever order).
THEOREM CrashesRecoverable ==
  ASSUME ErrorsUnsynced
  PROVE  DSpec => []RecoveredIntact
<1>1. DInv => RecoveredIntact
  <2> SUFFICES ASSUME DInv, Safe
               PROVE  /\ DiskIntact
                      /\ Recovered.dbs.ver = Recovered.txnid
                      /\ \/ Recovered.txnid <= mti
                         \/ Recovered.txnid = wid /\ wpc = "publish"
    BY DEF RecoveredIntact
  <2>1. FileOK(disk) /\ TypeInv
    BY DEF DInv, DTypeOK, CoreInv
  <2>2. PICK n \in Txn : n <= Top /\ Sound(disk, n)
    BY Recoverable
  <2>3. Recovered = disk[Toggle(n)] /\ Recovered.txnid = n
    BY <2>1, <2>2, SoundMeta DEF Recovered
  <2>4. DiskIntact
    BY <2>2, <2>3 DEF Sound, VersionOK, WholeOn, DiskIntact, InTree
  <2>5. n <= mti \/ (n = wid /\ wpc = "publish")
    BY <2>1, <2>2, Toggles DEF Top, Txn
  <2> QED BY <2>2, <2>3, <2>4, <2>5 DEF Sound, VersionOK
<1> QED BY <1>1, DiskInductive, PTL

\* The commits that the flags promise to keep, and what a completed
\* mdb_env_sync(env, 1) covered, are on the disk.
THEOREM CommitsDurable ==
  ASSUME ErrorsUnsynced
  PROVE  DSpec => []Durable
<1>1. DInv => Durable
  <2> SUFFICES ASSUME DInv
               PROVE  Durable
    OBVIOUS
  <2>1. FileOK(disk) /\ durable \in Txn \cup {None} /\ Len(queue) \in Nat
    BY DEF DInv, DTypeOK
  <2>2. AtLeast(disk, durable)
    <3>1. CASE Ordered
      <4>1. PICK h : History(h)
        BY <3>1 DEF DInv, OrderInv
      <4> QED BY <2>1, <4>1 DEF History, Reached
    <3>2. CASE ~Ordered
      BY <3>2 DEF DInv, PromiseInv
    <3> QED BY <3>1, <3>2
  <2>3. disk[0].txnid \in Int /\ disk[1].txnid \in Int
    BY <2>1 DEF FileOK, MetaPage, Txn
  <2>4. Toggle(durable) \in {0, 1} /\ durable \in Int
    BY <2>1, AnyToggle
  <2> QED BY <2>2, <2>3, <2>4 DEF AtLeast, Durable, Recovered, PickMeta
<1> QED BY <1>1, DiskInductive, PTL

\* Where commits are not synced, the disk is whole from the return of a forced
\* sync until the next commit writes its meta page.
THEOREM SyncsSettle ==
  ASSUME ErrorsUnsynced
  PROVE  DSpec => []SyncedIntact
<1>1. DInv => SyncedIntact
  <2> SUFFICES ASSUME DInv, Settled
               PROVE  DiskIntact /\ Recovered.txnid = mti
    BY DEF SyncedIntact
  <2>1. FileOK(disk)
    BY DEF DInv, DTypeOK
  <2>2. PICK n \in Txn : Sound(disk, n) /\ n = mti
    BY Recoverable
  <2>3. Recovered = disk[Toggle(n)] /\ Recovered.txnid = n
    BY <2>1, <2>2, SoundMeta DEF Recovered
  <2> QED BY <2>2, <2>3 DEF Sound, VersionOK, WholeOn, DiskIntact, InTree
<1> QED BY <1>1, DiskInductive, PTL

\* No page of the newest committed version is overwritten, through crashes,
\* restarts and failed writes of a meta page too (mdb_page_alloc,
\* mdb_freelist_save, mdb_page_spill).
THEOREM CommittedStaysIntact ==
  ASSUME ErrorsUnsynced
  PROVE  DSpec => []CommittedIntact
<1>1. DInv => CommittedIntact
  BY DEF DInv, CoreInv, CurInv, Held, Cur, CommittedIntact, Intact
<1> QED BY <1>1, DiskInductive, PTL

\* Every page of the newest committed version is in its trees or in one record
\* of its freeDB, and a crash loses none.
THEOREM CrashesLoseNoPage ==
  ASSUME ErrorsUnsynced
  PROVE  DSpec => []PageConservation
<1>1. DInv => PageConservation
  BY DEF DInv, CoreInv
<1> QED BY <1>1, DiskInductive, PTL
=============================================================================
