---------------------------- MODULE MVCC_refines -----------------------------
(***************************************************************************)
(* MVCC implements SnapshotStore.  A version's content is what one finds in *)
(* the FILE on the pages its roots reach, so the mapping shows at every     *)
(* moment what readers and later writers really read.                       *)
(***************************************************************************)
EXTENDS MVCC_proof

\* What the pages that t reaches hold.
Contents(t) == [p \in Page |-> IF t[p] = 0 THEN 0 ELSE page[p]]

VersionIn(i) == [ver |-> metaDbs[i].ver, content |-> Contents(metaDbs[i].tree)]

absNewest == VersionIn(Toggle(mti))
absOther  == VersionIn(Toggle(mti + 1))
absWriter == IF wpc = "idle" THEN "none"
             ELSE IF wpc \in MetaDone THEN "sealed" ELSE "open"
absPhase  == [r \in Reader |-> IF rpc[r] = "idle" THEN "idle"
                               ELSE IF HasView(r) THEN "open" ELSE "starting"]
absSnap   == [r \in Reader |-> IF HasView(r) THEN Contents(view[r].tree)
                               ELSE NoTree]

Store == INSTANCE SnapshotStore
           WITH Content <- Tree, Empty <- NoTree,
                newest <- absNewest, other <- absOther,
                writer <- absWriter, draft <- wtree,
                phase <- absPhase, since <- rid, snap <- absSnap

\* The engine keeps the promise of the store: readers see one committed
\* version, whole and unchanging; a commit is one step; what an aborted or
\* failed transaction wrote is never seen (mdb_txn_renew0, mdb_page_alloc,
\* mdb_find_oldest, mdb_txn_commit).
StoreSpec == Store!Spec

-----------------------------------------------------------------------------
\* What the mapping shows when every tree it looks at is whole.
Shown ==
  /\ absNewest = [ver |-> mti, content |-> Cur.tree]
  /\ absOther = [ver |-> metaDbs[Toggle(mti + 1)].ver,
                 content |-> metaDbs[Toggle(mti + 1)].tree]
  /\ absSnap = [r \in Reader |-> IF HasView(r) THEN view[r].tree ELSE NoTree]

\* The file holds, on the pages of both meta pages and of every reader, what
\* their roots expect.
LEMMA ShownInv == IInv => Shown
<1> SUFFICES ASSUME IInv
             PROVE  Shown
  OBVIOUS
<1>1. ASSUME NEW t \in Tree, NEW v \in Txn, SnapshotOK(t, v)
      PROVE  Contents(t) = t
  <2>1. Intact(t)
    BY <1>1, SnapshotImages
  <2> QED BY <2>1 DEF Contents, Intact, Tree
<1>2. /\ mti \in Nat /\ Toggle(mti) \in {0, 1} /\ Toggle(mti + 1) \in {0, 1}
  <2>1. mti \in Nat
    BY DEF IInv, TypeInv, TypeOK, Txn
  <2> QED BY <2>1, ToggleFacts
<1>3. \A i \in {0, 1} : Contents(metaDbs[i].tree) = metaDbs[i].tree
  <2> SUFFICES ASSUME NEW i \in {0, 1}
               PROVE  Contents(metaDbs[i].tree) = metaDbs[i].tree
    OBVIOUS
  <2>1. metaDbs[i].tree \in Tree /\ metaDbs[i].ver \in Txn
    BY DEF IInv, TypeInv, TypeOK, Dbs
  <2>2. SnapshotOK(metaDbs[i].tree, metaDbs[i].ver)
    BY DEF IInv, MetaInv
  <2> QED BY <1>1, <2>1, <2>2
<1>4. \A r \in Reader : HasView(r) => Contents(view[r].tree) = view[r].tree
  <2> SUFFICES ASSUME NEW r \in Reader, HasView(r)
               PROVE  Contents(view[r].tree) = view[r].tree
    OBVIOUS
  <2>1. view[r].tree \in Tree /\ view[r].ver \in Txn
    BY DEF IInv, TypeInv, TypeOK
  <2>2. SnapshotOK(view[r].tree, view[r].ver)
    BY DEF IInv, ReaderInv, ReaderOK
  <2> QED BY <1>1, <2>1, <2>2
<1>5. Cur.ver = mti
  BY DEF IInv, MetaInv
<1> QED BY <1>2, <1>3, <1>4, <1>5
        DEF Shown, absNewest, absOther, absSnap, VersionIn, Cur

\* The store's variables, as the mapping computes them.
absVars == <<absNewest, absOther, absWriter, wtree, absPhase, rid, absSnap>>

\* A new environment is an empty store (mdb_env_init_meta).
LEMMA InitMaps == Init => Store!Init
<1> SUFFICES ASSUME Init
             PROVE  Store!Init
  OBVIOUS
<1>1. Toggle(0) = 0 /\ Toggle(0 + 1) = 1
  BY DEF Toggle
<1>2. Contents(NoTree) = NoTree
  BY DEF Contents, NoTree
<1> QED BY <1>1, <1>2
        DEF Init, Store!Init, absNewest, absOther, VersionIn, absWriter,
            absPhase, absSnap, HasView

\* A reader's steps: the id is loaded, then one of the two versions is taken.
LEMMA ReaderMaps ==
  ASSUME IInv, Shown, Shown', NEW r \in Reader, ReaderStep(r)
  PROVE  \/ Store!StartRead(r) \/ Store!TakeSnapshot(r) \/ Store!EndRead(r)
         \/ UNCHANGED absVars
<1>1. UNCHANGED <<page, metaDbs, mti, wpc, wtree>>
  BY DEF ReaderStep, LoadTxnid, StoreSlot, CopyDbs, CopyLast, EndRead, shared,
     writer
<1>2. UNCHANGED <<absNewest, absOther, absWriter, wtree>>
  BY <1>1 DEF absNewest, absOther, VersionIn, Contents, absWriter
<1>3. /\ rpc \in [Reader -> {"idle", "loaded", "stored", "copied", "active"}]
      /\ view \in [Reader -> [ver : Txn, tree : Tree]]
      /\ rid \in [Reader -> Txn]
  BY DEF IInv, TypeInv, TypeOK
<1> USE DEF absPhase, HasView
<1>4. CASE LoadTxnid(r)
  <2>1. absNewest.ver = mti
    BY DEF Shown
  <2>2. absSnap' = absSnap
    BY <1>3, <1>4 DEF LoadTxnid, Shown
  <2>3. Store!StartRead(r)
    BY <1>2, <1>3, <1>4, <2>1, <2>2
       DEF LoadTxnid, Store!StartRead, Store!store, Store!write
  <2> QED BY <2>3
<1>5. CASE StoreSlot(r)
  <2>1. absSnap' = absSnap /\ absPhase' = absPhase /\ rid' = rid
    BY <1>3, <1>5 DEF StoreSlot, Shown
  <2> QED BY <1>2, <2>1 DEF absVars
<1>6. CASE CopyDbs(r)
  <2>1. /\ mti \in Nat /\ rid[r] \in Nat
        /\ Toggle(mti) \in {0, 1} /\ Toggle(mti + 1) = 1 - Toggle(mti)
        /\ Toggle(rid[r]) \in {0, 1}
    <3>1. mti \in Nat /\ rid[r] \in Nat
      BY <1>3 DEF IInv, TypeInv, TypeOK, Txn
    <3> QED BY <3>1, ToggleFacts
  <2>2. PICK v \in {absNewest, absOther} :
          v = [ver |-> metaDbs[Toggle(rid[r])].ver,
               content |-> metaDbs[Toggle(rid[r])].tree]
    <3>1. Cur.ver = mti
      BY DEF IInv, MetaInv
    <3>2. CASE Toggle(rid[r]) = Toggle(mti)
      BY <3>1, <3>2 DEF Shown, Cur
    <3>3. CASE Toggle(rid[r]) = Toggle(mti + 1)
      BY <3>3 DEF Shown
    <3> QED BY <2>1, <3>2, <3>3
  <2>3. /\ view'[r].ver = metaDbs[Toggle(rid[r])].ver
        /\ view'[r].tree = metaDbs[Toggle(rid[r])].tree
    BY <1>3, <1>6 DEF CopyDbs
  <2>4. rid[r] <= v.ver
    <3>1. ReaderInv'
      BY <1>6, ReaderStepInv DEF ReaderStep, IInv
    <3>2. rid'[r] <= view'[r].ver
      BY <1>3, <1>6, <3>1 DEF ReaderInv, ReaderOK, CopyDbs
    <3> QED BY <1>6, <2>2, <2>3, <3>2 DEF CopyDbs
  <2>5. absSnap' = [absSnap EXCEPT ![r] = v.content]
    BY <1>3, <1>6, <2>2, <2>3 DEF CopyDbs, Shown
  <2>6. Store!TakeSnapshot(r)
    BY <1>2, <1>3, <1>6, <2>4, <2>5
       DEF CopyDbs, Store!TakeSnapshot, Store!store, Store!write
  <2> QED BY <2>6
<1>7. CASE CopyLast(r)
  <2>1. absSnap' = absSnap /\ absPhase' = absPhase /\ rid' = rid
    BY <1>3, <1>7 DEF CopyLast, Shown
  <2> QED BY <1>2, <2>1 DEF absVars
<1>8. CASE EndRead(r)
  <2>1. absSnap' = [absSnap EXCEPT ![r] = NoTree]
    BY <1>3, <1>8 DEF EndRead, Shown
  <2>2. Store!EndRead(r)
    BY <1>2, <1>3, <1>8, <2>1
       DEF EndRead, Store!EndRead, Store!store, Store!write
  <2> QED BY <2>2
<1> QED BY <1>4, <1>5, <1>6, <1>7, <1>8 DEF ReaderStep

\* What the store sees of a writer's step that writes no meta page: nothing but
\* the writer's own state.
LEMMA WriterFrame ==
  ASSUME Shown, Shown', UNCHANGED <<metaDbs, mti, reader>>
  PROVE  UNCHANGED <<absNewest, absOther, absPhase, rid, absSnap>>
<1>1. UNCHANGED <<absNewest, absOther>>
  BY DEF Shown, Cur
<1>2. UNCHANGED <<rpc, view, rid>>
  BY DEF reader
<1>3. absSnap' = absSnap /\ absPhase' = absPhase
  BY <1>2 DEF Shown, absPhase, HasView
<1> QED BY <1>1, <1>2, <1>3

\* The writer's steps: its draft follows the trees it changes, and is sealed
\* when mm_dbs are written, published when mti_txnid is.
LEMMA WriterMaps ==
  ASSUME IInv, IInv', Shown, Shown', WriterStep
  PROVE  \/ Store!BeginWrite \/ Store!Change \/ Store!Seal \/ Store!Publish
         \/ Store!Rollback \/ UNCHANGED absVars
<1> USE DEF MetaDone, absWriter
<1>1. wtree \in Tree /\ wtree' \in Tree
  BY DEF IInv, TypeInv, TypeOK
<1>2. CASE Begin
  <2>1. UNCHANGED <<metaDbs, mti, reader>> /\ wtree' = Cur.tree
    BY <1>2 DEF Begin, shared, Cur
  <2>2. wtree' = absNewest.content
    BY <2>1 DEF Shown
  <2> QED BY <1>2, <2>1, <2>2, WriterFrame
          DEF Begin, Store!BeginWrite, Store!store, Store!read
<1>3. CASE \/ NewPage \/ StartScan \/ Fetch \/ MapFull
           \/ \E p \in Page : Touch(p) \/ Spill(p)
           \/ \E r \in Reader : ScanSlot(r)
           \/ FreelistSave \/ PageFlush \/ EnvSync
  <2>1. /\ UNCHANGED <<metaDbs, mti, reader, wtree>>
        /\ wpc \notin MetaDone \cup {"idle"} /\ wpc' \notin MetaDone \cup {"idle"}
    BY <1>3 DEF NewPage, StartScan, Fetch, MapFull, Touch, Spill, ScanSlot,
       FreelistSave, PageFlush, EnvSync, shared, meta, writer
  <2> QED BY <2>1, WriterFrame DEF absVars
<1>4. CASE \/ TakeFree \/ TakeNew
           \/ \E p \in Page : FreePage(p) \/ FreeOverflow(p)
  <2>1. /\ UNCHANGED <<metaDbs, mti, reader>>
        /\ wpc \notin MetaDone \cup {"idle"} /\ wpc' \notin MetaDone \cup {"idle"}
    BY <1>4 DEF TakeFree, TakeNew, FreePage, FreeOverflow, Obtain, shared, meta
  <2> QED BY <1>1, <2>1, WriterFrame DEF Store!Change, Store!store, Store!read
<1>5. CASE Abort \/ CommitNothing \/ CommitFails
  <2>1. /\ UNCHANGED <<metaDbs, mti, reader>> /\ Unlocked
        /\ wpc \notin MetaDone \cup {"idle"}
    BY <1>5 DEF Abort, CommitNothing, CommitFails, shared, meta
  <2> QED BY <2>1, WriterFrame
          DEF Unlocked, Store!Rollback, Store!store, Store!read
<1>6. CASE WriteMetaDbs \/ WriteMetaLast \/ WriteMetaTxnid
  <2>1. /\ UNCHANGED <<mti, reader, wtree, wid>>
        /\ wpc \in {"metaDbs", "metaLast", "metaTxnid"} /\ wpc' \in MetaDone
    BY <1>6 DEF WriteMetaDbs, WriteMetaLast, WriteMetaTxnid
  <2>2. UNCHANGED <<absPhase, rid, absSnap>>
    BY <2>1 DEF reader, Shown, absPhase, HasView
  <2>3. Cur'.ver = mti /\ mti \in Nat
    BY <2>1 DEF IInv, MetaInv, TypeInv, TypeOK, Txn
  <2>4. CASE WriteMetaDbs
    <3>1. Toggle(mti) \in {0, 1} /\ Toggle(mti + 1) = 1 - Toggle(mti)
      BY <2>3, ToggleFacts
    <3>2. wid = mti + 1
      BY <2>1 DEF IInv, TypeInv, Counters
    <3>3. /\ metaDbs'[Toggle(mti)] = metaDbs[Toggle(mti)]
          /\ metaDbs'[Toggle(mti + 1)] =
               [ver |-> mti + 1, tree |-> wtree, rec |-> wrec]
      BY <2>4, <3>1, <3>2 DEF WriteMetaDbs, IInv, TypeInv, TypeOK
    <3>4. absNewest' = absNewest /\ absNewest.ver = mti
      BY <2>1, <3>3 DEF Shown, Cur
    <3>5. absOther' = [ver |-> mti + 1, content |-> wtree]
      BY <2>1, <3>3 DEF Shown
    <3>6. Store!Seal
      BY <2>1, <2>2, <2>4, <3>4, <3>5
         DEF WriteMetaDbs, Store!Seal, Store!store, Store!read
    <3> QED BY <3>6
  <2>5. CASE WriteMetaLast \/ WriteMetaTxnid
    <3>1. UNCHANGED metaDbs /\ wpc \in MetaDone
      BY <2>5 DEF WriteMetaLast, WriteMetaTxnid
    <3>2. UNCHANGED <<absNewest, absOther>>
      BY <2>1, <3>1 DEF Shown, Cur
    <3> QED BY <2>1, <2>2, <3>1, <3>2 DEF absVars
  <2> QED BY <1>6, <2>4, <2>5
<1>7. CASE Publish
  <2>1. /\ UNCHANGED <<metaDbs, reader>> /\ Unlocked
        /\ wpc = "publish" /\ mti' = wid
    BY <1>7 DEF Publish, meta
  <2>2. wid = mti + 1 /\ mti \in Nat
    BY <2>1 DEF IInv, TypeInv, Counters, TypeOK, Txn
  <2>3. Toggle(mti') = Toggle(mti + 1) /\ Toggle(mti' + 1) = Toggle(mti)
    <3>1. /\ Toggle(mti) \in {0, 1} /\ Toggle(mti + 1) = 1 - Toggle(mti)
          /\ Toggle(mti' + 1) = 1 - Toggle(mti')
      BY <2>1, <2>2, ToggleFacts
    <3> QED BY <2>1, <2>2, <3>1
  <2>4. Cur.ver = mti /\ metaDbs[Toggle(mti + 1)].ver = mti + 1
    BY <2>1, <2>2 DEF IInv, MetaInv
  <2>5. absNewest' = absOther /\ absOther' = absNewest
    BY <2>1, <2>2, <2>3, <2>4 DEF Shown, Cur
  <2>6. UNCHANGED <<absPhase, rid, absSnap>>
    BY <2>1 DEF reader, Shown, absPhase, HasView
  <2> QED BY <2>1, <2>5, <2>6 DEF Unlocked, Store!Publish, Store!read
<1> QED BY <1>2, <1>3, <1>4, <1>5, <1>6, <1>7 DEF WriterStep

\* The engine implements the store, for every number of readers, pages and
\* transactions: each of its steps is a step of the store or invisible to it.
THEOREM Implements == Spec => StoreSpec
<1>1. Init => Store!Init
  BY InitMaps
<1>2. ASSUME IInv, IInv', Shown, Shown', [Next]_vars
      PROVE  [Store!Next]_absVars
  <2>1. CASE UNCHANGED vars
    BY <2>1 DEF vars, shared, reader, writer, absVars, absNewest, absOther,
       VersionIn, Contents, absWriter, absPhase, absSnap, HasView
  <2>2. ASSUME NEW r \in Reader, ReaderStep(r)
        PROVE  [Store!Next]_absVars
    BY <1>2, <2>2, ReaderMaps DEF Store!Next
  <2>3. CASE WriterStep
    BY <1>2, <2>3, WriterMaps DEF Store!Next
  <2> QED BY <1>2, <2>1, <2>2, <2>3 DEF Next
<1>4. [Store!Next]_absVars => [Store!Next]_<<Store!store, Store!write, Store!read>>
  BY DEF absVars, Store!store, Store!write, Store!read
<1>5. Spec => []IInv
  BY Inductive
<1>6. IInv => Shown
  BY ShownInv
<1> QED BY <1>1, <1>2, <1>4, <1>5, <1>6, PTL DEF Spec, StoreSpec, Store!Spec

=============================================================================
