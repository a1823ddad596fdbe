----------------------------- MODULE MVCC_proof -----------------------------
(***************************************************************************)
(* Proofs about MVCC, for any number of readers, pages and transactions.   *)
(* Failing writes of the meta page are Durability's.                        *)
(***************************************************************************)
EXTENDS MVCC, TLAPS

\* Phases of the write transaction.
PreSave  == {"run", "alloc", "scan", "failed"}
MetaDone == {"metaLast", "metaTxnid", "publish"}   \* mm_dbs is written
Flushed  == {"sync", "metaDbs"} \cup MetaDone

\* The newest committed roots and last page.
Cur     == metaDbs[Toggle(mti)]
CurLast == metaLast[Toggle(mti)]

\* What the freeDB would hold if the free list were saved now.
EffRec == IF wpc \in PreSave THEN SavedRec ELSE wrec

\* Pages that are not safe from the writer for a reader of version v: it owns
\* them, or could get them, now or after an abort, from a record v could have
\* been read without, or from beyond the last page.
Unsafe(v) ==
  {p \in Page :
     \/ p > CurLast
     \/ \E k \in Txn : k <= v /\ p \in Cur.rec[k]
     \/ /\ wpc # "idle"
        /\ p \in dirty \/ \E k \in Txn : k <= v /\ p \in EffRec[k]}

\* The tree t of version v can be read, and stays so.
Held(t, v) == \A p \in Page : t[p] # 0 => page[p] = t[p] /\ p \notin Unsafe(v)

\* A committed version is held; the only other one is being written.
SnapshotOK(t, v) ==
  \/ v <= mti /\ pglast <= v /\ Held(t, v)
  \/ v = mti + 1 /\ wpc \in MetaDone /\ t = wtree

HasView(r) == rpc[r] \in {"copied", "active"}

\* The meta page of the last commit, and the other one.
MetaInv ==
  /\ Cur.ver = mti
  /\ wpc \notin MetaDone => /\ metaDbs[Toggle(mti + 1)].ver <= mti
                            /\ mti <= metaDbs[Toggle(mti + 1)].ver + 1
  /\ wpc \in MetaDone =>
       metaDbs[Toggle(mti + 1)] = [ver |-> wid, tree |-> wtree, rec |-> wrec]
  /\ wpc \in {"metaTxnid", "publish"} =>
       metaLast[Toggle(mti + 1)] = wnext - 1
  /\ \A i \in {0, 1} : SnapshotOK(metaDbs[i].tree, metaDbs[i].ver)

\* What a reader has taken so far.
ReaderOK(r) ==
  /\ rpc[r] # "idle" => rid[r] <= mti
  /\ rpc[r] \in {"stored", "copied", "active"} => slot[r] = rid[r]
  /\ HasView(r) => /\ rid[r] <= view[r].ver
                   /\ SnapshotOK(view[r].tree, view[r].ver)

ReaderInv == \A r \in Reader : ReaderOK(r)

\* Record ids: none is newer than the transaction that reads or writes it.
RecInv ==
  /\ Cur.rec[0] = {}
  /\ \A k \in Txn : k > mti => Cur.rec[k] = {}
  /\ wpc = "idle" => dirty = {} /\ pglast = 0 /\ pghead = {} /\ freePgs = {}
  /\ pglast <= mti
  /\ wpc \in PreSave => /\ \A k \in Txn : k > mti => wrec[k] = {}
                        /\ pglast = 0 => pghead = {}
  /\ wpc # "idle" /\ wpc \notin PreSave =>
       /\ \A k \in Txn : k > wid => wrec[k] = {}
       /\ wrec[0] = {}

\* No page is lost or shared by the running transaction.
PartInv ==
  wpc # "idle" => Partition(wtree, EffRec, wnext - 1) /\ CurLast < wnext

\* Its tree is made of its own pages and of images that are in the file.
ImageInv ==
  /\ wpc # "idle" => \A p \in Page : wtree[p] # 0 =>
       IF p \in dirty THEN wtree[p] = begun ELSE page[p] = wtree[p]
  /\ wpc \in Flushed => \A p \in dirty : page[p] = begun

\* The page being touched is a clean page of the tree.
ReqInv ==
  /\ wpc \in {"alloc", "scan"} /\ req # 0 => req \notin dirty /\ wtree[req] # 0
  /\ wpc \notin {"alloc", "scan", "failed"} => req = 0

\* mdb_find_oldest: every slot already read bounds the running minimum, or its
\* reader can only have taken one of the two newest versions since.
ScanInv ==
  wpc = "scan" =>
    /\ pghead = {}
    /\ oldest <= mti
    /\ \A r \in Reader : HasView(r) /\ r \notin scan =>
         oldest <= view[r].ver + 1

\* Ids stay behind the number of transactions begun; new pages start at 2.
Counters ==
  /\ mti <= begun
  /\ wid <= begun
  /\ wpc # "idle" => wid = mti + 1 /\ wnext >= 2

TypeInv == TypeOK /\ Counters

\* The part that concerns neither readers nor the older meta page, and does not
\* need them: the newest version is held, and its other meta page is the one
\* being written.
CurInv ==
  /\ Cur.ver = mti
  /\ Held(Cur.tree, mti)
  /\ wpc \in MetaDone =>
       metaDbs[Toggle(mti + 1)] = [ver |-> wid, tree |-> wtree, rec |-> wrec]
  /\ wpc \in {"metaTxnid", "publish"} =>
       metaLast[Toggle(mti + 1)] = wnext - 1
SearchInv == wpc = "scan" => pghead = {} /\ oldest <= mti
CoreInv == /\ TypeInv /\ CurInv /\ RecInv /\ PartInv /\ ImageInv
           /\ ReqInv /\ SearchInv /\ PageConservation

\* What a step keeps of a snapshot, unless it fetches a record that is not
\* older.
Kept == \A t \in Tree, v \in Txn :
          SnapshotOK(t, v) /\ pglast' <= v => SnapshotOK(t, v)'

\* The inductive invariant.
IInv == /\ TypeInv /\ MetaInv /\ ReaderInv /\ RecInv /\ PartInv /\ ImageInv
        /\ ReqInv /\ ScanInv /\ PageConservation

-----------------------------------------------------------------------------
\* The two meta pages alternate.
LEMMA ToggleFacts ==
  /\ \A n \in Nat : Toggle(n) \in {0, 1}
  /\ \A n \in Nat : Toggle(n + 1) = 1 - Toggle(n)
  BY DEF Toggle

-----------------------------------------------------------------------------
(* Types.                                                                   *)

\* The empty values are well typed.
LEMMA EmptyType ==
  /\ 0 \in Txn
  /\ 0 \in Image
  /\ NoTree \in Tree
  /\ NoRec \in [Txn -> SUBSET Page]
  /\ NoView \in [ver : Txn, tree : Tree]
  /\ 0 \in 0 .. MaxPg
  BY MVCCAssumption DEF NoTree, NoRec, NoView, Tree, Txn, Image, Page

\* The initial state has the types of TypeOK (mdb_env_init_meta).
LEMMA InitType == Init => TypeOK
  BY MVCCAssumption DEF Init, TypeOK, NoTree, NoRec, NoView, Page, Txn, Image,
     Idle, Tree, Dbs

\* The meta page an id selects holds well-typed roots and a last page.
LEMMA MetaType ==
  ASSUME TypeOK, NEW n \in Txn
  PROVE  /\ Toggle(n) \in {0, 1}
         /\ metaDbs[Toggle(n)] \in Dbs
         /\ metaDbs[Toggle(n)].ver \in Txn
         /\ metaDbs[Toggle(n)].tree \in Tree
         /\ metaDbs[Toggle(n)].rec \in [Txn -> SUBSET Page]
         /\ metaLast[Toggle(n)] \in 1 .. MaxPg - 1
<1>1. Toggle(n) \in {0, 1}
  BY ToggleFacts, MVCCAssumption DEF Txn
<1>2. metaDbs[Toggle(n)] \in Dbs /\ metaLast[Toggle(n)] \in 1 .. MaxPg - 1
  BY <1>1 DEF TypeOK
<1> QED BY <1>1, <1>2 DEF Dbs

\* No step of a reader leaves the types.
LEMMA ReaderType ==
  ASSUME TypeOK, NEW r \in Reader, ReaderStep(r)
  PROVE  TypeOK'
<1> USE MVCCAssumption DEF TypeOK, shared, reader, writer, alloc
<1>0. rid[r] \in Txn
  OBVIOUS
<1>1. CASE LoadTxnid(r)
  BY <1>1 DEF LoadTxnid
<1>2. CASE StoreSlot(r)
  BY <1>2 DEF StoreSlot
<1>3. CASE CopyDbs(r)
  BY <1>0, <1>3, MetaType DEF CopyDbs
<1>4. CASE CopyLast(r)
  <2>1. metaLast[Toggle(rid[r])] + 1 \in 0 .. MaxPg
    BY <1>0, MetaType
  <2> QED BY <1>4, <2>1 DEF CopyLast
<1>5. CASE EndRead(r)
  BY <1>5, EmptyType DEF EndRead
<1> QED BY <1>1, <1>2, <1>3, <1>4, <1>5 DEF ReaderStep

\* wmutex released: the writer's variables are empty.
LEMMA UnlockedType ==
  ASSUME TypeOK, Unlocked, UNCHANGED reader,
         page' \in [Page -> Image], metaDbs' \in [{0, 1} -> Dbs],
         metaLast' \in [{0, 1} -> 1 .. MaxPg - 1],
         metaTxnid' \in [{0, 1} -> Txn], mti' \in Txn
  PROVE  TypeOK'
  BY EmptyType DEF TypeOK, Unlocked, reader

\* The page handed out by mdb_page_alloc enters the dirty list and the tree.
LEMMA ObtainType ==
  ASSUME TypeOK, NEW q \in Page, Obtain(q)
  PROVE  /\ page' \in [Page -> Image]
         /\ dirty' \subseteq Page
         /\ wtree' \in Tree
         /\ freePgs' \subseteq Page
         /\ req' \in Page \cup {0}
         /\ wpc' = "run"
<1>1. begun \in Image /\ wtree \in [Page -> Image] /\ 0 \in Image
  BY EmptyType DEF TypeOK, Txn, Image, Tree
<1>2. page' \in [Page -> Image]
  BY <1>1 DEF Obtain, TypeOK
<1>3. wtree' \in Tree
  BY <1>1 DEF Obtain, Tree
<1> QED BY <1>1, <1>2, <1>3 DEF Obtain, TypeOK

\* What mdb_freelist_save writes are records of pages.
LEMMA SavedRecType ==
  ASSUME TypeOK
  PROVE  SavedRec \in [Txn -> SUBSET Page]
  BY DEF TypeOK, SavedRec

\* No step of the writer leaves the types.
LEMMA WriterType ==
  ASSUME TypeOK, Counters, WriterStep
  PROVE  TypeOK'
<1> USE DEF shared, meta, reader, alloc
<1>1. CASE Begin
  <2>1. mti \in Txn
    BY DEF TypeOK
  <2>2. begun + 1 \in Txn
    BY <1>1, MVCCAssumption DEF Begin, TypeOK, Txn
  <2>3. mti + 1 \in Txn
    BY <1>1, MVCCAssumption DEF Begin, TypeOK, Txn, Counters
  <2>4. metaLast[Toggle(mti)] + 1 \in 0 .. MaxPg
    BY <2>1, MetaType, MVCCAssumption
  <2> QED BY <1>1, <2>1, <2>2, <2>3, <2>4, MetaType DEF Begin, TypeOK
<1>2. CASE NewPage
  BY <1>2 DEF NewPage, TypeOK
<1>3. CASE TakeFree
  <2>1. PICK q \in pghead : pghead' = pghead \ {q} /\ Obtain(q)
    BY <1>3 DEF TakeFree
  <2>2. q \in Page
    BY DEF TypeOK
  <2> QED BY <1>3, <2>1, <2>2, ObtainType DEF TakeFree, TypeOK, Obtain
<1>4. CASE StartScan
  <2>1. wid - 1 \in Txn
    BY <1>4, MVCCAssumption DEF StartScan, TypeOK, Counters, Txn
  <2> QED BY <1>4, <2>1 DEF StartScan, TypeOK
<1>5. CASE Fetch
  BY <1>5, EmptyType DEF Fetch, TypeOK
<1>6. CASE TakeNew
  <2>1. wnext \in Page /\ wnext + 1 \in 0 .. MaxPg
    BY <1>6, MVCCAssumption DEF TakeNew, HasRoom, TypeOK, Page, Counters
  <2> QED BY <1>6, <2>1, ObtainType, EmptyType DEF TakeNew, TypeOK, Obtain
<1>7. CASE MapFull
  BY <1>7, EmptyType DEF MapFull, TypeOK
<1>8. ASSUME NEW p \in Page, Touch(p)
      PROVE  TypeOK'
  BY <1>8 DEF Touch, TypeOK
<1>9. ASSUME NEW p \in Page, FreePage(p)
      PROVE  TypeOK'
  BY <1>9, EmptyType DEF FreePage, TypeOK, Tree
<1>10. ASSUME NEW p \in Page, FreeOverflow(p)
       PROVE  TypeOK'
  BY <1>10, EmptyType DEF FreeOverflow, TypeOK, Tree
<1>11. ASSUME NEW p \in Page, Spill(p)
       PROVE  TypeOK'
  BY <1>11 DEF Spill, TypeOK, Txn, Image, writer
<1>12. ASSUME NEW r \in Reader, ScanSlot(r)
       PROVE  TypeOK'
  BY <1>12 DEF ScanSlot, Bounds, TypeOK
<1>13. CASE Abort
  BY <1>13, UnlockedType DEF Abort, TypeOK
<1>14. CASE CommitNothing
  BY <1>14, UnlockedType DEF CommitNothing, TypeOK
<1>15. CASE FreelistSave
  BY <1>15, SavedRecType DEF FreelistSave, TypeOK
<1>16. CASE PageFlush
  BY <1>16 DEF PageFlush, TypeOK, Txn, Image
<1>17. CASE EnvSync
  BY <1>17 DEF EnvSync, TypeOK
<1>18. CASE CommitFails
  <2>1. page' \in [Page -> Image]
    BY <1>18 DEF CommitFails, TypeOK, Txn, Image
  <2> QED BY <1>18, <2>1, UnlockedType DEF CommitFails, TypeOK
<1>19. CASE WriteMetaDbs
  BY <1>19 DEF WriteMetaDbs, TypeOK, Dbs
<1>20. CASE WriteMetaLast
  <2>1. wnext - 1 \in 1 .. MaxPg - 1
    BY <1>20, MVCCAssumption DEF WriteMetaLast, TypeOK, Counters
  <2> QED BY <1>20, <2>1 DEF WriteMetaLast, TypeOK
<1>21. CASE WriteMetaTxnid
  BY <1>21 DEF WriteMetaTxnid, TypeOK
<1>22. CASE Publish
  BY <1>22, UnlockedType DEF Publish, TypeOK
<1> QED
  BY <1>1, <1>2, <1>3, <1>4, <1>5, <1>6, <1>7, <1>8, <1>9, <1>10, <1>11,
     <1>12, <1>13, <1>14, <1>15, <1>16, <1>17, <1>18, <1>19, <1>20, <1>21,
     <1>22 DEF WriterStep

\* Ids and page numbers stay in step (mdb_txn_renew0, mdb_env_write_meta).
LEMMA CountersStep ==
  ASSUME TypeOK, Counters, Next
  PROVE  Counters'
<1> USE DEF shared, meta, reader, writer, alloc
<1>1. ASSUME NEW r \in Reader, ReaderStep(r)
      PROVE  Counters'
  BY <1>1 DEF Counters, ReaderStep, LoadTxnid, StoreSlot, CopyDbs, CopyLast,
     EndRead
<1>2. CASE Begin
  <2>1. metaLast[Toggle(mti)] \in 1 .. MaxPg - 1
    BY MetaType DEF TypeOK
  <2> QED BY <1>2, <2>1, MVCCAssumption DEF Begin, Counters, TypeOK, Txn
<1>3. CASE TakeFree \/ TakeNew
  BY <1>3 DEF TakeFree, TakeNew, Obtain, Counters, TypeOK
<1>4. CASE Abort \/ CommitNothing \/ CommitFails
  BY <1>4 DEF Abort, CommitNothing, CommitFails, Unlocked,
     Counters, TypeOK, Txn
<1>5. CASE Publish
  BY <1>5 DEF Publish, Unlocked, Counters, TypeOK, Txn
<1>6. ASSUME \/ NewPage \/ StartScan \/ Fetch \/ MapFull
             \/ \E p \in Page : Touch(p) \/ FreePage(p) \/ FreeOverflow(p)
                                \/ Spill(p)
             \/ \E r \in Reader : ScanSlot(r)
             \/ FreelistSave \/ PageFlush \/ EnvSync
             \/ WriteMetaDbs \/ WriteMetaLast \/ WriteMetaTxnid
      PROVE  Counters'
  BY <1>6 DEF NewPage, StartScan, Fetch, MapFull, Touch, FreePage,
     FreeOverflow, Spill, ScanSlot, FreelistSave, PageFlush, EnvSync,
     WriteMetaDbs, WriteMetaLast, WriteMetaTxnid, Counters
<1> QED BY <1>1, <1>2, <1>3, <1>4, <1>5, <1>6 DEF Next, WriterStep

\* Type correctness: every variable keeps its type, for every number of
\* readers, pages and transactions (the whole of MVCC).
THEOREM TypeCorrect == Spec => []TypeOK
<1>1. Init => TypeInv
  BY InitType, MVCCAssumption DEF TypeInv, Counters, Init
<1>2. TypeInv /\ [Next]_vars => TypeInv'
  <2> SUFFICES ASSUME TypeInv, [Next]_vars
               PROVE  TypeInv'
    OBVIOUS
  <2>1. CASE Next
    BY <2>1, ReaderType, WriterType, CountersStep DEF TypeInv, Next
  <2>2. CASE UNCHANGED vars
    BY <2>2 DEF TypeInv, TypeOK, Counters, vars, shared, reader, writer, alloc
  <2> QED BY <2>1, <2>2
<1>3. TypeInv => TypeOK
  BY DEF TypeInv
<1> QED BY <1>1, <1>2, <1>3, PTL DEF Spec

-----------------------------------------------------------------------------
(* Frames: what a step that leaves a part of the state alone preserves.     *)

\* The freeDB a commit would leave holds records of pages.
LEMMA EffRecType ==
  ASSUME TypeOK
  PROVE  EffRec \in [Txn -> SUBSET Page]
  BY SavedRecType DEF EffRec, TypeOK

\* The two meta pages: the newest one, and one at most one commit older.
LEMMA MetaFresh ==
  ASSUME TypeOK, Counters, MetaInv, NEW n \in Txn, n <= mti
  PROVE  /\ n <= metaDbs[Toggle(n)].ver
         /\ mti <= metaDbs[Toggle(n)].ver + 1
         /\ SnapshotOK(metaDbs[Toggle(n)].tree, metaDbs[Toggle(n)].ver)
<1>1. n \in Nat /\ mti \in Nat
  BY MVCCAssumption DEF TypeOK, Txn
<1>2. Toggle(n) \in {0, 1}
  BY <1>1, ToggleFacts
<1>3. CASE Toggle(n) = Toggle(mti)
  BY <1>1, <1>2, <1>3 DEF MetaInv, Cur, CurLast
<1>4. CASE Toggle(n) # Toggle(mti)
  <2>1. Toggle(n) = Toggle(mti + 1) /\ n + 1 <= mti
    <3>1. Toggle(mti) \in {0, 1} /\ Toggle(mti + 1) = 1 - Toggle(mti)
      BY <1>1, ToggleFacts
    <3>2. n # mti
      BY <1>4
    <3> QED BY <1>1, <1>2, <1>4, <3>1, <3>2
  <2>2. metaDbs[Toggle(mti + 1)].ver \in Txn
    BY <1>2, <2>1 DEF TypeOK, Dbs
  <2>3. CASE wpc \in MetaDone
    <3>1. metaDbs[Toggle(mti + 1)].ver = wid
      BY <2>3 DEF MetaInv
    <3>2. SnapshotOK(metaDbs[Toggle(n)].tree, metaDbs[Toggle(n)].ver)
      BY <1>2 DEF MetaInv
    <3>3. wid = mti + 1
      BY <2>3 DEF Counters, MetaDone
    <3> QED BY <1>1, <2>1, <3>1, <3>2, <3>3
  <2>4. CASE wpc \notin MetaDone
    <3>1. mti <= metaDbs[Toggle(mti + 1)].ver + 1
      BY <2>4 DEF MetaInv
    <3>2. metaDbs[Toggle(mti + 1)].ver \in Int
      BY <2>2 DEF Txn
    <3>3. SnapshotOK(metaDbs[Toggle(n)].tree, metaDbs[Toggle(n)].ver)
      BY <1>2 DEF MetaInv
    <3> QED BY <1>1, <2>1, <3>1, <3>2, <3>3
  <2> QED BY <2>3, <2>4
<1> QED BY <1>3, <1>4

\* A tree stays held when nothing becomes unsafe and only unsafe pages change.
LEMMA HeldFrame ==
  ASSUME NEW t \in Tree, NEW v \in Txn, Held(t, v),
         \A p \in Page : p \notin Unsafe(v) =>
           page'[p] = page[p] /\ p \notin Unsafe(v)'
  PROVE  Held(t, v)'
  BY DEF Held

\* The core invariant is a part of the whole.
LEMMA CoreOfInv == IInv => CoreInv
<1> SUFFICES ASSUME IInv
             PROVE  CoreInv
  OBVIOUS
<1>1. mti \in Txn /\ Toggle(mti) \in {0, 1} /\ mti \in Nat
  BY ToggleFacts DEF IInv, TypeInv, TypeOK, Txn
<1>2. SnapshotOK(Cur.tree, mti)
  BY <1>1 DEF IInv, MetaInv, Cur
<1>3. CurInv
  BY <1>1, <1>2 DEF IInv, MetaInv, CurInv, SnapshotOK
<1> QED BY <1>3 DEF IInv, CoreInv, ScanInv, SearchInv

\* The newest version is held.
LEMMA CurHeld ==
  ASSUME CoreInv
  PROVE  /\ mti \in Txn /\ Cur.tree \in Tree /\ Cur.ver = mti
         /\ SnapshotOK(Cur.tree, mti)
<1>1. mti \in Txn /\ Cur.tree \in Tree
  BY MetaType DEF CoreInv, TypeInv, TypeOK, Cur
<1> QED BY <1>1 DEF CoreInv, CurInv, RecInv, SnapshotOK, Txn

\* Steps of the writer that touch neither meta pages nor ids.
LEMMA CoreFrame ==
  ASSUME CoreInv, UNCHANGED <<meta, mti>>,
         wpc \notin MetaDone, wpc' \notin MetaDone, pglast' <= mti, Kept
  PROVE  CurInv' /\ PageConservation'
<1>1. UNCHANGED <<metaDbs, metaLast, mti, Cur, CurLast>>
  BY DEF meta, Cur, CurLast
<1>2. SnapshotOK(Cur.tree, mti)'
  <2>1. SnapshotOK(Cur.tree, mti) /\ mti \in Txn /\ Cur.tree \in Tree
    BY CurHeld
  <2> QED BY <1>1, <2>1 DEF Kept
<1>3. CurInv'
  BY <1>1, <1>2 DEF CoreInv, CurInv, SnapshotOK, MetaDone
<1>4. PageConservation'
  BY <1>1 DEF CoreInv, PageConservation, Partition
<1> QED BY <1>3, <1>4

\* Steps that leave the writer and the file alone.
LEMMA OutsideFrame ==
  ASSUME CoreInv, UNCHANGED <<shared, writer>>, TypeOK'
  PROVE  CoreInv' /\ Kept
<1>1. UNCHANGED <<page, metaDbs, metaLast, mti, wpc, begun, wid, wtree, wrec,
                  wnext, freePgs, pghead, pglast, scan, oldest, dirty, req>>
  BY DEF shared, writer, alloc
<1>2. UNCHANGED <<Cur, CurLast, EffRec>>
  BY <1>1 DEF Cur, CurLast, EffRec, SavedRec
<1>3. Kept
  BY <1>1, <1>2 DEF Kept, SnapshotOK, Held, Unsafe
<1>4. CurInv'
  BY <1>1, <1>2 DEF CoreInv, CurInv, Held, Unsafe
<1>5. /\ Counters' /\ RecInv' /\ PartInv' /\ ImageInv' /\ ReqInv' /\ SearchInv'
      /\ PageConservation'
  BY <1>1, <1>2 DEF CoreInv, TypeInv, Counters, RecInv, PartInv, ImageInv,
     ReqInv, SearchInv, PageConservation, Partition
<1> QED BY <1>3, <1>4, <1>5 DEF CoreInv, TypeInv

-----------------------------------------------------------------------------
(* The steps of a reader.                                                   *)

\* Reader steps leave the writer and the files alone: only the reader's own
\* snapshot and the scan of its slot are at stake.
LEMMA ReaderFrame ==
  ASSUME IInv, NEW r \in Reader, UNCHANGED <<shared, writer>>,
         \A x \in Reader \ {r} :
           rpc'[x] = rpc[x] /\ rid'[x] = rid[x] /\ view'[x] = view[x]
           /\ slot'[x] = slot[x],
         ReaderOK(r)', TypeOK',
         HasView(r)' => \/ mti <= view'[r].ver + 1
                        \/ HasView(r) /\ view'[r] = view[r]
  PROVE  MetaInv' /\ ReaderInv' /\ RecInv' /\ PartInv' /\ ImageInv' /\ ReqInv'
         /\ ScanInv' /\ PageConservation'
<1>1. UNCHANGED <<page, metaDbs, metaLast, mti, wpc, begun, wid, wtree, wrec,
                  wnext, freePgs, pghead, pglast, scan, oldest, dirty, req>>
  BY DEF shared, writer, alloc
<1>2. UNCHANGED <<Cur, CurLast, EffRec>>
  BY <1>1 DEF Cur, CurLast, EffRec, SavedRec
<1>3. \A t \in Tree, v \in Txn : SnapshotOK(t, v) => SnapshotOK(t, v)'
  BY <1>1, <1>2 DEF SnapshotOK, Held, Unsafe
<1>4. MetaInv'
  <2>1. ASSUME NEW i \in {0, 1}
        PROVE  SnapshotOK(metaDbs[i].tree, metaDbs[i].ver)'
    <3>1. metaDbs[i].tree \in Tree /\ metaDbs[i].ver \in Txn
      BY DEF IInv, TypeInv, TypeOK, Dbs
    <3>2. SnapshotOK(metaDbs[i].tree, metaDbs[i].ver)
      BY DEF IInv, MetaInv
    <3> QED BY <1>1, <1>3, <3>1, <3>2
  <2> QED BY <1>1, <1>2, <2>1 DEF IInv, MetaInv
<1>5. ASSUME NEW x \in Reader, x # r
      PROVE  ReaderOK(x)' /\ (HasView(x)' <=> HasView(x))
  <2>1. view[x].tree \in Tree /\ view[x].ver \in Txn
    BY DEF IInv, TypeInv, TypeOK
  <2>2. /\ rpc'[x] = rpc[x] /\ rid'[x] = rid[x] /\ view'[x] = view[x]
        /\ slot'[x] = slot[x]
    BY <1>5
  <2>3. HasView(x)' <=> HasView(x)
    BY <2>2 DEF HasView
  <2>4. ReaderOK(x)
    BY DEF IInv, ReaderInv
  <2>5. HasView(x)' => SnapshotOK(view[x].tree, view[x].ver)'
    BY <1>3, <2>1, <2>2, <2>3, <2>4 DEF ReaderOK
  <2> QED BY <1>1, <2>2, <2>3, <2>4, <2>5 DEF ReaderOK
<1>6. ReaderInv'
  BY <1>5 DEF ReaderInv
<1>7. RecInv' /\ PartInv' /\ ImageInv' /\ ReqInv' /\ PageConservation'
  BY <1>1, <1>2 DEF IInv, RecInv, PartInv, ImageInv, ReqInv, PageConservation,
     Partition
<1>8. ScanInv'
  <2>1. ASSUME wpc = "scan"
        PROVE  ScanInv'
    <3>1. oldest \in Int /\ mti \in Int /\ oldest <= mti
      BY <2>1 DEF IInv, TypeInv, TypeOK, Txn, ScanInv
    <3>2. ASSUME NEW x \in Reader, HasView(x)', x \notin scan
          PROVE  oldest <= view'[x].ver + 1
      <4>1. view'[x].ver \in Int
        BY DEF TypeOK, Txn
      <4>2. CASE x = r
        BY <2>1, <3>1, <3>2, <4>1, <4>2 DEF IInv, ScanInv
      <4>3. CASE x # r
        BY <1>5, <2>1, <3>2, <4>3 DEF IInv, ScanInv
      <4> QED BY <4>2, <4>3
    <3> QED BY <1>1, <2>1, <3>1, <3>2 DEF IInv, ScanInv
  <2> QED BY <1>1, <2>1 DEF ScanInv
<1> QED BY <1>4, <1>6, <1>7, <1>8

\* Every step of a reader (mdb_txn_renew0, mdb_txn_reset0).
LEMMA ReaderStepInv ==
  ASSUME IInv, NEW r \in Reader, ReaderStep(r)
  PROVE  IInv'
<1>0. TypeOK /\ Counters /\ ReaderOK(r) /\ MetaInv /\ rid[r] \in Txn
  BY DEF IInv, TypeInv, ReaderInv, TypeOK
<1>1. TypeInv'
  BY <1>0, ReaderType, CountersStep DEF TypeInv, Next
<1>2. TypeOK'
  BY <1>1 DEF TypeInv
<1>3. UNCHANGED <<shared, writer>>
  BY DEF ReaderStep, LoadTxnid, StoreSlot, CopyDbs, CopyLast, EndRead, shared,
     writer
<1>4. \A x \in Reader \ {r} : /\ rpc'[x] = rpc[x] /\ rid'[x] = rid[x]
                              /\ view'[x] = view[x] /\ slot'[x] = slot[x]
  BY <1>0 DEF ReaderStep, LoadTxnid, StoreSlot, CopyDbs, CopyLast, EndRead,
     TypeOK
<1>5. UNCHANGED <<page, metaDbs, metaLast, mti, wpc, wtree, wrec, wid, wnext, freePgs,
                  pghead, pglast, dirty>>
  BY <1>3 DEF shared, writer, alloc
<1>6. \A t \in Tree, v \in Txn : SnapshotOK(t, v) => SnapshotOK(t, v)'
  BY <1>5 DEF SnapshotOK, Held, Unsafe, Cur, CurLast, EffRec, SavedRec
<1>7. CASE LoadTxnid(r) \/ StoreSlot(r) \/ EndRead(r)
  <2>1. ~HasView(r)'
    BY <1>0, <1>7 DEF LoadTxnid, StoreSlot, EndRead, HasView, TypeOK
  <2>2. ReaderOK(r)'
    <3>1. rpc'[r] # "idle" => rid'[r] <= mti'
      BY <1>0, <1>5, <1>7 DEF LoadTxnid, StoreSlot, EndRead, TypeOK, ReaderOK,
         Txn
    <3>2. rpc'[r] = "stored" => slot'[r] = rid'[r]
      BY <1>0, <1>7 DEF LoadTxnid, StoreSlot, EndRead, TypeOK, ReaderOK
    <3> QED BY <2>1, <3>1, <3>2 DEF ReaderOK, HasView
  <2> QED BY <1>1, <1>2, <1>3, <1>4, <2>1, <2>2, ReaderFrame DEF IInv
<1>8. CASE CopyDbs(r)
  <2> DEFINE m == metaDbs[Toggle(rid[r])]
  <2>1. /\ rid[r] <= m.ver
        /\ mti <= m.ver + 1
        /\ SnapshotOK(m.tree, m.ver)
        /\ slot[r] = rid[r]
        /\ rid[r] <= mti
    BY <1>0, <1>8, MetaFresh DEF CopyDbs, ReaderOK
  <2>2. m.ver \in Txn /\ m.tree \in Tree
    BY <1>0, MetaType
  <2>3. view'[r].ver = m.ver /\ view'[r].tree = m.tree
    BY <1>0, <1>8 DEF CopyDbs, TypeOK
  <2>4. SnapshotOK(view[r].tree, view[r].ver)'
    BY <1>6, <2>1, <2>2, <2>3
  <2>5. ReaderOK(r)'
    BY <1>0, <1>5, <1>8, <2>1, <2>3, <2>4 DEF CopyDbs, ReaderOK, TypeOK
  <2> QED BY <1>1, <1>2, <1>3, <1>4, <1>5, <2>1, <2>3, <2>5, ReaderFrame DEF IInv
<1>9. CASE CopyLast(r)
  <2>1. HasView(r) /\ rid'[r] = rid[r] /\ slot'[r] = slot[r]
        /\ view'[r] = view[r] /\ rpc'[r] = "active"
    BY <1>0, <1>9 DEF CopyLast, HasView, TypeOK
  <2>2. view[r].tree \in Tree /\ view[r].ver \in Txn
    BY <1>0 DEF TypeOK
  <2>3. SnapshotOK(view[r].tree, view[r].ver)'
    BY <1>0, <1>6, <2>1, <2>2 DEF ReaderOK
  <2>4. ReaderOK(r)'
    BY <1>0, <1>5, <1>9, <2>1, <2>3 DEF CopyLast, ReaderOK, HasView
  <2> QED BY <1>1, <1>2, <1>3, <1>4, <1>5, <2>1, <2>4, ReaderFrame DEF IInv
<1> QED BY <1>7, <1>8, <1>9 DEF ReaderStep

-----------------------------------------------------------------------------
(* The steps of the writer, before the free list is saved.                  *)

\* Steps that only move the program counter, the request or the scan.
LEMMA QuietFrame ==
  ASSUME CoreInv, wpc \in PreSave, wpc' \in PreSave,
         UNCHANGED <<shared, begun, wid, wtree, wrec, wnext, freePgs,
                     pghead, pglast, dirty>>
  PROVE  Kept /\ CurInv' /\ PageConservation' /\ RecInv' /\ PartInv' /\ ImageInv'
<1>1. UNCHANGED <<page, metaDbs, mti, meta, Cur, CurLast, EffRec>>
  BY DEF shared, meta, Cur, CurLast, EffRec, SavedRec
<1>2. wpc \notin MetaDone /\ wpc' \notin MetaDone /\ wpc' \notin Flushed
      /\ wpc # "idle" /\ wpc' # "idle"
  BY DEF PreSave, MetaDone, Flushed
<1>3. Kept
  BY <1>1, <1>2 DEF Kept, SnapshotOK, Held, Unsafe
<1>4. CurInv' /\ PageConservation'
  BY <1>1, <1>2, <1>3, CoreFrame DEF CoreInv, RecInv
<1>5. RecInv' /\ PartInv' /\ ImageInv'
  BY <1>1, <1>2 DEF CoreInv, RecInv, PartInv, ImageInv, Partition
<1> QED BY <1>3, <1>4, <1>5

\* A page is asked for, or the search for one starts, goes on or fails.
LEMMA QuietStep ==
  ASSUME CoreInv, \/ NewPage \/ StartScan \/ MapFull
                  \/ \E p \in Page : Touch(p)
                  \/ \E r \in Reader : ScanSlot(r)
  PROVE  CoreInv' /\ Kept
<1>1. TypeInv'
  BY WriterType, CountersStep DEF CoreInv, TypeInv, Next, WriterStep
<1>2. /\ wpc \in PreSave /\ wpc' \in PreSave
      /\ UNCHANGED <<shared, begun, wid, wtree, wrec, wnext, freePgs,
                     pghead, pglast, dirty>>
  BY DEF NewPage, StartScan, MapFull, Touch, ScanSlot, PreSave, alloc
<1>3. ReqInv'
  BY DEF NewPage, StartScan, MapFull, Touch, ScanSlot, CoreInv, ReqInv, InTree
<1>4. SearchInv'
  <2>1. mti \in Int /\ wid = mti + 1 /\ UNCHANGED mti
    BY <1>2 DEF CoreInv, TypeInv, TypeOK, Counters, Txn, PreSave, shared
  <2>2. CASE StartScan
    BY <2>1, <2>2 DEF StartScan, SearchInv
  <2>3. ASSUME NEW r \in Reader, ScanSlot(r)
        PROVE  SearchInv'
    <3>1. oldest \in Int /\ oldest <= mti /\ pghead = {} /\ slot[r] \in Int
      BY <2>3 DEF ScanSlot, CoreInv, SearchInv, TypeInv, TypeOK, Txn, Idle
    <3>2. oldest' \in Int /\ oldest' <= oldest
      BY <2>3, <3>1 DEF ScanSlot, Bounds
    <3> QED BY <2>1, <2>3, <3>1, <3>2 DEF ScanSlot, SearchInv
  <2>4. CASE NewPage \/ MapFull \/ \E p \in Page : Touch(p)
    BY <2>4 DEF NewPage, MapFull, Touch, SearchInv
  <2> QED BY <2>2, <2>3, <2>4
<1> QED BY <1>1, <1>2, <1>3, <1>4, QuietFrame DEF CoreInv

\* A record is merged into me_pghead: it is older than the newest version.
LEMMA FetchStep ==
  ASSUME CoreInv, Fetch
  PROVE  CoreInv' /\ Kept
<1>1. TypeInv'
  BY WriterType, CountersStep DEF CoreInv, TypeInv, Next, WriterStep
<1>2. PICK k \in Txn : /\ Fetchable(k)
                       /\ pghead' = pghead \cup wrec[k]
                       /\ pglast' = k
  BY DEF Fetch
<1>3. /\ UNCHANGED <<shared, begun, wid, wtree, wrec, wnext, freePgs, dirty, req,
                     page, metaDbs, mti, meta, Cur, CurLast>>
      /\ wpc = "scan" /\ wpc' = "alloc" /\ scan = {}
  BY DEF Fetch, shared, meta, reader, Cur, CurLast
<1>4. /\ k \in Int /\ mti \in Int /\ oldest \in Int /\ pglast \in Int
      /\ wid = mti + 1 /\ k < oldest /\ oldest <= mti /\ k > pglast
      /\ pghead = {} /\ pghead' = wrec[k] /\ pglast >= 0
  BY <1>2, <1>3 DEF Fetchable, CoreInv, TypeInv, TypeOK, Counters, SearchInv, Txn
<1>5. \A j \in Txn : j < k /\ j > pglast => wrec[j] = {}
  BY <1>2, <1>4 DEF Fetchable, Txn
<1>6. EffRec' = EffRec
  <2>1. SavedRec' = SavedRec
    BY <1>2, <1>3, <1>4, <1>5 DEF SavedRec, Txn
  <2> QED BY <1>3, <2>1 DEF EffRec, PreSave
<1>7. Kept
  BY <1>2, <1>3, <1>6 DEF Kept, SnapshotOK, Held, Unsafe, MetaDone
<1>8. CurInv' /\ PageConservation'
  BY <1>3, <1>4, <1>2, <1>7, CoreFrame DEF MetaDone
<1>9. RecInv'
  BY <1>2, <1>3, <1>4 DEF CoreInv, RecInv, PreSave
<1>10. PartInv' /\ ImageInv'
  BY <1>3, <1>6 DEF CoreInv, PartInv, ImageInv, Partition, Flushed, MetaDone
<1>11. ReqInv' /\ SearchInv'
  BY <1>3 DEF CoreInv, ReqInv, SearchInv
<1> QED BY <1>1, <1>7, <1>8, <1>9, <1>10, <1>11 DEF CoreInv

\* A page is handed out: no snapshot can reach it.
LEMMA ObtainStep ==
  ASSUME CoreInv, NEW q \in Page, Obtain(q), wpc \in {"alloc", "scan"},
         TypeInv', UNCHANGED <<pglast, scan>>,
         \/ q \in pghead /\ pghead' = pghead \ {q} /\ UNCHANGED wnext
         \/ q = wnext /\ wnext' = wnext + 1 /\ UNCHANGED pghead
  PROVE  CoreInv' /\ Kept
<1>1. /\ UNCHANGED <<metaDbs, metaLast, mti, meta, reader, begun, wid, wrec, Cur, CurLast>>
      /\ dirty' = dirty \cup {q} /\ req' = 0 /\ wpc' = "run"
      /\ wpc \in PreSave /\ wpc' \in PreSave /\ wpc # "idle" /\ wpc' # "idle"
      /\ wpc \notin MetaDone /\ wpc' \notin MetaDone /\ wpc' \notin Flushed
      /\ wpc' # "scan"
  BY DEF Obtain, meta, Cur, CurLast, PreSave, MetaDone, Flushed
<1>2. /\ mti \in Int /\ wid = mti + 1 /\ pglast \in Txn /\ pglast <= mti
      /\ wnext \in Int /\ wid \in Txn /\ begun \in Int /\ begun # 0
      /\ q \in Int
  BY <1>1 DEF CoreInv, TypeInv, TypeOK, Counters, RecInv, Txn, PreSave, Page
<1>3. page' = page \/ page' = [page EXCEPT ![q] = begun]
  BY DEF Obtain
<1>4. wtree' = [p \in Page |-> IF p = q THEN begun
                               ELSE IF p = req THEN 0 ELSE wtree[p]]
  BY DEF Obtain
<1>5. freePgs' = IF req = 0 THEN freePgs ELSE freePgs \cup {req}
  BY DEF Obtain
<1>6. EffRec = SavedRec /\ EffRec' = SavedRec'
  BY <1>1 DEF EffRec
<1>7. req = 0 \/ (req \in Page /\ req \notin dirty /\ wtree[req] # 0)
  BY <1>1 DEF CoreInv, ReqInv, TypeInv, TypeOK, PreSave
<1>8. Partition(wtree, SavedRec, wnext - 1)
  BY <1>1, <1>6 DEF CoreInv, PartInv
<1>9. \A k \in Txn : k <= mti => EffRec'[k] \subseteq EffRec[k]
  BY <1>1, <1>2, <1>6 DEF SavedRec, Txn
<1>10. \/ q \in pghead /\ EffRec[pglast] = pghead
       \/ q = wnext
  BY <1>2, <1>6 DEF SavedRec, Txn
<1>11. wtree[q] = 0 /\ q # req /\ 0 \notin Page
  <2>1. 0 \notin Page
    BY DEF Page
  <2>2. CASE q = wnext
    <3>1. wtree[q] = 0
      BY <1>2, <1>8, <2>2 DEF Partition
    <3> QED BY <1>7, <2>1, <3>1
  <2>3. CASE q \in pghead /\ EffRec[pglast] = pghead
    <3>1. wtree[q] = 0
      BY <1>2, <1>6, <1>8, <2>3 DEF Partition
    <3> QED BY <1>7, <2>1, <3>1
  <2> QED BY <1>10, <2>2, <2>3
<1>12. ASSUME NEW t \in Tree, NEW v \in Txn, SnapshotOK(t, v)
       PROVE  SnapshotOK(t, v)'
  <2>1. v <= mti /\ pglast <= v /\ Held(t, v) /\ v \in Int
    BY <1>1, <1>12 DEF SnapshotOK, Txn
  <2>2. q \in Unsafe(v)
    <3>1. CurLast \in Int /\ CurLast < wnext
      BY <1>1, <1>2, MetaType DEF CoreInv, TypeInv, TypeOK, PartInv, CurLast
    <3> QED BY <1>1, <1>2, <1>10, <2>1, <3>1 DEF Unsafe
  <2>3. ASSUME NEW p \in Page, p \notin Unsafe(v)
        PROVE  page'[p] = page[p] /\ p \notin Unsafe(v)'
    <3>1. p # q
      BY <2>2, <2>3
    <3>2. page'[p] = page[p]
      BY <1>3, <3>1 DEF CoreInv, TypeInv, TypeOK
    <3>3. \A k \in Txn : k <= v => p \notin EffRec'[k] /\ p \notin Cur.rec[k]
      BY <1>1, <1>2, <1>9, <2>1, <2>3 DEF Unsafe, Txn
    <3>4. p \notin dirty' /\ ~ (p > CurLast)
      BY <1>1, <2>3, <3>1 DEF Unsafe
    <3> QED BY <1>1, <3>2, <3>3, <3>4 DEF Unsafe
  <2>4. Held(t, v)'
    BY <2>1, <2>3, HeldFrame
  <2> QED BY <1>1, <2>1, <2>4 DEF SnapshotOK
<1>13. Kept /\ CurInv' /\ PageConservation'
  BY <1>1, <1>12, CoreFrame DEF Kept, CoreInv, RecInv
<1>14. RecInv'
  BY <1>1, <1>2 DEF CoreInv, RecInv
<1>15. PartInv'
  <2>1. \A k \in Txn : SavedRec'[k] =
          IF k = wid THEN freePgs' ELSE IF k = pglast THEN pghead'
          ELSE IF k < pglast THEN {} ELSE wrec[k]
    BY <1>1 DEF SavedRec
  <2>2. \A k \in Txn : SavedRec[k] =
          IF k = wid THEN freePgs ELSE IF k = pglast THEN pghead
          ELSE IF k < pglast THEN {} ELSE wrec[k]
    BY DEF SavedRec
  <2>3. wid # pglast
    BY <1>2 DEF Txn
  <2>4. \A k \in Txn : k # wid /\ k # pglast => SavedRec'[k] = SavedRec[k]
    BY <2>1, <2>2
  <2>5. /\ SavedRec'[wid] = freePgs' /\ SavedRec[wid] = freePgs
        /\ SavedRec'[pglast] = pghead' /\ SavedRec[pglast] = pghead
    BY <1>2, <2>1, <2>2, <2>3
  <2>6. ASSUME NEW p \in Page
        PROVE  /\ wtree'[p] # 0 => p <= wnext' - 1
               /\ p <= wnext' - 1 /\ wtree'[p] = 0 =>
                    \E k \in Txn : p \in SavedRec'[k]
               /\ \A k \in Txn : p \in SavedRec'[k] =>
                    p <= wnext' - 1 /\ wtree'[p] = 0 /\
                    \A j \in Txn : p \in SavedRec'[j] => j = k
    <3>1. p \in Int
      BY DEF Page
    <3>2. /\ wtree[p] # 0 => p <= wnext - 1
          /\ p <= wnext - 1 /\ wtree[p] = 0 => \E k \in Txn : p \in SavedRec[k]
          /\ \A k \in Txn : p \in SavedRec[k] =>
               p <= wnext - 1 /\ wtree[p] = 0 /\
               \A j \in Txn : p \in SavedRec[j] => j = k
      BY <1>8 DEF Partition
    <3>3. CASE p = q
      <4>0. \A k \in Txn : p \in SavedRec[k] => k = pglast /\ p \in pghead
        BY <1>2, <1>10, <2>5, <3>1, <3>2, <3>3
      <4>1. p \notin pghead'
        <5>1. CASE q = wnext /\ UNCHANGED pghead
          <6>1. pglast \in Txn /\ wnext \in Int
            BY <1>2
          <6>2. p \in SavedRec[pglast] => p <= wnext - 1
            BY <3>2, <6>1
          <6>3. p \notin pghead
            BY <2>5, <3>1, <3>3, <5>1, <6>1, <6>2
          <6> QED BY <5>1, <6>3
        <5>2. CASE pghead' = pghead \ {q}
          BY <3>3, <5>2
        <5> QED BY <5>1, <5>2
      <4>2. p \notin freePgs'
        BY <1>2, <1>5, <1>11, <2>3, <2>5, <3>3, <4>0
      <4>3. \A k \in Txn : p \notin SavedRec'[k]
        BY <2>4, <2>5, <4>0, <4>1, <4>2
      <4>4. wtree'[p] = begun /\ p <= wnext' - 1
        BY <1>2, <1>4, <1>10, <2>5, <3>1, <3>2, <3>3
      <4> QED BY <1>2, <4>3, <4>4
    <3>4. CASE p = req
      <4>0. req # 0 /\ wtree[p] # 0 /\ p # q
        BY <1>7, <1>11, <3>4
      <4>1. \A k \in Txn : p \notin SavedRec[k]
        BY <3>2, <4>0
      <4>2. \A k \in Txn : p \in SavedRec'[k] <=> k = wid
        BY <1>2, <1>5, <2>3, <2>4, <2>5, <3>4, <4>0, <4>1
      <4>3. wtree'[p] = 0
        BY <1>4, <3>4, <4>0
      <4>4. p <= wnext' - 1
        BY <1>2, <3>1, <3>2, <4>0
      <4> QED BY <1>2, <4>2, <4>3, <4>4
    <3>5. CASE p # q /\ p # req
      <4>1. \A k \in Txn : p \in SavedRec'[k] <=> p \in SavedRec[k]
        BY <1>5, <2>4, <2>5, <3>5
      <4>2. wtree'[p] = wtree[p]
        BY <1>4, <3>5
      <4>3. p <= wnext' - 1 <=> p <= wnext - 1
        BY <1>2, <3>1, <3>5
      <4> QED BY <3>2, <4>1, <4>2, <4>3
    <3> QED BY <3>3, <3>4, <3>5
  <2>7. CurLast' < wnext'
    BY <1>1, <1>2, MetaType DEF CoreInv, TypeInv, TypeOK, PartInv, CurLast
  <2> QED BY <1>6, <2>6, <2>7 DEF PartInv, Partition
<1>16. ImageInv'
  <2> SUFFICES ASSUME NEW p \in Page, wtree'[p] # 0
               PROVE  IF p \in dirty' THEN wtree'[p] = begun
                                      ELSE page'[p] = wtree'[p]
    BY <1>1 DEF ImageInv
  <2>1. CASE p = q
    BY <1>1, <1>4, <2>1
  <2>2. CASE p # q
    <3>1. wtree'[p] = wtree[p] /\ page'[p] = page[p] /\ (p \in dirty' <=> p \in dirty)
      BY <1>1, <1>3, <1>4, <2>2 DEF CoreInv, TypeInv, TypeOK
    <3> QED BY <1>1, <3>1 DEF CoreInv, ImageInv
  <2> QED BY <2>1, <2>2
<1>17. ReqInv' /\ SearchInv'
  BY <1>1 DEF ReqInv, SearchInv
<1> QED BY <1>13, <1>14, <1>15, <1>16, <1>17 DEF CoreInv

\* mdb_page_alloc ends with a page of me_pghead, or a new one.
LEMMA AllocStep ==
  ASSUME CoreInv, TakeFree \/ TakeNew
  PROVE  CoreInv' /\ Kept
<1>1. TypeInv'
  BY WriterType, CountersStep DEF CoreInv, TypeInv, Next, WriterStep
<1>2. CASE TakeFree
  <2>1. PICK q \in pghead : pghead' = pghead \ {q} /\ Obtain(q)
    BY <1>2 DEF TakeFree
  <2>2. q \in Page
    BY DEF CoreInv, TypeInv, TypeOK
  <2> QED BY <1>1, <1>2, <2>1, <2>2, ObtainStep DEF TakeFree
<1>3. CASE TakeNew
  <2>1. wnext \in Page
    BY <1>3, MVCCAssumption DEF TakeNew, HasRoom, CoreInv, TypeInv, TypeOK,
       Counters, Page
  <2> QED BY <1>1, <1>3, <2>1, ObtainStep DEF TakeNew
<1> QED BY <1>2, <1>3

\* A page leaves the tree, to mt_free_pgs or, when this transaction allocated
\* it, to me_pghead: no snapshot had it as allocatable before or has it after.
LEMMA FreeStep ==
  ASSUME CoreInv, NEW p \in Page, FreePage(p) \/ FreeOverflow(p)
  PROVE  CoreInv' /\ Kept
<1>1. TypeInv'
  BY WriterType, CountersStep DEF CoreInv, TypeInv, Next, WriterStep
<1>2. /\ UNCHANGED <<page, metaDbs, metaLast, mti, meta, reader, begun, wid,
                     wrec, wnext, pglast, scan, oldest, req, Cur, CurLast>>
      /\ wpc = "run" /\ wpc' = "run" /\ dirty' \subseteq dirty
      /\ wtree' = [wtree EXCEPT ![p] = 0] /\ wtree[p] # 0
  BY DEF FreePage, FreeOverflow, InTree, shared, meta, alloc, Cur, CurLast
<1>3. /\ mti \in Int /\ wid = mti + 1 /\ pglast \in Txn /\ pglast <= mti
      /\ wid \in Txn /\ wtree \in [Page -> Image] /\ begun # 0
  BY <1>2 DEF CoreInv, TypeInv, TypeOK, Counters, RecInv, Txn, Tree
<1>4. EffRec = SavedRec /\ EffRec' = SavedRec'
  BY <1>2 DEF EffRec, PreSave
<1>5. \/ freePgs' = freePgs \cup {p} /\ pghead' = pghead /\ dirty' = dirty
      \/ /\ freePgs' = freePgs /\ pghead' = pghead \cup {p} /\ p \in dirty
         /\ dirty' = dirty \ {p} /\ pglast # 0
  BY DEF FreePage, FreeOverflow, alloc
<1>6. \A k \in Txn :
        /\ SavedRec[k] = IF k = wid THEN freePgs ELSE IF k = pglast THEN pghead
                         ELSE IF k < pglast THEN {} ELSE wrec[k]
        /\ SavedRec'[k] = IF k = wid THEN freePgs'
                          ELSE IF k = pglast THEN pghead'
                          ELSE IF k < pglast THEN {} ELSE wrec[k]
  BY <1>2 DEF SavedRec
<1>7. wid # pglast
  BY <1>3 DEF Txn
<1>8. \A k \in Txn, x \in Page :
        x # p => (x \in SavedRec'[k] <=> x \in SavedRec[k])
  BY <1>5, <1>6
<1>9. PICK h \in Txn : /\ \A k \in Txn : p \in SavedRec'[k] =>
                            k = h \/ p \in SavedRec[k]
                       /\ p \in SavedRec'[h]
                       /\ h = wid \/ p \in dirty
  BY <1>3, <1>5, <1>6, <1>7
<1>10. ASSUME NEW t \in Tree, NEW v \in Txn, SnapshotOK(t, v)
       PROVE  SnapshotOK(t, v)'
  <2>1. v <= mti /\ pglast <= v /\ Held(t, v) /\ v \in Int
    BY <1>2, <1>10 DEF SnapshotOK, Txn, MetaDone
  <2>2. ASSUME NEW x \in Page, x \notin Unsafe(v)
        PROVE  x \notin Unsafe(v)'
    <3>1. \A k \in Txn : k <= v => x \notin EffRec'[k]
      BY <1>2, <1>3, <1>4, <1>8, <1>9, <2>1, <2>2 DEF Unsafe
    <3> QED BY <1>2, <2>2, <3>1 DEF Unsafe
  <2>3. Held(t, v)'
    BY <1>2, <2>1, <2>2, HeldFrame
  <2> QED BY <1>2, <2>1, <2>3 DEF SnapshotOK
<1>11. Kept /\ CurInv' /\ PageConservation'
  BY <1>2, <1>10, CoreFrame DEF Kept, CoreInv, RecInv, MetaDone
<1>12. RecInv'
  BY <1>2, <1>3, <1>5 DEF CoreInv, RecInv, PreSave
<1>13. PartInv'
  <2>1. Partition(wtree, SavedRec, wnext - 1)
    BY <1>2, <1>4 DEF CoreInv, PartInv
  <2>2. \A k \in Txn : p \notin SavedRec[k]
    BY <1>2, <2>1 DEF Partition
  <2>3. \A x \in Page : wtree'[x] = IF x = p THEN 0 ELSE wtree[x]
    BY <1>2, <1>3
  <2>4. Partition(wtree', SavedRec', wnext - 1)
    <3> SUFFICES ASSUME NEW x \in Page
                 PROVE  /\ wtree'[x] # 0 => x <= wnext - 1
                        /\ x <= wnext - 1 /\ wtree'[x] = 0 =>
                             \E k \in Txn : x \in SavedRec'[k]
                        /\ \A k \in Txn : x \in SavedRec'[k] =>
                             x <= wnext - 1 /\ wtree'[x] = 0 /\
                             \A j \in Txn : x \in SavedRec'[j] => j = k
      BY DEF Partition
    <3>1. CASE x = p
      BY <1>2, <1>9, <2>1, <2>2, <2>3, <3>1 DEF Partition
    <3>2. CASE x # p
      BY <1>8, <2>1, <2>3, <3>2 DEF Partition
    <3> QED BY <3>1, <3>2
  <2> QED BY <1>2, <1>4, <2>4 DEF CoreInv, PartInv
<1>14. ImageInv'
  BY <1>2, <1>3, <1>5 DEF CoreInv, ImageInv, Flushed, MetaDone
<1>15. ReqInv' /\ SearchInv'
  BY <1>2 DEF CoreInv, ReqInv, SearchInv
<1> QED BY <1>1, <1>11, <1>12, <1>13, <1>14, <1>15 DEF CoreInv

\* The transaction begins: it works on the newest version and owns nothing.
LEMMA BeginStep ==
  ASSUME CoreInv, Begin
  PROVE  CoreInv' /\ Kept
<1>1. TypeInv'
  BY WriterType, CountersStep DEF CoreInv, TypeInv, Next, WriterStep
<1>2. /\ UNCHANGED <<page, metaDbs, metaLast, mti, meta, reader, freePgs,
                     pghead, pglast, dirty, req, Cur, CurLast>>
      /\ wpc = "idle" /\ wpc' = "run" /\ wid' = mti + 1
      /\ wtree' = Cur.tree /\ wrec' = Cur.rec /\ wnext' = CurLast + 1
      /\ dirty = {} /\ pglast = 0 /\ pghead = {} /\ freePgs = {} /\ req = 0
  BY DEF Begin, shared, meta, alloc, Cur, CurLast, CoreInv, RecInv, ReqInv
<1>3. /\ mti \in Txn /\ mti \in Int /\ Cur.rec \in [Txn -> SUBSET Page]
      /\ CurLast \in Int
  <2>1. mti \in Txn
    BY DEF CoreInv, TypeInv, TypeOK
  <2>2. /\ Cur.rec \in [Txn -> SUBSET Page]
        /\ CurLast \in 1 .. MaxPg - 1
    BY <2>1, MetaType DEF CoreInv, TypeInv, Cur, CurLast
  <2> QED BY <2>1, <2>2 DEF Txn
<1>4. EffRec' = Cur.rec
  <2>1. EffRec' = SavedRec'
    BY <1>2 DEF EffRec, PreSave
  <2>2. \A k \in Txn : (k > mti => Cur.rec[k] = {}) /\ Cur.rec[0] = {}
    BY DEF CoreInv, RecInv
  <2>3. SavedRec' = [k \in Txn |-> IF k = mti + 1 THEN {}
                                   ELSE IF k = 0 THEN {}
                                   ELSE IF k < 0 THEN {} ELSE Cur.rec[k]]
    BY <1>2 DEF SavedRec
  <2>4. ASSUME NEW k \in Txn
        PROVE  SavedRec'[k] = Cur.rec[k]
    <3>1. SavedRec'[k] = IF k = mti + 1 THEN {}
                         ELSE IF k = 0 THEN {}
                         ELSE IF k < 0 THEN {} ELSE Cur.rec[k]
      BY <2>3
    <3>2. k \in Int /\ k >= 0
      BY MVCCAssumption DEF Txn
    <3>3. k = mti + 1 => k > mti
      BY <1>3
    <3>4. k = mti + 1 => Cur.rec[k] = {}
      BY <2>2, <3>3
    <3>5. ~(k < 0)
      BY <3>2
    <3> QED BY <2>2, <3>1, <3>4, <3>5
  <2> QED BY <1>3, <2>1, <2>3, <2>4
<1>5. ASSUME NEW t \in Tree, NEW v \in Txn, SnapshotOK(t, v)
      PROVE  SnapshotOK(t, v)'
  BY <1>2, <1>4, <1>5 DEF SnapshotOK, MetaDone, Held, Unsafe
<1>6. Kept /\ CurInv' /\ PageConservation'
  BY <1>2, <1>5, CoreFrame DEF Kept, CoreInv, RecInv, MetaDone
<1>7. RecInv'
  BY <1>2, <1>3 DEF CoreInv, RecInv, PreSave, Txn
<1>8. PartInv'
  <2>1. Partition(Cur.tree, Cur.rec, CurLast)
    BY DEF CoreInv, PageConservation, Cur, CurLast
  <2>2. wnext' - 1 = CurLast
    BY <1>2, <1>3
  <2>3. Partition(Cur.tree, Cur.rec, wnext' - 1)
    BY <2>1, <2>2
  <2>4. CurLast' < wnext'
    BY <1>2, <1>3
  <2> QED BY <1>2, <1>4, <2>3, <2>4 DEF PartInv, Partition
<1>9. ImageInv'
  <2>1. Toggle(mti) \in {0, 1} /\ Cur.tree \in Tree /\ Cur.ver = mti
    BY <1>3, MetaType DEF CoreInv, TypeInv, CurInv, Cur
  <2>3. Held(Cur.tree, mti)
    BY DEF CoreInv, CurInv
  <2> QED BY <1>2, <2>3 DEF ImageInv, Held, Flushed, MetaDone
<1>10. ReqInv' /\ SearchInv'
  BY <1>2 DEF ReqInv, SearchInv
<1> QED BY <1>1, <1>6, <1>7, <1>8, <1>9, <1>10 DEF CoreInv

-----------------------------------------------------------------------------
(* Commit and abort.                                                        *)

\* Dirty pages are written to the file: no snapshot has a dirty page.
LEMMA WriteStep ==
  ASSUME CoreInv, (\E p \in Page : Spill(p)) \/ PageFlush \/ EnvSync
  PROVE  CoreInv' /\ Kept
<1>1. TypeInv'
  BY WriterType, CountersStep DEF CoreInv, TypeInv, Next, WriterStep
<1>2. /\ UNCHANGED <<metaDbs, metaLast, mti, meta, reader, begun, wid, wtree,
                     wrec, wnext, freePgs, pghead, pglast, dirty, scan, req,
                     Cur, CurLast>>
      /\ wpc \in {"run", "flush", "sync"} /\ wpc' \in {"run", "sync", "metaDbs"}
      /\ (wpc \in PreSave <=> wpc' \in PreSave)
      /\ wpc \notin MetaDone /\ wpc' \notin MetaDone
  BY DEF Spill, PageFlush, EnvSync, shared, meta, writer, alloc, Cur, CurLast,
     PreSave, MetaDone
<1>3. \A p \in Page : \/ page'[p] = page[p]
                      \/ p \in dirty /\ page'[p] = begun
  BY DEF Spill, PageFlush, EnvSync, shared, CoreInv, TypeInv, TypeOK
<1>4. EffRec' = EffRec
  BY <1>2 DEF EffRec, SavedRec
<1>5. \A t \in Tree, v \in Txn : SnapshotOK(t, v) => SnapshotOK(t, v)'
  BY <1>2, <1>3, <1>4 DEF SnapshotOK, Held, Unsafe
<1>6. Kept /\ CurInv' /\ PageConservation'
  BY <1>2, <1>5, CoreFrame DEF Kept, CoreInv, RecInv
<1>7. RecInv'
  BY <1>2 DEF CoreInv, RecInv
<1>8. PartInv'
  BY <1>2, <1>4 DEF CoreInv, PartInv, Partition
<1>9. ImageInv'
  <2>1. wpc' \in Flushed => \A p \in dirty : page'[p] = begun
    <3>1. CASE PageFlush
      BY <3>1 DEF PageFlush, CoreInv, TypeInv, TypeOK
    <3>2. CASE EnvSync
      BY <3>2 DEF EnvSync, CoreInv, ImageInv, Flushed, shared
    <3>3. CASE \E p \in Page : Spill(p)
      BY <3>3 DEF Spill, writer, Flushed, MetaDone
    <3> QED BY <3>1, <3>2, <3>3
  <2>2. \A p \in Page : wtree[p] # 0 =>
          IF p \in dirty THEN wtree[p] = begun ELSE page'[p] = wtree[p]
    BY <1>2, <1>3 DEF CoreInv, ImageInv
  <2> QED BY <1>2, <2>1, <2>2 DEF ImageInv
<1>10. ReqInv' /\ SearchInv'
  BY <1>2 DEF CoreInv, ReqInv, SearchInv
<1> QED BY <1>1, <1>6, <1>7, <1>8, <1>9, <1>10 DEF CoreInv

\* The free list is saved: the records are what they were said to become.
LEMMA FreelistSaveStep ==
  ASSUME CoreInv, FreelistSave
  PROVE  CoreInv' /\ Kept
<1>1. TypeInv'
  BY WriterType, CountersStep DEF CoreInv, TypeInv, Next, WriterStep
<1>2. /\ UNCHANGED <<page, metaDbs, metaLast, mti, meta, reader, begun, wid,
                     wtree, wnext, freePgs, pglast, dirty, scan, req, Cur,
                     CurLast>>
      /\ wpc = "run" /\ wpc' = "flush" /\ wrec' = SavedRec /\ pghead' = {}
  BY DEF FreelistSave, shared, meta, Cur, CurLast
<1>3. EffRec' = EffRec
  BY <1>2 DEF EffRec, PreSave
<1>4. \A t \in Tree, v \in Txn : SnapshotOK(t, v) => SnapshotOK(t, v)'
  BY <1>2, <1>3 DEF SnapshotOK, Held, Unsafe, MetaDone
<1>5. Kept /\ CurInv' /\ PageConservation'
  BY <1>2, <1>4, CoreFrame DEF Kept, CoreInv, RecInv, MetaDone
<1>6. RecInv'
  <2>1. /\ wid = mti + 1 /\ mti \in Int /\ pglast \in Txn /\ pglast <= mti
        /\ mti >= 0 /\ 0 \in Txn
    BY <1>2, EmptyType DEF CoreInv, TypeInv, TypeOK, Counters, RecInv, Txn
  <2>2. \A k \in Txn : k > wid => SavedRec[k] = {}
    BY <1>2, <2>1 DEF CoreInv, RecInv, SavedRec, PreSave, Txn
  <2>3. SavedRec[0] = {}
    BY <1>2, <2>1 DEF CoreInv, RecInv, SavedRec, PreSave, Txn
  <2> QED BY <1>2, <2>2, <2>3 DEF CoreInv, RecInv, PreSave
<1>7. PartInv'
  BY <1>2, <1>3 DEF CoreInv, PartInv, Partition
<1>8. ImageInv' /\ ReqInv' /\ SearchInv'
  BY <1>2 DEF CoreInv, ImageInv, ReqInv, SearchInv, Flushed, MetaDone
<1> QED BY <1>1, <1>5, <1>6, <1>7, <1>8 DEF CoreInv

\* The transaction is gone, whatever it wrote: it wrote on pages that no
\* snapshot can reach, or in the meta page that the next commit writes.
LEMMA DropStep ==
  ASSUME CoreInv, Unlocked, TypeOK',
         UNCHANGED <<metaDbs, metaLast, metaTxnid, mti>>,
         \A p \in Page : page'[p] = page[p] \/ (wpc # "idle" /\ p \in dirty)
  PROVE  /\ CoreInv'
         /\ \A t \in Tree, v \in Txn :
              SnapshotOK(t, v) /\ v <= mti => SnapshotOK(t, v)'
<1>1. UNCHANGED <<metaDbs, mti, Cur, CurLast>>
  BY DEF Cur, CurLast
<1>2. /\ wpc' = "idle" /\ dirty' = {} /\ pglast' = 0 /\ pghead' = {}
      /\ freePgs' = {} /\ req' = 0 /\ begun' = begun /\ wid' = 0
  BY DEF Unlocked
<1>3. mti \in Nat /\ wid' <= begun' /\ 0 <= mti
  BY <1>2 DEF CoreInv, TypeInv, TypeOK, Txn
<1>4. ASSUME NEW t \in Tree, NEW v \in Txn, SnapshotOK(t, v), v <= mti
      PROVE  SnapshotOK(t, v)'
  <2>1. Held(t, v) /\ 0 <= v
    BY <1>3, <1>4 DEF SnapshotOK, Txn
  <2>2. Held(t, v)'
    BY <1>1, <1>2, <2>1, HeldFrame DEF Unsafe
  <2> QED BY <1>1, <1>2, <1>4, <2>1, <2>2 DEF SnapshotOK
<1>5. CurInv'
  <2>1. SnapshotOK(Cur.tree, mti) /\ mti \in Txn /\ Cur.tree \in Tree
    BY CurHeld
  <2>2. SnapshotOK(Cur.tree, mti)'
    BY <1>1, <1>3, <1>4, <2>1
  <2> QED BY <1>1, <1>2, <2>2 DEF CoreInv, CurInv, SnapshotOK, MetaDone
<1>6. PageConservation'
  BY <1>1 DEF CoreInv, PageConservation, Partition
<1>7. RecInv'
  BY <1>1, <1>2, <1>3 DEF CoreInv, RecInv, PreSave
<1>8. PartInv' /\ ImageInv' /\ ReqInv' /\ SearchInv'
  BY <1>2 DEF PartInv, ImageInv, ReqInv, SearchInv, Flushed, MetaDone
<1>9. TypeInv'
  BY <1>2, <1>3 DEF CoreInv, TypeInv, Counters
<1> QED BY <1>4, <1>5, <1>6, <1>7, <1>8, <1>9 DEF CoreInv

\* The transaction ends without a commit, before it writes its meta page.
LEMMA EndStep ==
  ASSUME CoreInv, Abort \/ CommitNothing \/ CommitFails
  PROVE  CoreInv' /\ Kept
<1>1. TypeInv'
  BY WriterType, CountersStep DEF CoreInv, TypeInv, Next, WriterStep
<1>2. /\ UNCHANGED <<metaDbs, metaLast, metaTxnid, mti>>
      /\ Unlocked /\ wpc # "idle" /\ wpc \notin MetaDone
  BY DEF Abort, CommitNothing, CommitFails, shared, meta, MetaDone
<1>3. \A p \in Page : page'[p] = page[p] \/ (wpc # "idle" /\ p \in dirty)
  <2>1. \A p \in Page : page'[p] = page[p] \/ p \in dirty
    BY DEF Abort, CommitNothing, CommitFails, shared, CoreInv, TypeInv, TypeOK
  <2> QED BY <1>2, <2>1
<1>4. \A t \in Tree, v \in Txn : SnapshotOK(t, v) => v <= mti
  BY <1>2 DEF SnapshotOK
<1>5. /\ CoreInv'
      /\ \A t \in Tree, v \in Txn :
           SnapshotOK(t, v) /\ v <= mti => SnapshotOK(t, v)'
  <2>1. TypeOK'
    BY <1>1 DEF TypeInv
  <2> QED BY <1>2, <1>3, <2>1, DropStep
<1> QED BY <1>4, <1>5 DEF Kept

\* The older meta page is overwritten with the new roots, field by field.
LEMMA WriteMetaStep ==
  ASSUME CoreInv, WriteMetaDbs \/ WriteMetaLast \/ WriteMetaTxnid
  PROVE  CoreInv' /\ Kept
<1>1. TypeInv'
  BY WriterType, CountersStep DEF CoreInv, TypeInv, Next, WriterStep
<1>2. /\ UNCHANGED <<page, mti, reader, begun, wid, wtree, wrec, wnext,
                     freePgs, pghead, pglast, dirty, scan, req>>
      /\ wpc \in {"metaDbs", "metaLast", "metaTxnid"} /\ wpc' \in MetaDone
  BY DEF WriteMetaDbs, WriteMetaLast, WriteMetaTxnid, MetaDone, alloc
<1>3. /\ mti \in Txn /\ wid = mti + 1 /\ mti \in Int /\ wid \in Txn
      /\ Toggle(mti) \in {0, 1} /\ Toggle(wid) \in {0, 1}
      /\ Toggle(wid) # Toggle(mti)
      /\ {0, 1} = {Toggle(mti), Toggle(wid)}
  <2>1. mti \in Txn /\ wid = mti + 1 /\ mti \in Nat /\ wid \in Txn
    BY <1>2 DEF CoreInv, TypeInv, TypeOK, Counters, Txn
  <2>2. Toggle(mti) \in {0, 1} /\ Toggle(mti + 1) = 1 - Toggle(mti)
    BY <2>1, ToggleFacts
  <2> QED BY <2>1, <2>2
<1>4. /\ metaDbs'[Toggle(mti)] = metaDbs[Toggle(mti)]
      /\ metaLast'[Toggle(mti)] = metaLast[Toggle(mti)]
      /\ UNCHANGED <<Cur, CurLast>>
  BY <1>2, <1>3 DEF WriteMetaDbs, WriteMetaLast, WriteMetaTxnid, Cur, CurLast,
     CoreInv, TypeInv, TypeOK
<1>5. metaDbs'[Toggle(wid)] = [ver |-> wid, tree |-> wtree, rec |-> wrec]
  <2>1. CASE WriteMetaDbs
    BY <1>3, <2>1 DEF WriteMetaDbs, CoreInv, TypeInv, TypeOK
  <2>2. CASE WriteMetaLast \/ WriteMetaTxnid
    BY <1>3, <2>2 DEF WriteMetaLast, WriteMetaTxnid, CoreInv, CurInv, MetaDone
  <2> QED BY <2>1, <2>2
<1>6. wpc' \in {"metaTxnid", "publish"} => metaLast'[Toggle(wid)] = wnext - 1
  <2>1. CASE WriteMetaDbs
    BY <2>1 DEF WriteMetaDbs
  <2>2. CASE WriteMetaLast
    BY <1>3, <2>2 DEF WriteMetaLast, CoreInv, TypeInv, TypeOK
  <2>3. CASE WriteMetaTxnid
    BY <1>3, <2>3 DEF WriteMetaTxnid, CoreInv, CurInv
  <2> QED BY <2>1, <2>2, <2>3
<1>7. EffRec' = EffRec
  BY <1>2 DEF EffRec, PreSave, MetaDone
<1>8. Kept
  BY <1>2, <1>4, <1>7 DEF Kept, SnapshotOK, Held, Unsafe, MetaDone
<1>9. CurInv'
  <2>1. Held(Cur.tree, mti)'
    BY <1>2, <1>4, <1>7 DEF CoreInv, CurInv, Held, Unsafe, MetaDone
  <2> QED BY <1>2, <1>3, <1>4, <1>5, <1>6, <2>1 DEF CoreInv, CurInv
<1>10. RecInv'
  BY <1>2, <1>4 DEF CoreInv, RecInv, PreSave, MetaDone
<1>11. PartInv' /\ PageConservation'
  BY <1>2, <1>4, <1>7 DEF CoreInv, PartInv, PageConservation, Partition, MetaDone
<1>12. ImageInv' /\ ReqInv' /\ SearchInv'
  BY <1>2 DEF CoreInv, ImageInv, ReqInv, SearchInv, Flushed, MetaDone
<1> QED BY <1>1, <1>8, <1>9, <1>10, <1>11, <1>12 DEF CoreInv

\* The commit is published: the version being written becomes the newest one.
LEMMA PublishStep ==
  ASSUME CoreInv, wpc = "publish", mti' = wid, Unlocked, TypeOK',
         UNCHANGED <<page, metaDbs, metaLast, metaTxnid>>
  PROVE  CoreInv' /\ Kept
<1>1. TypeInv'
  BY DEF CoreInv, TypeInv, Counters, Unlocked, TypeOK, Txn
<1>2. /\ UNCHANGED <<page, metaDbs, metaLast, meta>>
      /\ wpc = "publish" /\ mti' = wid /\ Unlocked
  BY DEF meta
<1>3. /\ wpc' = "idle" /\ dirty' = {} /\ pglast' = 0 /\ pghead' = {}
      /\ freePgs' = {} /\ req' = 0
  BY <1>2 DEF Unlocked
<1>4. /\ mti \in Txn /\ wid = mti + 1 /\ mti \in Nat /\ wid \in Txn
      /\ wid \in Nat /\ pglast <= mti /\ wnext \in Int
  BY <1>2 DEF CoreInv, TypeInv, TypeOK, Counters, RecInv, Txn
<1>5. /\ Toggle(mti) \in {0, 1} /\ Toggle(wid) = 1 - Toggle(mti)
      /\ Toggle(wid + 1) = Toggle(mti)
  <2>1. Toggle(mti + 1) = 1 - Toggle(mti) /\ Toggle(mti) \in {0, 1}
    BY <1>4, ToggleFacts
  <2>2. Toggle(wid + 1) = 1 - Toggle(wid)
    BY <1>4, ToggleFacts
  <2> QED BY <1>4, <2>1, <2>2
<1>6. /\ metaDbs[Toggle(wid)] = [ver |-> wid, tree |-> wtree, rec |-> wrec]
      /\ metaLast[Toggle(wid)] = wnext - 1
  BY <1>2, <1>4 DEF CoreInv, CurInv, MetaDone
<1>7. Cur' = [ver |-> wid, tree |-> wtree, rec |-> wrec] /\ CurLast' = wnext - 1
  BY <1>2, <1>6 DEF Cur, CurLast
<1>8. EffRec = wrec /\ Partition(wtree, wrec, wnext - 1) /\ CurLast < wnext
  BY <1>2 DEF EffRec, PreSave, CoreInv, PartInv
<1>9. CurLast \in Int
  BY <1>4, MetaType DEF CoreInv, TypeInv, CurLast
<1>10. ASSUME NEW t \in Tree, NEW v \in Txn, SnapshotOK(t, v)
       PROVE  SnapshotOK(t, v)'
  <2>1. v \in Int /\ 0 <= v
    BY DEF Txn
  <2>2. CASE v <= mti /\ pglast <= v /\ Held(t, v)
    <3>1. ASSUME NEW p \in Page, p \notin Unsafe(v)
          PROVE  p \notin Unsafe(v)'
      <4>1. p <= CurLast /\ \A k \in Txn : k <= v => p \notin wrec[k]
        BY <1>2, <1>8, <1>9, <3>1 DEF Unsafe, Page
      <4> QED BY <1>3, <1>4, <1>7, <1>8, <1>9, <4>1 DEF Unsafe, Page
    <3>2. Held(t, v)'
      BY <1>2, <2>2, <3>1, HeldFrame
    <3> QED BY <1>2, <1>3, <1>4, <2>1, <2>2, <3>2 DEF SnapshotOK
  <2>3. CASE v = mti + 1 /\ t = wtree
    <3>1. ASSUME NEW p \in Page, t[p] # 0
          PROVE  page'[p] = t[p] /\ p \notin Unsafe(v)'
      <4>1. page[p] = wtree[p]
        BY <1>2, <2>3, <3>1 DEF CoreInv, ImageInv, Flushed, MetaDone
      <4>2. p <= wnext - 1 /\ \A k \in Txn : p \notin wrec[k]
        BY <1>8, <2>3, <3>1 DEF Partition
      <4>3. p \notin Unsafe(v)'
        BY <1>3, <1>4, <1>7, <4>2 DEF Unsafe, Page
      <4> QED BY <1>2, <2>3, <4>1, <4>3
    <3>2. Held(t, v)'
      BY <3>1 DEF Held
    <3> QED BY <1>2, <1>3, <1>4, <2>1, <2>3, <3>2 DEF SnapshotOK
  <2> QED BY <1>10, <2>2, <2>3 DEF SnapshotOK
<1>11. CurInv'
  <2>1. SnapshotOK(wtree, wid) /\ wtree \in Tree
    BY <1>2, <1>4 DEF SnapshotOK, MetaDone, CoreInv, TypeInv, TypeOK
  <2>2. \A t \in Tree, v \in Txn : t = wtree /\ v = wid => Held(t, v)'
    BY <1>3, <1>10, <2>1 DEF SnapshotOK, MetaDone
  <2>3. Held(Cur.tree, mti)'
    BY <1>2, <1>4, <1>7, <2>1, <2>2 DEF Held, Unsafe
  <2> QED BY <1>2, <1>3, <1>7, <2>3 DEF CurInv, MetaDone
<1>12. Kept
  BY <1>10 DEF Kept
<1>13. RecInv'
  BY <1>2, <1>3, <1>4, <1>7 DEF CoreInv, RecInv, PreSave
<1>14. PageConservation'
  <2>1. /\ Cur' = metaDbs'[Toggle(mti')] /\ CurLast' = metaLast'[Toggle(mti')]
    BY DEF Cur, CurLast
  <2> QED BY <1>7, <1>8, <2>1 DEF PageConservation, Partition
<1>15. PartInv' /\ ImageInv' /\ ReqInv' /\ SearchInv'
  BY <1>3 DEF PartInv, ImageInv, ReqInv, SearchInv, Flushed, MetaDone
<1> QED BY <1>1, <1>11, <1>12, <1>13, <1>14, <1>15 DEF CoreInv

\* Every step of the writer keeps the core invariant, and the snapshots.
LEMMA WriterCore ==
  ASSUME CoreInv, WriterStep
  PROVE  CoreInv' /\ Kept
<1>1. CASE Begin
  BY <1>1, BeginStep
<1>2. CASE \/ NewPage \/ StartScan \/ MapFull \/ \E p \in Page : Touch(p)
           \/ \E r \in Reader : ScanSlot(r)
  BY <1>2, QuietStep
<1>3. CASE TakeFree \/ TakeNew
  BY <1>3, AllocStep
<1>4. CASE Fetch
  BY <1>4, FetchStep
<1>5. ASSUME NEW p \in Page, FreePage(p) \/ FreeOverflow(p)
      PROVE  CoreInv' /\ Kept
  BY <1>5, FreeStep
<1>6. CASE (\E p \in Page : Spill(p)) \/ PageFlush \/ EnvSync
  BY <1>6, WriteStep
<1>7. CASE FreelistSave
  BY <1>7, FreelistSaveStep
<1>8. CASE Abort \/ CommitNothing \/ CommitFails
  BY <1>8, EndStep
<1>9. CASE WriteMetaDbs \/ WriteMetaLast \/ WriteMetaTxnid
  BY <1>9, WriteMetaStep
<1>10. CASE Publish
  <2>1. TypeOK' /\ UNCHANGED <<metaDbs, metaLast, metaTxnid>>
    BY <1>10, WriterType DEF CoreInv, TypeInv, WriterStep, Publish, meta
  <2> QED BY <1>10, <2>1, PublishStep DEF Publish
<1> QED BY <1>1, <1>2, <1>3, <1>4, <1>5, <1>6, <1>7, <1>8, <1>9, <1>10 DEF WriterStep

-----------------------------------------------------------------------------
(* Readers and the older meta page.                                         *)

\* A record that the writer fetches is older than every snapshot held.
LEMMA FetchedOlder ==
  ASSUME IInv, WriterStep
  PROVE  /\ \A i \in {0, 1} : pglast' <= metaDbs[i].ver
         /\ \A r \in Reader : HasView(r) => pglast' <= view[r].ver
<1>1. /\ \A t \in Tree, v \in Txn : SnapshotOK(t, v) => pglast <= v
      /\ mti \in Nat /\ pglast \in Nat /\ oldest \in Nat
  BY DEF SnapshotOK, IInv, TypeInv, TypeOK, RecInv, Txn
<1>2. ASSUME NEW i \in {0, 1}
      PROVE  /\ metaDbs[i].ver \in Nat /\ pglast <= metaDbs[i].ver
             /\ wpc \notin MetaDone => mti <= metaDbs[i].ver + 1
  <2>1. metaDbs[i].tree \in Tree /\ metaDbs[i].ver \in Txn
    BY DEF IInv, TypeInv, TypeOK, Dbs
  <2>2. SnapshotOK(metaDbs[i].tree, metaDbs[i].ver)
    BY DEF IInv, MetaInv
  <2>3. i = Toggle(mti) \/ i = Toggle(mti + 1)
    <3>1. Toggle(mti) \in {0, 1} /\ Toggle(mti + 1) = 1 - Toggle(mti)
      BY <1>1, ToggleFacts
    <3> QED BY <3>1
  <2> QED BY <1>1, <2>1, <2>2, <2>3 DEF IInv, MetaInv, Cur, Txn
<1>3. ASSUME NEW r \in Reader, HasView(r)
      PROVE  view[r].ver \in Nat /\ pglast <= view[r].ver
  <2>1. view[r].tree \in Tree /\ view[r].ver \in Txn
    BY DEF IInv, TypeInv, TypeOK
  <2>2. SnapshotOK(view[r].tree, view[r].ver)
    BY <1>3 DEF IInv, ReaderInv, ReaderOK
  <2> QED BY <1>1, <2>1, <2>2 DEF Txn
<1>4. CASE Fetch
  <2>1. PICK k \in Txn : Fetchable(k) /\ pglast' = k
    BY <1>4 DEF Fetch
  <2>2. k \in Nat /\ k < oldest /\ wpc = "scan" /\ scan = {} /\ wpc \notin MetaDone
    BY <1>4, <2>1 DEF Fetch, Fetchable, Txn, MetaDone
  <2>3. oldest <= mti /\ \A r \in Reader : HasView(r) => oldest <= view[r].ver + 1
    BY <2>2 DEF IInv, ScanInv
  <2> QED BY <1>1, <1>2, <1>3, <2>1, <2>2, <2>3
<1>5. CASE ~Fetch
  <2>1. pglast' = pglast \/ pglast' = 0
    BY <1>5 DEF WriterStep, Begin, NewPage, TakeFree, StartScan, TakeNew, MapFull,
       Touch, FreePage, FreeOverflow, Spill, ScanSlot, Abort, CommitNothing,
       FreelistSave, PageFlush, EnvSync, CommitFails, WriteMetaDbs,
       WriteMetaLast, WriteMetaTxnid, Publish, Unlocked, writer, alloc
  <2> QED BY <1>1, <1>2, <1>3, <2>1
<1> QED BY <1>4, <1>5

\* What a writer's step does to the meta pages, by its phase.
LEMMA MetaMoves ==
  ASSUME CoreInv, WriterStep
  PROVE  /\ UNCHANGED reader
         /\ \/ UNCHANGED <<metaDbs, mti>> /\ wpc \notin MetaDone /\ wpc' \notin MetaDone
            \/ UNCHANGED mti /\ wpc' \in MetaDone
               /\ metaDbs'[Toggle(mti)] = metaDbs[Toggle(mti)]
            \/ Publish
<1>1. /\ wpc \in {"metaDbs", "metaLast", "metaTxnid"} => wid = mti + 1
      /\ mti \in Nat /\ metaDbs \in [{0, 1} -> Dbs]
  BY DEF CoreInv, TypeInv, TypeOK, Counters, Txn
<1>2. Toggle(mti) \in {0, 1} /\ Toggle(mti + 1) = 1 - Toggle(mti)
  BY <1>1, ToggleFacts
<1>3. CASE WriteMetaDbs \/ WriteMetaLast \/ WriteMetaTxnid
  <2>1. metaDbs'[Toggle(mti)] = metaDbs[Toggle(mti)]
    BY <1>1, <1>2, <1>3 DEF WriteMetaDbs, WriteMetaLast, WriteMetaTxnid
  <2> QED BY <1>3, <2>1 DEF WriteMetaDbs, WriteMetaLast, WriteMetaTxnid, MetaDone
<1>4. CASE Publish
  BY <1>4 DEF Publish
<1>5. CASE TakeFree \/ TakeNew
  BY <1>5 DEF TakeFree, TakeNew, Obtain, meta, MetaDone
<1>6. CASE \/ Begin \/ NewPage \/ StartScan \/ Fetch \/ MapFull
           \/ \E p \in Page : Touch(p) \/ FreePage(p) \/ FreeOverflow(p) \/ Spill(p)
           \/ \E r \in Reader : ScanSlot(r)
  BY <1>6 DEF Begin, NewPage, StartScan, Fetch, MapFull, Touch, FreePage,
     FreeOverflow, Spill, ScanSlot, shared, meta, writer, MetaDone
<1>7. CASE Abort \/ CommitNothing \/ FreelistSave \/ PageFlush \/ EnvSync \/ CommitFails
  BY <1>7 DEF Abort, CommitNothing, FreelistSave, PageFlush, EnvSync,
     CommitFails, Unlocked, shared, meta, MetaDone
<1> QED BY <1>3, <1>4, <1>5, <1>6, <1>7 DEF WriterStep

\* mdb_find_oldest bounds the readers of the slots it has read.
LEMMA ScanStep ==
  ASSUME IInv, WriterStep, UNCHANGED reader
  PROVE  ScanInv'
<1>1. mti \in Int /\ (wpc # "idle" => wid = mti + 1)
  BY DEF IInv, TypeInv, TypeOK, Counters, Txn
<1>2. UNCHANGED <<rpc, slot, view, rid>>
  BY DEF reader
<1>3. CASE StartScan
  BY <1>1, <1>3 DEF StartScan, shared, ScanInv
<1>4. ASSUME NEW r \in Reader, ScanSlot(r)
      PROVE  ScanInv'
  <2>1. /\ oldest \in Int /\ oldest <= mti /\ pghead = {} /\ slot[r] \in Int
        /\ UNCHANGED <<mti, pghead>>
    BY <1>4 DEF ScanSlot, IInv, ScanInv, TypeInv, TypeOK, Txn, Idle, shared
  <2>2. oldest' \in Int /\ oldest' <= oldest
    BY <1>4, <2>1 DEF ScanSlot, Bounds
  <2>3. ASSUME NEW x \in Reader, HasView(x)', x \notin scan'
        PROVE  oldest' <= view'[x].ver + 1
    <3>1. HasView(x) /\ view[x].ver \in Int
      BY <1>2, <2>3 DEF HasView, IInv, TypeInv, TypeOK, Txn
    <3>2. CASE x = r
      <4>1. slot[r] = rid[r] /\ rid[r] <= view[r].ver /\ rid[r] \in Txn
        BY <3>1, <3>2 DEF IInv, ReaderInv, ReaderOK, HasView, TypeInv, TypeOK
      <4>2. oldest' <= slot[r]
        BY <1>4, <2>1, <4>1 DEF ScanSlot, Bounds, Idle, Txn
      <4> QED BY <1>2, <2>1, <2>2, <3>1, <3>2, <4>1, <4>2
    <3>3. CASE x # r
      <4>1. oldest <= view[x].ver + 1
        BY <1>4, <2>3, <3>1, <3>3 DEF ScanSlot, IInv, ScanInv
      <4> QED BY <1>2, <2>1, <2>2, <3>1, <4>1
    <3> QED BY <3>2, <3>3
  <2> QED BY <1>1, <2>1, <2>2, <2>3 DEF ScanInv
<1>5. CASE \/ NewPage \/ Fetch \/ MapFull \/ Abort \/ CommitNothing \/ Begin
           \/ TakeFree \/ TakeNew
           \/ \E p \in Page : Touch(p) \/ FreePage(p) \/ FreeOverflow(p) \/ Spill(p)
  BY <1>5 DEF NewPage, Fetch, MapFull, Abort, CommitNothing, Begin, TakeFree,
     TakeNew, Obtain, Touch, FreePage, FreeOverflow, Spill, Unlocked, writer, ScanInv
<1>6. CASE \/ FreelistSave \/ PageFlush \/ EnvSync \/ CommitFails
           \/ WriteMetaDbs \/ WriteMetaLast \/ WriteMetaTxnid \/ Publish
  BY <1>6 DEF FreelistSave, PageFlush, EnvSync, CommitFails, WriteMetaDbs,
     WriteMetaLast, WriteMetaTxnid, Publish, Unlocked, ScanInv
<1> QED BY <1>3, <1>4, <1>5, <1>6 DEF WriterStep

\* Every step of the writer keeps the whole invariant.
LEMMA WriterInv ==
  ASSUME IInv, WriterStep
  PROVE  IInv'
<1>1. CoreInv /\ CoreInv' /\ Kept
  BY CoreOfInv, WriterCore
<1>2. UNCHANGED <<rpc, rid, slot, view, reader>>
  BY <1>1, MetaMoves DEF reader
<1>3. /\ mti \in Nat /\ Toggle(mti) \in {0, 1} /\ Toggle(mti + 1) = 1 - Toggle(mti)
      /\ mti + 1 \in Nat /\ Toggle(mti + 2) = Toggle(mti)
  <2>1. mti \in Nat /\ mti + 1 \in Nat
    BY DEF IInv, TypeInv, TypeOK, Txn
  <2>2. Toggle(mti) \in {0, 1} /\ Toggle(mti + 1) = 1 - Toggle(mti)
    BY <2>1, ToggleFacts
  <2>3. Toggle((mti + 1) + 1) = 1 - Toggle(mti + 1) /\ (mti + 1) + 1 = mti + 2
    BY <2>1, ToggleFacts
  <2> QED BY <2>1, <2>2, <2>3
<1>4. ASSUME NEW i \in {0, 1}, metaDbs'[i] = metaDbs[i]
      PROVE  SnapshotOK(metaDbs[i].tree, metaDbs[i].ver)'
  <2>1. metaDbs[i].tree \in Tree /\ metaDbs[i].ver \in Txn
    BY DEF IInv, TypeInv, TypeOK, Dbs
  <2>2. SnapshotOK(metaDbs[i].tree, metaDbs[i].ver) /\ pglast' <= metaDbs[i].ver
    BY FetchedOlder DEF IInv, MetaInv
  <2> QED BY <1>1, <1>4, <2>1, <2>2 DEF Kept
<1>5. ASSUME UNCHANGED <<metaDbs, mti>> /\ wpc \notin MetaDone /\ wpc' \notin MetaDone
      PROVE  MetaInv'
  <2>1. \A i \in {0, 1} : SnapshotOK(metaDbs[i].tree, metaDbs[i].ver)'
    BY <1>4, <1>5
  <2> QED BY <1>1, <1>5, <2>1 DEF IInv, MetaInv, CoreInv, CurInv
<1>6. ASSUME UNCHANGED mti /\ wpc' \in MetaDone
             /\ metaDbs'[Toggle(mti)] = metaDbs[Toggle(mti)]
      PROVE  MetaInv'
  <2>1. SnapshotOK(metaDbs[Toggle(mti)].tree, metaDbs[Toggle(mti)].ver)'
    BY <1>3, <1>4, <1>6
  <2>2. metaDbs'[Toggle(mti + 1)] = [ver |-> mti + 1, tree |-> wtree', rec |-> wrec']
    BY <1>1, <1>6 DEF CoreInv, CurInv, TypeInv, Counters, MetaDone
  <2>3. SnapshotOK(metaDbs[Toggle(mti + 1)].tree, metaDbs[Toggle(mti + 1)].ver)'
    BY <1>6, <2>2 DEF SnapshotOK
  <2>4. \A i \in {0, 1} : SnapshotOK(metaDbs[i].tree, metaDbs[i].ver)'
    BY <1>3, <1>6, <2>1, <2>3
  <2> QED BY <1>1, <1>6, <2>4 DEF MetaInv, CoreInv, CurInv
<1>7. ASSUME Publish
      PROVE  MetaInv'
  <2>1. metaDbs' = metaDbs /\ mti' = mti + 1 /\ wpc' = "idle"
    BY <1>7 DEF Publish, meta, Unlocked, IInv, TypeInv, Counters
  <2>2. \A i \in {0, 1} : SnapshotOK(metaDbs[i].tree, metaDbs[i].ver)'
    BY <1>4, <2>1
  <2>3. metaDbs'[Toggle(mti' + 1)].ver = mti
    <3>1. Toggle(mti' + 1) = Toggle(mti)
      BY <1>3, <2>1
    <3> QED BY <1>1, <2>1, <3>1 DEF CoreInv, CurInv, Cur
  <2> QED BY <1>1, <1>3, <2>1, <2>2, <2>3 DEF MetaInv, CoreInv, CurInv, MetaDone
<1>8. MetaInv'
  BY <1>1, <1>5, <1>6, <1>7, MetaMoves
<1>9. ReaderInv'
  <2> SUFFICES ASSUME NEW r \in Reader
               PROVE  ReaderOK(r)'
    BY DEF ReaderInv
  <2>1. view[r].tree \in Tree /\ view[r].ver \in Txn /\ rid[r] \in Int
    BY DEF IInv, TypeInv, TypeOK, Txn
  <2>2. ReaderOK(r) /\ (HasView(r)' <=> HasView(r))
    BY <1>2 DEF IInv, ReaderInv, HasView
  <2>3. HasView(r) => SnapshotOK(view[r].tree, view[r].ver)'
    BY <1>1, <1>2, <2>1, <2>2, FetchedOlder DEF Kept, ReaderOK
  <2>4. mti' \in Int /\ mti <= mti'
    <3>1. CASE Publish
      BY <1>3, <3>1 DEF Publish, IInv, TypeInv, Counters
    <3> QED BY <1>1, <1>3, <3>1, MetaMoves
  <2> QED BY <1>2, <1>3, <2>1, <2>2, <2>3, <2>4 DEF ReaderOK
<1>10. ScanInv'
  BY <1>2, ScanStep
<1> QED BY <1>1, <1>8, <1>9, <1>10 DEF IInv, CoreInv

-----------------------------------------------------------------------------
(* The theorems.                                                            *)

\* mdb_env_init_meta leaves two empty trees: nothing is read, owned or free.
LEMMA InitInv == Init => IInv
<1> SUFFICES ASSUME Init
             PROVE  IInv
  OBVIOUS
<1>1. TypeInv
  BY InitType, MVCCAssumption DEF TypeInv, Counters, Init
<1>2. Toggle(0) = 0 /\ Toggle(0 + 1) = 1
  BY DEF Toggle
<1>3. /\ Cur = [ver |-> 0, tree |-> NoTree, rec |-> NoRec]
      /\ CurLast = 1
      /\ \A i \in {0, 1} : metaDbs[i] = [ver |-> 0, tree |-> NoTree, rec |-> NoRec]
  BY <1>2 DEF Init, Cur, CurLast
<1>4. MetaInv
  <2>1. Held(NoTree, 0)
    BY DEF Held, NoTree
  <2>2. \A i \in {0, 1} : SnapshotOK(metaDbs[i].tree, metaDbs[i].ver)
    BY <1>3, <2>1 DEF SnapshotOK, Init
  <2> QED BY <1>2, <1>3, <2>2 DEF MetaInv, Init, MetaDone
<1>5. ReaderInv
  BY DEF ReaderInv, ReaderOK, HasView, Init
<1>6. RecInv
  BY <1>3, EmptyType DEF RecInv, Init, PreSave, NoRec
<1>7. PartInv /\ ImageInv /\ ReqInv /\ ScanInv
  BY DEF PartInv, ImageInv, ReqInv, ScanInv, Flushed, MetaDone, Init
<1>8. PageConservation
  <2>1. \A p \in Page : ~(p <= 1)
    BY DEF Page
  <2>2. Partition(NoTree, NoRec, 1)
    BY <2>1 DEF Partition, NoTree, NoRec
  <2> QED BY <1>3, <2>2 DEF PageConservation, Cur, CurLast
<1> QED BY <1>1, <1>4, <1>5, <1>6, <1>7, <1>8 DEF IInv

\* Every step preserves the invariant.
LEMMA NextInv ==
  ASSUME IInv, [Next]_vars
  PROVE  IInv'
<1>1. CASE UNCHANGED vars
  BY <1>1 DEF IInv, TypeInv, TypeOK, Counters, MetaInv, ReaderInv, ReaderOK,
     HasView, RecInv, PartInv, ImageInv, ReqInv, ScanInv, PageConservation,
     Partition, SnapshotOK, Held, Unsafe, Cur, CurLast, EffRec, SavedRec,
     vars, shared, reader, writer, alloc
<1>2. ASSUME NEW r \in Reader, ReaderStep(r)
      PROVE  IInv'
  BY <1>2, ReaderStepInv
<1>3. CASE WriterStep
  BY <1>3, WriterInv
<1> QED BY <1>1, <1>2, <1>3 DEF Next

\* The inductive invariant holds in every reachable state.
THEOREM Inductive == Spec => []IInv
<1>1. Init => IInv
  BY InitInv
<1>2. IInv /\ [Next]_vars => IInv'
  BY NextInv
<1> QED BY <1>1, <1>2, PTL DEF Spec

\* Whatever is held, and the tree whose meta page is being written, is in the
\* file.
LEMMA SnapshotImages ==
  ASSUME IInv, NEW t \in Tree, NEW v \in Txn, SnapshotOK(t, v)
  PROVE  Intact(t)
<1>1. CASE Held(t, v)
  BY <1>1 DEF Held, Intact
<1>2. CASE wpc \in MetaDone /\ t = wtree
  <2>1. wpc # "idle" /\ wpc \in Flushed
    BY <1>2 DEF MetaDone, Flushed
  <2> QED BY <1>2, <2>1 DEF IInv, ImageInv, Intact
<1> QED BY <1>1, <1>2 DEF SnapshotOK

\* Snapshot isolation: however many readers there are, however long they live
\* and however many transactions commit, abort or fail before their meta page
\* is written, the pages of a reader's snapshot keep their contents.
THEOREM SnapshotsStayIntact == Spec => []SnapshotIntact
<1>1. IInv => SnapshotIntact
  <2> SUFFICES ASSUME IInv, NEW r \in Reader, rpc[r] \in {"copied", "active"}
               PROVE  Intact(view[r].tree)
    BY DEF SnapshotIntact
  <2>1. view[r].tree \in Tree /\ view[r].ver \in Txn
    BY DEF IInv, TypeInv, TypeOK
  <2>2. SnapshotOK(view[r].tree, view[r].ver)
    BY DEF IInv, ReaderInv, ReaderOK, HasView
  <2> QED BY <2>1, <2>2, SnapshotImages
<1> QED BY <1>1, Inductive, PTL

\* Both meta pages describe trees that are whole in the file, at every moment
\* (mdb_page_flush before mdb_env_write_meta, reuse only behind mdb_find_oldest).
THEOREM MetasStayIntact == Spec => []MetasIntact
<1>1. IInv => MetasIntact
  <2> SUFFICES ASSUME IInv, NEW i \in {0, 1}
               PROVE  Intact(metaDbs[i].tree)
    BY DEF MetasIntact
  <2>1. metaDbs[i].tree \in Tree /\ metaDbs[i].ver \in Txn
    BY DEF IInv, TypeInv, TypeOK, Dbs
  <2>2. SnapshotOK(metaDbs[i].tree, metaDbs[i].ver)
    BY DEF IInv, MetaInv
  <2> QED BY <2>1, <2>2, SnapshotImages
<1> QED BY <1>1, Inductive, PTL

\* No page is ever lost or owned twice in a committed version (mdb_audit).
THEOREM PagesConserved == Spec => []PageConservation
<1>1. IInv => PageConservation
  BY DEF IInv
<1> QED BY <1>1, Inductive, PTL

\* A reader's snapshot is never older than the id it announced in its slot.
THEOREM SnapshotsAreFresh == Spec => []SnapshotFresh
<1>1. IInv => SnapshotFresh
  BY DEF IInv, ReaderInv, ReaderOK, HasView, SnapshotFresh
<1> QED BY <1>1, Inductive, PTL

=============================================================================
