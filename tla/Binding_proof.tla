---------------------------- MODULE Binding_proof ----------------------------
(***************************************************************************)
(* Proofs about Binding, for any number of objects, names and handles.     *)
(***************************************************************************)
EXTENDS Binding, TLAPS

\* A Dbi object that was made has a name.
Named == \A d \in DbiObj : dbi[d].state # None <=> dbi[d].name # None

\* Only readers are reset; only the holder of wmutex has changed databases; it
\* is not held when the Env is not open.
LockInv ==
  /\ WriteLock /\ SlotProtects
  /\ \A t \in TxnObj : txn[t].ptr = "reset" => txn[t].ro
  /\ dirty # {} => wlock \in TxnObj
  /\ env # "open" => wlock = None
  /\ Named

\* Which objects have a handle, and what the handles of the table are.
Has(d) == dbi[d].state \in {"open", "dropped"}
HandleInv ==
  /\ \A d \in DbiObj : Has(d) <=> dbi[d].needsClose
  /\ env # "open" => \A d \in DbiObj : ~Has(d)
  /\ \A d, x \in DbiObj : dbi[d].name = dbi[x].name => d = x \/ dbi[d].name = None
  /\ \A s \in Slot : dbxs[s] # None => s \in valid /\ s < numdbs
  /\ \A d \in DbiObj : dbi[d].state = "open" => dbxs[dbi[d].slot] = dbi[d].name
  /\ \A d \in DbiObj : dbi[d].state = "dropped" => dbxs[dbi[d].slot] = None

\* What a write transaction has changed belongs to the name of its handle.
DraftInv ==
  /\ \A s \in dirty : dbxs[s] # None /\ draft[s] \subseteq {dbxs[s]}
  /\ PutsLand

TLInv == TypeOK /\ LockInv
THInv == "handles" \in Care => HandleInv /\ DraftInv

-----------------------------------------------------------------------------
USE BindingAssumption

\* mdb_dbi_open takes a handle of the table that has no name, or the next one.
LEMMA HandleFree ==
  ASSUME TypeOK, NEW s \in 2 .. numdbs, HasRoom(s)
  PROVE  s \in Slot /\ (s = numdbs \/ dbxs[s] = None)
BY DEF TypeOK, HasRoom, FreeHandle, Free, Slot

-----------------------------------------------------------------------------
(* Types and locks.                                                         *)

LEMMA EmptyTable ==
  /\ [s \in Slot |-> None] \in [Slot -> Name \cup {None}]
  /\ {} \subseteq Slot
  /\ 2 \in 2 .. MaxDbs + 2
<1>1. MaxDbs \in Nat BY DEF BindingAssumption
<1>2. 2 \in 2 .. MaxDbs + 2 BY <1>1
<1>3. [s \in Slot |-> None] \in [Slot -> Name \cup {None}] OBVIOUS
<1> QED BY <1>2, <1>3

LEMMA EndWriteType ==
  ASSUME TypeOK, NEW t \in TxnObj, EndWrite(t)
  PROVE  /\ cursor' \in [CursorObj -> CursorType]
         /\ wlock' = None /\ draft' \in [Slot -> SUBSET Name] /\ dirty' = {}
BY DEF TypeOK, EndWrite, CursorType, NoDraft

LEMMA ReleaseType ==
  ASSUME TypeOK, NEW t \in TxnObj, ReleaseSlot(t)
  PROVE  reader' \in TxnObj \cup {None}
BY DEF TypeOK, ReleaseSlot

LEMMA EndedType ==
  ASSUME TypeOK, NEW t \in TxnObj, NEW p \in {"NULL", "reset"}
  PROVE  Ended(t, p) \in [TxnObj -> TxnType]
BY DEF TypeOK, Ended, TxnType

LEMMA AbortType ==
  ASSUME TypeOK, NEW t \in TxnObj, AbortNative(t)
  PROVE  /\ cursor' \in [CursorObj -> CursorType] /\ reader' \in TxnObj \cup {None}
         /\ wlock' \in TxnObj \cup {None, Leaked} /\ draft' \in [Slot -> SUBSET Name]
         /\ dirty' \subseteq Slot
BY EndWriteType, ReleaseType DEF AbortNative, TypeOK, write

LEMMA TypeStep ==
  ASSUME TypeOK, Named, [Next]_vars
  PROVE  TypeOK'
<1> USE DEF TypeOK, data, table, write
<1>1. CASE EnvCtor BY <1>1 DEF EnvCtor
<1>2. CASE EnvOpen
  <2>1. env' \in {None, "created", "open", "closed"} BY <1>2 DEF EnvOpen
  <2> QED BY <1>2, <2>1, EmptyTable DEF EnvOpen
<1>3. CASE EnvClose BY <1>3 DEF EnvClose
<1>4. CASE EnvFinalize BY <1>4 DEF EnvFinalize
<1>5. CASE BeginFails
  <2>1. /\ NoTxn \in TxnType /\ NoDbi \in DbiType /\ NoCursor \in CursorType
        /\ NoDraft \in [Slot -> SUBSET Name]
    BY DEF NoTxn, NoDbi, NoCursor, NoDraft, TxnType, DbiType, CursorType, Slot
  <2>2. /\ exists' \subseteq Name /\ holds' \in [Name -> SUBSET Name]
        /\ fatal' \in BOOLEAN /\ env' \in {None, "created", "open", "closed"}
        /\ wlock' \in TxnObj \cup {None, Leaked} /\ reader' \in TxnObj \cup {None}
        /\ dirty' \subseteq Slot
    BY <1>5 DEF BeginFails
  <2>3. /\ txn' \in [TxnObj -> TxnType] /\ dbi' \in [DbiObj -> DbiType]
        /\ cursor' \in [CursorObj -> CursorType] /\ draft' \in [Slot -> SUBSET Name]
    BY <1>5, <2>1 DEF BeginFails
  <2> QED BY <1>5, <2>2, <2>3, EmptyTable DEF BeginFails
<1>6. ASSUME NEW t \in TxnObj, TxnCtor(t) PROVE TypeOK'
  <2>1. NoDraft \in [Slot -> SUBSET Name] BY DEF NoDraft
  <2>2. txn' \in [TxnObj -> TxnType] BY <1>6 DEF TxnCtor, Known, TxnType
  <2> QED BY <1>6, <2>1, <2>2 DEF TxnCtor, BeginRead, BeginWrite
<1>7. ASSUME NEW t \in TxnObj, TxnRenew(t) PROVE TypeOK'
  <2>1. NoDraft \in [Slot -> SUBSET Name] BY DEF NoDraft
  <2>2. txn' \in [TxnObj -> TxnType] BY <1>7 DEF TxnRenew, Known, TxnType
  <2> QED BY <1>7, <2>1, <2>2 DEF TxnRenew, BeginRead, BeginWrite
<1>8. ASSUME NEW t \in TxnObj, TxnReset(t) PROVE TypeOK'
  BY <1>8, EndedType, ReleaseType DEF TxnReset
<1>9. ASSUME NEW t \in TxnObj, TxnAbort(t) PROVE TypeOK'
  BY <1>9, EndedType, AbortType DEF TxnAbort
<1>10. ASSUME NEW t \in TxnObj, TxnFinalize(t) PROVE TypeOK'
  <2>1. NoTxn \in TxnType BY DEF NoTxn, TxnType
  <2> QED BY <1>10, <2>1, AbortType DEF TxnFinalize
<1>11. ASSUME NEW t \in TxnObj, TxnCommit(t) PROVE TypeOK'
  <2>1. ASSUME Stored PROVE exists' \subseteq Name /\ holds' \in [Name -> SUBSET Name] /\ fatal' = fatal
    BY <2>1 DEF Stored
  <2>2. ASSUME NotStored PROVE UNCHANGED data /\ fatal' \in BOOLEAN
    BY <2>2 DEF NotStored
  <2> QED BY <1>11, <2>1, <2>2, EndedType, AbortType, EndWriteType DEF TxnCommit
<1>12. ASSUME NEW t \in TxnObj, NEW d \in DbiObj, TxnPut(t, d) PROVE TypeOK'
  <2>1. dbi[d].state # None BY <1>12 DEF TxnPut, None
  <2>2. dbi[d].name \in Name BY <2>1 DEF DbiType, Named
  <2>3. dbi[d].slot \in Slot BY DEF DbiType
  <2>4. dbxs[dbi[d].slot] \in Name BY <1>12, <2>3 DEF TxnPut
  <2>5. draft' \in [Slot -> SUBSET Name] BY <1>12, <2>2, <2>3, <2>4 DEF TxnPut
  <2> QED BY <1>12, <2>3, <2>5 DEF TxnPut
<1>13. ASSUME NEW d \in DbiObj, DbiClose(d) PROVE TypeOK'
  <2>1. [dbi[d] EXCEPT !.state = "closed", !.needsClose = FALSE] \in DbiType
    BY DEF DbiType
  <2>2. dbi' = [dbi EXCEPT ![d] = [dbi[d] EXCEPT !.state = "closed", !.needsClose = FALSE]]
    BY <1>13 DEF DbiClose
  <2>3. dbi' \in [DbiObj -> DbiType] BY <2>1, <2>2
  <2> QED BY <1>13, <2>3 DEF DbiClose, Closed
<1>14. ASSUME NEW d \in DbiObj, DbiFinalize(d) PROVE TypeOK'
  <2>1. NoDbi \in DbiType BY DEF NoDbi, DbiType, Slot
  <2> QED BY <1>14, <2>1 DEF DbiFinalize, Closed
<1>15. ASSUME NEW d \in DbiObj, DbiDelete(d) PROVE TypeOK'
  <2>1. dbi' \in [DbiObj -> DbiType] BY <1>15 DEF DbiDelete, DbiType
  <2> QED BY <1>15, <2>1 DEF DbiDelete, Closed
<1>16. ASSUME NEW d \in DbiObj, DbiEmpty(d) PROVE TypeOK'
  BY <1>16 DEF DbiEmpty
<1>17. ASSUME NEW d \in DbiObj, DropFails(d) PROVE TypeOK'
  BY <1>17 DEF DropFails
<1>18. ASSUME NEW d \in DbiObj, NEW n \in Name, DbiCtor(d, n) PROVE TypeOK'
  <2>1. CASE OldHandle(d, n)
    <3>1. dbi' \in [DbiObj -> DbiType]
      BY <2>1 DEF OldHandle, HandlesOf, Wrapped, Slot, DbiType
    <3> QED BY <1>18, <2>1, <3>1 DEF DbiCtor, OldHandle
  <2>2. CASE NewHandle(d, n)
    <3>1. PICK s \in 2 .. numdbs :
             /\ HasRoom(s) /\ Wrapped(d, n, s)
             /\ dbxs' = [dbxs EXCEPT ![s] = n] /\ valid' = valid \cup {s}
             /\ numdbs' = IF s = numdbs THEN numdbs + 1 ELSE numdbs
      BY <2>2 DEF NewHandle
    <3>2. s \in Slot BY <3>1, HandleFree
    <3>3. dbi' \in [DbiObj -> DbiType] BY <3>1, <3>2 DEF Wrapped, DbiType
    <3>4. numdbs' \in 2 .. MaxDbs + 2 BY <3>1 DEF HasRoom
    <3> QED BY <1>18, <2>2, <3>1, <3>2, <3>3, <3>4 DEF DbiCtor, NewHandle
  <2> QED BY <1>18, <2>1, <2>2 DEF DbiCtor
<1>19. ASSUME NEW d \in DbiObj, NEW n \in Name, CreateFails(d, n) PROVE TypeOK'
  BY <1>19, HandleFree DEF CreateFails
<1>20. ASSUME NEW c \in CursorObj, CursorClose(c) PROVE TypeOK'
  <2>1. [NoCursor EXCEPT !.ptr = "NULL"] \in CursorType BY DEF NoCursor, CursorType
  <2> QED BY <1>20, <2>1 DEF CursorClose
<1>21. ASSUME NEW c \in CursorObj, CursorFinalize(c) PROVE TypeOK'
  <2>1. NoCursor \in CursorType BY DEF NoCursor, CursorType
  <2> QED BY <1>21, <2>1 DEF CursorFinalize
<1>22. ASSUME NEW c \in CursorObj, NEW t \in TxnObj, NEW d \in DbiObj, CursorCtor(c, t, d)
       PROVE TypeOK'
  <2>1. cursor' \in [CursorObj -> CursorType] BY <1>22 DEF CursorCtor, CursorType
  <2> QED BY <1>22, <2>1 DEF CursorCtor
<1>23. CASE UNCHANGED vars BY <1>23 DEF vars
<1> QED
  BY <1>1, <1>2, <1>3, <1>4, <1>5, <1>6, <1>7, <1>8, <1>9, <1>10, <1>11, <1>12, <1>13,
     <1>14, <1>15, <1>16, <1>17, <1>18, <1>19, <1>20, <1>21, <1>22, <1>23 DEF Next

LEMMA LockStep ==
  ASSUME TypeOK, LockInv, [Next]_vars
  PROVE  LockInv'
<1> USE DEF TypeOK, LockInv, WriteLock, SlotProtects, data, table, write
<1>1. CASE EnvCtor BY <1>1 DEF EnvCtor, Named, None
<1>2. CASE EnvOpen BY <1>2 DEF EnvOpen, Named
<1>3. CASE EnvClose BY <1>3 DEF EnvClose, NothingOpen, Named
<1>4. CASE EnvFinalize BY <1>4 DEF EnvFinalize, NothingOpen, Named
<1>5. CASE BeginFails BY <1>5 DEF BeginFails, NoTxn, NoDbi, Named, None
<1>6. ASSUME NEW t \in TxnObj, TxnCtor(t) PROVE LockInv'
  BY <1>6 DEF TxnCtor, BeginRead, BeginWrite, Named, None, TxnType
<1>7. ASSUME NEW t \in TxnObj, TxnRenew(t) PROVE LockInv'
  BY <1>7 DEF TxnRenew, BeginRead, BeginWrite, Named, TxnType
<1>8. ASSUME NEW t \in TxnObj, TxnReset(t) PROVE LockInv'
  BY <1>8 DEF TxnReset, ReleaseSlot, Ended, Named, TxnType
<1>9. ASSUME NEW t \in TxnObj, TxnAbort(t) PROVE LockInv'
  BY <1>9 DEF TxnAbort, AbortNative, EndWrite, ReleaseSlot, Ended, Named, TxnType
<1>10. ASSUME NEW t \in TxnObj, TxnFinalize(t) PROVE LockInv'
  BY <1>10 DEF TxnFinalize, AbortNative, EndWrite, ReleaseSlot, NoTxn, Named, None, TxnType
<1>11. ASSUME NEW t \in TxnObj, TxnCommit(t) PROVE LockInv'
  BY <1>11 DEF TxnCommit, AbortNative, EndWrite, ReleaseSlot, Ended, Named, TxnType
<1>12. ASSUME NEW t \in TxnObj, NEW d \in DbiObj, TxnPut(t, d) PROVE LockInv'
  BY <1>12 DEF TxnPut, Named
<1>13. ASSUME NEW d \in DbiObj, DbiClose(d) PROVE LockInv'
  BY <1>13 DEF DbiClose, Closed, Named, DbiType, None
<1>14. ASSUME NEW d \in DbiObj, DbiFinalize(d) PROVE LockInv'
  BY <1>14 DEF DbiFinalize, Closed, Named, NoDbi, DbiType
<1>15. ASSUME NEW d \in DbiObj, DbiDelete(d) PROVE LockInv'
  BY <1>15 DEF DbiDelete, MayDrop, Closed, Named, DbiType, None
<1>16. ASSUME NEW d \in DbiObj, DbiEmpty(d) PROVE LockInv'
  BY <1>16 DEF DbiEmpty, Named
<1>17. ASSUME NEW d \in DbiObj, DropFails(d) PROVE LockInv'
  BY <1>17 DEF DropFails, MayDrop, Named
<1>18. ASSUME NEW d \in DbiObj, NEW n \in Name, DbiCtor(d, n) PROVE LockInv'
  <2>1. PICK s : Wrapped(d, n, s) BY <1>18 DEF DbiCtor, OldHandle, NewHandle
  <2>2. Named' BY <2>1 DEF Wrapped, Named, None, DbiType
  <2> QED BY <1>18, <2>2 DEF DbiCtor
<1>19. ASSUME NEW d \in DbiObj, NEW n \in Name, CreateFails(d, n) PROVE LockInv'
  BY <1>19 DEF CreateFails, Named
<1>20. ASSUME NEW c \in CursorObj, CursorClose(c) PROVE LockInv'
  BY <1>20 DEF CursorClose, Named
<1>21. ASSUME NEW c \in CursorObj, CursorFinalize(c) PROVE LockInv'
  BY <1>21 DEF CursorFinalize, Named
<1>22. ASSUME NEW c \in CursorObj, NEW t \in TxnObj, NEW d \in DbiObj, CursorCtor(c, t, d)
       PROVE LockInv'
  BY <1>22 DEF CursorCtor, Named
<1>23. CASE UNCHANGED vars BY <1>23 DEF vars, Named
<1> QED
  BY <1>1, <1>2, <1>3, <1>4, <1>5, <1>6, <1>7, <1>8, <1>9, <1>10, <1>11, <1>12, <1>13,
     <1>14, <1>15, <1>16, <1>17, <1>18, <1>19, <1>20, <1>21, <1>22, <1>23 DEF Next

-----------------------------------------------------------------------------
(* Handles.                                                                 *)

\* No step but those of Env and Dbi changes a handle.
LEMMA TxnLeavesHandles ==
  ASSUME NEW t \in TxnObj,
         \/ TxnCtor(t) \/ TxnRenew(t) \/ TxnReset(t) \/ TxnAbort(t)
         \/ TxnFinalize(t) \/ TxnCommit(t) \/ \E d \in DbiObj : TxnPut(t, d)
  PROVE  UNCHANGED <<dbxs, valid, numdbs, dbi, env>>
BY DEF TxnCtor, TxnRenew, TxnReset, TxnAbort, TxnFinalize, TxnCommit, TxnPut, table

LEMMA CursorLeavesHandles ==
  ASSUME NEW c \in CursorObj,
         \/ CursorClose(c) \/ CursorFinalize(c)
         \/ \E t \in TxnObj, d \in DbiObj : CursorCtor(c, t, d)
  PROVE  UNCHANGED <<dbxs, valid, numdbs, dbi, env, data, draft, dirty>>
BY DEF CursorClose, CursorFinalize, CursorCtor, table, write

\* While no transaction is live nothing is changed, and wmutex is free or lost.
LEMMA QuietClean ==
  ASSUME LockInv, Quiet
  PROVE  dirty = {}
BY DEF LockInv, WriteLock, Quiet

LEMMA HandleStep ==
  ASSUME "handles" \in Care, TypeOK, LockInv, HandleInv, [Next]_vars
  PROVE  HandleInv'
<1>0. \A d \in DbiObj : dbi[d].slot \in Slot BY DEF TypeOK, DbiType
<1>1. ASSUME UNCHANGED <<dbxs, valid, numdbs, dbi, env>> PROVE HandleInv'
  BY <1>1 DEF HandleInv, Has
<1>2. CASE EnvCtor BY <1>2 DEF EnvCtor, HandleInv, Has, table, None
<1>3. CASE EnvOpen
  <2>1. \A d \in DbiObj : ~Has(d) BY <1>3 DEF EnvOpen, HandleInv
  <2>2. dbxs' = [x \in Slot |-> None] /\ dbi' = dbi BY <1>3 DEF EnvOpen
  <2> QED BY <2>1, <2>2 DEF HandleInv, Has
<1>4. CASE EnvClose \/ EnvFinalize
  <2>1. \A d \in DbiObj : ~Has(d)
    BY <1>4 DEF EnvClose, EnvFinalize, NothingOpen, HandleInv
  <2>2. UNCHANGED <<dbxs, valid, numdbs, dbi>>
    BY <1>4 DEF EnvClose, EnvFinalize, table
  <2> QED BY <2>1, <2>2 DEF HandleInv, Has
<1>5. CASE BeginFails
  <2>1. dbxs' = [x \in Slot |-> None] /\ dbi' = [d \in DbiObj |-> NoDbi]
    BY <1>5 DEF BeginFails
  <2> QED BY <2>1 DEF HandleInv, Has, NoDbi, None
<1>6. ASSUME NEW d \in DbiObj, DbiClose(d) PROVE HandleInv'
  <2>1. Has(d) BY <1>6 DEF DbiClose, TypeOK, DbiType, Has
  <2>2. /\ dbxs' = [dbxs EXCEPT ![dbi[d].slot] = None]
        /\ valid' = valid \ {dbi[d].slot} /\ UNCHANGED <<numdbs, env>>
        /\ dbi' = [dbi EXCEPT ![d].state = "closed", ![d].needsClose = FALSE]
    BY <1>6 DEF DbiClose, Closed
  <2>3. \A x \in DbiObj \ {d} : dbi'[x] = dbi[x] BY <2>2 DEF TypeOK
  <2>4. /\ dbi'[d].state = "closed" /\ ~dbi'[d].needsClose
        /\ dbi'[d].name = dbi[d].name
    BY <2>2 DEF TypeOK, DbiType
  <2>5. \A x \in DbiObj \ {d} : dbi[x].state = "open" => dbi[x].slot # dbi[d].slot
    BY <2>1, <1>0 DEF HandleInv, Has, LockInv, Named, None
  <2> QED BY <1>0, <2>2, <2>3, <2>4, <2>5 DEF HandleInv, Has, TypeOK
<1>7. ASSUME NEW d \in DbiObj, DbiFinalize(d) PROVE HandleInv'
  <2>1. dbi' = [dbi EXCEPT ![d] = NoDbi] /\ env' = env BY <1>7 DEF DbiFinalize
  <2>2. dbi'[d] = NoDbi /\ \A x \in DbiObj \ {d} : dbi'[x] = dbi[x]
    BY <2>1 DEF TypeOK
  <2>3. CASE dbi[d].needsClose
    <3>1. /\ dbxs' = [dbxs EXCEPT ![dbi[d].slot] = None]
          /\ valid' = valid \ {dbi[d].slot} /\ UNCHANGED numdbs
      BY <1>7, <2>3 DEF DbiFinalize, Closed
    <3>2. Has(d) BY <2>3 DEF HandleInv
    <3>3. \A x \in DbiObj \ {d} : dbi[x].state = "open" => dbi[x].slot # dbi[d].slot
      BY <3>2, <1>0 DEF HandleInv, Has, LockInv, Named, None
    <3> QED BY <1>0, <2>1, <2>2, <3>1, <3>3 DEF HandleInv, Has, TypeOK, NoDbi, None
  <2>4. CASE ~dbi[d].needsClose
    <3>1. UNCHANGED table BY <1>7, <2>4 DEF DbiFinalize
    <3> QED BY <2>1, <2>2, <3>1 DEF table, HandleInv, Has, NoDbi, None
  <2> QED BY <2>3, <2>4
<1>8. ASSUME NEW d \in DbiObj, DbiDelete(d) PROVE HandleInv'
  <2>1. dbi[d].state = "open" /\ env = "open" BY <1>8 DEF DbiDelete, MayDrop
  <2>2. /\ dbxs' = [dbxs EXCEPT ![dbi[d].slot] = None]
        /\ valid' = valid \ {dbi[d].slot} /\ UNCHANGED <<numdbs, env>>
        /\ dbi' = [dbi EXCEPT ![d].state = "dropped"]
    BY <1>8 DEF DbiDelete, Closed
  <2>3. \A x \in DbiObj \ {d} : dbi'[x] = dbi[x] BY <2>2 DEF TypeOK
  <2>4. /\ dbi'[d].state = "dropped" /\ dbi'[d].needsClose = dbi[d].needsClose
        /\ dbi'[d].name = dbi[d].name /\ dbi'[d].slot = dbi[d].slot
    BY <2>2 DEF TypeOK, DbiType
  <2>5. \A x \in DbiObj \ {d} : dbi[x].state = "open" => dbi[x].slot # dbi[d].slot
    BY <2>1, <1>0 DEF HandleInv, Has, LockInv, Named, None
  <2> QED BY <1>0, <2>1, <2>2, <2>3, <2>4, <2>5 DEF HandleInv, Has, TypeOK
<1>9. ASSUME NEW d \in DbiObj, NEW n \in Name, DbiCtor(d, n) PROVE HandleInv'
  <2>1. /\ env = "open" /\ env' = env
        /\ \A x \in DbiObj : dbi[x].name # n /\ dbi[x].state # "dropped"
    BY <1>9 DEF DbiCtor, MayOpen
  <2>2. CASE OldHandle(d, n)
    <3>1. PICK s \in HandlesOf(n) : Wrapped(d, n, s) BY <2>2 DEF OldHandle
    <3>2. dbi'[d] = [state |-> "open", name |-> n, slot |-> s, needsClose |-> TRUE]
          /\ \A x \in DbiObj \ {d} : dbi'[x] = dbi[x]
      BY <3>1 DEF Wrapped, TypeOK
    <3>3. dbxs[s] = n BY <3>1 DEF HandlesOf
    <3> QED BY <2>1, <2>2, <3>2, <3>3 DEF OldHandle, table, HandleInv, Has
  <2>3. CASE NewHandle(d, n)
    <3>1. PICK s \in 2 .. numdbs :
             /\ HasRoom(s) /\ Wrapped(d, n, s)
             /\ dbxs' = [dbxs EXCEPT ![s] = n] /\ valid' = valid \cup {s}
             /\ numdbs' = IF s = numdbs THEN numdbs + 1 ELSE numdbs
      BY <2>3 DEF NewHandle
    <3>2. s \in Slot /\ dbxs[s] = None BY <3>1, HandleFree DEF HandleInv
    <3>3. dbi'[d] = [state |-> "open", name |-> n, slot |-> s, needsClose |-> TRUE]
          /\ \A x \in DbiObj \ {d} : dbi'[x] = dbi[x]
      BY <3>1 DEF Wrapped, TypeOK
    <3>4. \A x \in DbiObj \ {d} : dbi[x].state = "open" => dbi[x].slot # s
      BY <3>2 DEF HandleInv, Has, LockInv, Named, None
    <3>5. dbxs'[s] = n /\ \A x \in Slot \ {s} : dbxs'[x] = dbxs[x]
      BY <3>1, <3>2 DEF TypeOK
    <3>6. \A x \in Slot : dbxs'[x] # None => x \in valid' /\ x < numdbs'
      <4>1. numdbs \in Int /\ s \in Int /\ s <= numdbs BY DEF TypeOK
      <4> QED BY <3>1, <3>5, <4>1 DEF HandleInv, Slot
    <3> QED BY <1>0, <2>1, <3>3, <3>4, <3>5, <3>6 DEF HandleInv, Has
  <2> QED BY <1>9, <2>2, <2>3 DEF DbiCtor
<1>10. ASSUME NEW d \in DbiObj, NEW n \in Name, CreateFails(d, n) PROVE HandleInv'
  <2>1. PICK s \in 2 .. numdbs :
          HasRoom(s) /\ dbxs' = [dbxs EXCEPT ![s] = None] /\ valid' = valid \ {s}
    BY <1>10 DEF CreateFails
  <2>2. s \in Slot /\ dbxs[s] = None BY <2>1, HandleFree DEF HandleInv
  <2>3. dbxs' = dbxs /\ UNCHANGED <<numdbs, dbi, env>>
    BY <1>10, <2>1, <2>2 DEF CreateFails, TypeOK
  <2> QED BY <2>1, <2>2, <2>3 DEF HandleInv, Has
<1>11. ASSUME NEW d \in DbiObj, DbiEmpty(d) \/ DropFails(d) PROVE HandleInv'
  BY <1>1, <1>11 DEF DbiEmpty, DropFails, table
<1>12. CASE UNCHANGED vars BY <1>1, <1>12 DEF vars, table
<1> QED
  BY <1>1, <1>2, <1>3, <1>4, <1>5, <1>6, <1>7, <1>8, <1>9, <1>10, <1>11, <1>12,
     TxnLeavesHandles, CursorLeavesHandles DEF Next

\* A drop takes records away.
LEMMA EmptiedLands ==
  ASSUME TypeOK, PutsLand, NEW x, holds' = [holds EXCEPT ![x] = {}]
  PROVE  PutsLand'
<1>1. ASSUME NEW n \in Name PROVE holds'[n] \subseteq {n}
  <2>1. holds'[n] = {} \/ holds'[n] = holds[n] BY DEF TypeOK
  <2> QED BY <2>1 DEF PutsLand
<1> QED BY <1>1 DEF PutsLand

\* What is put stays with the name of the handle, through to the commit.
LEMMA DraftStep ==
  ASSUME "handles" \in Care, TypeOK, LockInv, HandleInv, DraftInv, [Next]_vars
  PROVE  DraftInv'
<1>1. ASSUME UNCHANGED <<dbxs, holds>>, dirty' = {} \/ UNCHANGED <<draft, dirty>>
      PROVE  DraftInv'
  BY <1>1 DEF DraftInv, PutsLand
<1>2. ASSUME dirty' = {}, PutsLand' PROVE DraftInv'
  BY <1>2 DEF DraftInv
<1>3. CASE EnvCtor \/ EnvClose \/ EnvFinalize
  BY <1>1, <1>3 DEF EnvCtor, EnvClose, EnvFinalize, data, table, write
<1>4. CASE EnvOpen
  <2>1. dirty = {}
    BY <1>4 DEF EnvOpen, LockInv, None, BindingAssumption
  <2> QED BY <1>2, <1>4, <2>1 DEF EnvOpen, data, write, DraftInv, PutsLand
<1>5. CASE BeginFails
  BY <1>2, <1>5 DEF BeginFails, data, DraftInv, PutsLand
<1>6. ASSUME NEW t \in TxnObj, TxnCtor(t) \/ TxnRenew(t) PROVE DraftInv'
  BY <1>1, <1>6 DEF TxnCtor, TxnRenew, BeginRead, BeginWrite, data, table, write
<1>7. ASSUME NEW t \in TxnObj, TxnReset(t) \/ TxnAbort(t) \/ TxnFinalize(t)
      PROVE DraftInv'
  BY <1>1, <1>7
  DEF TxnReset, TxnAbort, TxnFinalize, AbortNative, EndWrite, data, table, write
<1>8. ASSUME NEW t \in TxnObj, TxnCommit(t) PROVE DraftInv'
  <2>1. CASE txn[t].ro
    BY <1>1, <1>8, <2>1 DEF TxnCommit, AbortNative, data, table, write
  <2>2. CASE ~txn[t].ro /\ Stored
    <3>1. ASSUME NEW n \in Name PROVE holds'[n] \subseteq {n}
      <4>1. CASE \E s \in dirty : dbxs[s] = n
        <5>1. holds'[n] = draft[CHOOSE s \in dirty : dbxs[s] = n]
          BY <2>2, <4>1 DEF Stored
        <5>2. PICK h \in dirty : h = (CHOOSE s \in dirty : dbxs[s] = n) /\ dbxs[h] = n
          BY <4>1
        <5> QED BY <5>1, <5>2 DEF DraftInv
      <4>2. CASE ~\E s \in dirty : dbxs[s] = n
        BY <2>2, <4>2 DEF Stored, DraftInv, PutsLand
      <4> QED BY <4>1, <4>2
    <3> QED BY <1>2, <1>8, <2>2, <3>1 DEF TxnCommit, EndWrite, PutsLand
  <2>3. CASE ~txn[t].ro /\ NotStored
    BY <1>1, <1>8, <2>3 DEF TxnCommit, NotStored, EndWrite, data, table
  <2> QED BY <1>8, <2>1, <2>2, <2>3 DEF TxnCommit
<1>9. ASSUME NEW t \in TxnObj, NEW d \in DbiObj, TxnPut(t, d) PROVE DraftInv'
  <2> DEFINE s == dbi[d].slot
  <2>1. s \in Slot BY DEF TypeOK, DbiType
  <2>2. dbxs[s] = dbi[d].name /\ dbxs[s] # None /\ dbxs[s] \in Name
    BY <1>9, <2>1 DEF TxnPut, HandleInv, TypeOK
  <2>3. /\ draft'[s] = (IF s \in dirty THEN draft[s] ELSE holds[dbxs[s]])
                       \cup {dbi[d].name}
        /\ \A x \in Slot \ {s} : draft'[x] = draft[x]
        /\ dirty' = dirty \cup {s} /\ UNCHANGED <<dbxs, holds>>
    BY <1>9, <2>1 DEF TxnPut, TypeOK, data, table
  <2>4. draft'[s] \subseteq {dbxs[s]} BY <2>2, <2>3 DEF DraftInv, PutsLand
  <2> HIDE DEF s
  <2> QED BY <2>2, <2>3, <2>4 DEF DraftInv, PutsLand, TypeOK
<1>10. ASSUME NEW d \in DbiObj, DbiClose(d) PROVE DraftInv'
  <2>1. dirty = {} BY <1>10, QuietClean DEF DbiClose
  <2> QED BY <1>2, <1>10, <2>1 DEF DbiClose, data, write, DraftInv, PutsLand
<1>11. ASSUME NEW d \in DbiObj, DbiFinalize(d) PROVE DraftInv'
  <2>1. dirty = {} BY <1>11, QuietClean DEF DbiFinalize
  <2> QED BY <1>2, <1>11, <2>1 DEF DbiFinalize, data, write, DraftInv, PutsLand
<1>12. ASSUME NEW d \in DbiObj, DbiDelete(d) PROVE DraftInv'
  <2>1. dirty = {} BY <1>12, QuietClean DEF DbiDelete, MayDrop
  <2>2. holds' = holds \/ holds' = [holds EXCEPT ![dbxs[dbi[d].slot]] = {}]
    BY <1>12 DEF DbiDelete, data
  <2>3. PutsLand' BY <2>2, EmptiedLands DEF DraftInv, PutsLand
  <2> QED BY <1>2, <1>12, <2>1, <2>3 DEF DbiDelete, write
<1>13. ASSUME NEW d \in DbiObj, DbiEmpty(d) PROVE DraftInv'
  <2>1. dirty = {} BY <1>13, QuietClean DEF DbiEmpty, MayDrop
  <2>2. holds' = holds \/ holds' = [holds EXCEPT ![dbxs[dbi[d].slot]] = {}]
    BY <1>13 DEF DbiEmpty
  <2>3. PutsLand' BY <2>2, EmptiedLands DEF DraftInv, PutsLand
  <2> QED BY <1>2, <1>13, <2>1, <2>3 DEF DbiEmpty, write
<1>14. ASSUME NEW d \in DbiObj, DropFails(d) PROVE DraftInv'
  BY <1>1, <1>14 DEF DropFails, data, table
<1>15. ASSUME NEW d \in DbiObj, NEW n \in Name, DbiCtor(d, n) \/ CreateFails(d, n)
       PROVE DraftInv'
  <2>1. dirty = {}
    BY <1>15 DEF DbiCtor, CreateFails, MayOpen, LockInv, BindingAssumption
  <2> QED BY <1>2, <1>15, <2>1 DEF DbiCtor, CreateFails, data, write, DraftInv, PutsLand
<1>16. ASSUME NEW c \in CursorObj,
              \/ CursorClose(c) \/ CursorFinalize(c)
              \/ \E t \in TxnObj, d \in DbiObj : CursorCtor(c, t, d)
       PROVE  DraftInv'
  BY <1>1, <1>16, CursorLeavesHandles DEF data
<1>17. CASE UNCHANGED vars BY <1>1, <1>17 DEF vars, data, table, write
<1> QED
  BY <1>3, <1>4, <1>5, <1>6, <1>7, <1>8, <1>9, <1>10, <1>11, <1>12, <1>13, <1>14,
     <1>15, <1>16, <1>17 DEF Next

-----------------------------------------------------------------------------
(* Cursors.                                                                 *)

\* A transaction that ends takes its cursors with it: it is the one with wmutex.
LEMMA CursorsEnd ==
  ASSUME TypeOK, LockInv, CursorsOwned, NEW t \in TxnObj, EndWrite(t),
         txn[t].ptr \in {"live", "reset"}, ~txn[t].ro
  PROVE  CursorsOwned'
<1>1. wlock = t /\ t # None BY DEF LockInv, WriteLock, BindingAssumption
<1>2. ASSUME NEW c \in CursorObj, cursor'[c].ptr = "set"
      PROVE  IF cursor'[c].freed THEN cursor'[c].txn # None ELSE cursor'[c].txn \in {None, wlock'}
  <2>1. CASE c \in CursorsOf(t)
    <3>1. cursor'[c] = [cursor[c] EXCEPT !.freed = TRUE] BY <2>1 DEF EndWrite
    <3>2. cursor'[c].freed /\ cursor'[c].txn = t
      BY <2>1, <3>1 DEF CursorsOf, TypeOK, CursorType
    <3> QED BY <1>1, <3>2
  <2>2. CASE c \notin CursorsOf(t)
    <3>1. cursor'[c] = cursor[c] BY <2>2 DEF EndWrite
    <3>2. cursor[c].ptr = "set" /\ cursor[c].txn # t BY <1>2, <2>2, <3>1 DEF CursorsOf
    <3>3. IF cursor[c].freed THEN cursor[c].txn # None ELSE cursor[c].txn = None
      BY <1>1, <3>2 DEF CursorsOwned
    <3> QED BY <3>1, <3>3
  <2> QED BY <2>1, <2>2
<1> QED BY <1>2 DEF CursorsOwned

LEMMA CursorStep ==
  ASSUME TypeOK, LockInv, CursorsOwned, [Next]_vars
  PROVE  CursorsOwned'
<1>1. ASSUME cursor' = cursor, wlock' = wlock \/ wlock \in {None, Leaked} PROVE CursorsOwned'
  BY <1>1 DEF CursorsOwned, TypeOK, CursorType, BindingAssumption
<1>2. CASE BeginFails
  BY <1>2 DEF BeginFails, CursorsOwned, NoCursor, None
<1>3. CASE EnvCtor \/ EnvOpen \/ EnvClose \/ EnvFinalize
  BY <1>1, <1>3 DEF EnvCtor, EnvOpen, EnvClose, EnvFinalize, write
<1>4. ASSUME NEW t \in TxnObj, TxnCtor(t) \/ TxnRenew(t) \/ TxnReset(t) PROVE CursorsOwned'
  BY <1>1, <1>4 DEF TxnCtor, TxnRenew, TxnReset, BeginRead, BeginWrite, write
<1>5. ASSUME NEW t \in TxnObj, NEW d \in DbiObj, TxnPut(t, d) PROVE CursorsOwned'
  BY <1>1, <1>5 DEF TxnPut
<1>6. ASSUME NEW t \in TxnObj, TxnAbort(t) \/ TxnFinalize(t) \/ TxnCommit(t)
      PROVE  CursorsOwned'
  <2>1. CASE UNCHANGED <<write, cursor>> BY <1>1, <2>1 DEF write
  <2>2. CASE EndWrite(t) /\ ~txn[t].ro /\ txn[t].ptr \in {"live", "reset"}
    BY <2>2, CursorsEnd
  <2>3. txn[t].ptr \in {None, "NULL", "live", "reset"} BY DEF TypeOK, TxnType
  <2> QED
    BY <1>6, <2>1, <2>2, <2>3 DEF TxnAbort, TxnFinalize, TxnCommit, AbortNative
<1>7. ASSUME NEW d \in DbiObj,
             \/ DbiClose(d) \/ DbiFinalize(d) \/ DbiDelete(d) \/ DbiEmpty(d)
             \/ DropFails(d) \/ \E n \in Name : DbiCtor(d, n) \/ CreateFails(d, n)
      PROVE  CursorsOwned'
  BY <1>1, <1>7
  DEF DbiClose, DbiFinalize, DbiDelete, DbiEmpty, DropFails, MayDrop, DbiCtor, CreateFails, write
<1>8. ASSUME NEW c \in CursorObj, CursorClose(c) \/ CursorFinalize(c)
      PROVE  CursorsOwned'
  BY <1>8 DEF CursorClose, CursorFinalize, CursorsOwned, NoCursor, None, TypeOK, write
<1>9. ASSUME NEW c \in CursorObj, NEW t \in TxnObj, NEW d \in DbiObj,
             CursorCtor(c, t, d)
      PROVE  CursorsOwned'
  <2>1. /\ cursor'[c] = [ptr |-> "set", freed |-> FALSE,
                         txn |-> IF txn[t].ro THEN None ELSE t]
        /\ \A x \in CursorObj \ {c} : cursor'[x] = cursor[x]
        /\ wlock' = wlock /\ (~txn[t].ro => wlock = t)
    BY <1>9 DEF CursorCtor, TypeOK, LockInv, WriteLock, write
  <2> QED BY <2>1 DEF CursorsOwned
<1>10. CASE UNCHANGED vars BY <1>1, <1>10 DEF vars, write
<1> QED BY <1>2, <1>3, <1>4, <1>5, <1>6, <1>7, <1>8, <1>9, <1>10 DEF Next

-----------------------------------------------------------------------------
(* The theorems.                                                            *)

LEMMA InitInv ==
  ASSUME Init
  PROVE  TypeOK /\ LockInv /\ HandleInv /\ DraftInv /\ CursorsOwned
<1>1. /\ NoTxn \in TxnType /\ NoDbi \in DbiType /\ NoCursor \in CursorType
      /\ NoDraft \in [Slot -> SUBSET Name]
  BY DEF NoTxn, NoDbi, NoCursor, NoDraft, TxnType, DbiType, CursorType, Slot,
         BindingAssumption
<1>2. TypeOK
  <2>1. /\ txn \in [TxnObj -> TxnType] /\ dbi \in [DbiObj -> DbiType]
        /\ cursor \in [CursorObj -> CursorType] /\ draft \in [Slot -> SUBSET Name]
    BY <1>1 DEF Init
  <2>2. exists \subseteq Name /\ holds \in [Name -> SUBSET Name] BY DEF Init
  <2> QED BY <2>1, <2>2, EmptyTable DEF Init, TypeOK
<1>3. LockInv
  BY DEF Init, LockInv, WriteLock, SlotProtects, Named, NoTxn, NoDbi, None,
         BindingAssumption
<1>4. HandleInv BY DEF Init, HandleInv, Has, NoDbi, None
<1>5. DraftInv BY DEF Init, DraftInv, PutsLand
<1>6. CursorsOwned BY DEF Init, CursorsOwned, NoCursor, None
<1> QED BY <1>2, <1>3, <1>4, <1>5, <1>6

\* However methods and finalizers follow one another, and whatever fails, the
\* types hold, with what the two locks mean.
THEOREM LocksKept == Spec => [](TypeOK /\ LockInv)
<1>1. Init => TypeOK /\ LockInv BY InitInv
<1>2. TypeOK /\ LockInv /\ [Next]_vars => (TypeOK /\ LockInv)'
  BY TypeStep, LockStep DEF LockInv
<1> QED BY <1>1, <1>2, PTL DEF Spec

\* The variables of the binding have their types.
THEOREM BindingTypes == Spec => []TypeOK
<1>1. TypeOK /\ LockInv => TypeOK OBVIOUS
<1> QED BY <1>1, LocksKept, PTL

\* A Txn object holds the write mutex exactly as long as it has its write
\* transaction: TxnWrap's constructor, renew, commit, abort and finalizer never
\* leave it locked behind them nor free another's.
THEOREM WriteLockKept == Spec => []WriteLock
<1>1. TypeOK /\ LockInv => WriteLock BY DEF LockInv
<1> QED BY <1>1, LocksKept, PTL

\* The thread's reader slot belongs to the one live reader, for any number of
\* readers reset, renewed, committed, aborted and collected around it.
THEOREM SlotKept == Spec => []SlotProtects
<1>1. TypeOK /\ LockInv => SlotProtects BY DEF LockInv
<1> QED BY <1>1, LocksKept, PTL

\* In a program with "handles" among its cares, the handles are what LMDB's
\* table says, and what a transaction has changed goes under the right names.
THEOREM HandlesKept ==
  ASSUME "handles" \in Care
  PROVE  Spec => [](HandleInv /\ DraftInv)
<1>1. Init => HandleInv /\ DraftInv BY InitInv
<1>2. (TypeOK /\ LockInv) /\ (HandleInv /\ DraftInv) /\ [Next]_vars
      => (HandleInv /\ DraftInv)'
  BY HandleStep, DraftStep
<1> QED BY <1>1, <1>2, LocksKept, PTL DEF Spec

\* A Dbi object that was neither closed nor dropped has a handle that works, of
\* its own database (mdb_dbi_open, mdb_dbis_update, mdb_dbi_close).
THEOREM HandlesWork ==
  ASSUME "handles" \in Care
  PROVE  Spec => []HandleWorks
<1>1. TypeOK /\ LockInv /\ HandleInv => HandleWorks
  <2> SUFFICES ASSUME TypeOK, LockInv, HandleInv, NEW d \in DbiObj,
                      dbi[d].state = "open"
               PROVE  dbi[d].slot \in Known /\ dbxs[dbi[d].slot] = dbi[d].name
    BY DEF HandleWorks
  <2>1. dbi[d].slot \in Slot BY DEF TypeOK, DbiType
  <2>2. dbxs[dbi[d].slot] = dbi[d].name /\ dbi[d].name # None
    BY DEF HandleInv, LockInv, Named, None
  <2>3. dbi[d].slot \in valid /\ dbi[d].slot < numdbs
    BY <2>1, <2>2 DEF HandleInv
  <2>4. dbi[d].slot \in 2 .. numdbs - 1 BY <2>1, <2>3 DEF Slot, TypeOK
  <2> QED BY <2>2, <2>3, <2>4 DEF Known
<1> QED BY <1>1, LocksKept, HandlesKept, PTL

\* Every record is in the database of the Dbi object it was put through.
THEOREM PutsStay ==
  ASSUME "handles" \in Care
  PROVE  Spec => []PutsLand
<1>1. DraftInv => PutsLand BY DEF DraftInv
<1> QED BY <1>1, HandlesKept, PTL

\* In every program, careful or not, the cursors of a write transaction end when it
\* is committed, fails to commit, is aborted or collected: no cursor that was not
\* freed outlives it, and none of a reader is freed with it.
THEOREM CursorsStayOwned == Spec => []CursorsOwned
<1>1. Init => CursorsOwned BY InitInv
<1>2. (TypeOK /\ LockInv) /\ CursorsOwned /\ [Next]_vars => CursorsOwned'
  BY CursorStep
<1> QED BY <1>1, <1>2, LocksKept, PTL DEF Spec
==============================================================================
