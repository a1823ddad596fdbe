------------------------------- MODULE Binding -------------------------------
(***************************************************************************)
(* The Node.js binding (src/src/*.cpp): the JavaScript objects Env, Txn,    *)
(* Dbi and Cursor keep pointers and handles of LMDB.  What LMDB keeps for  *)
(* one process is here with them: the table of open databases, the write    *)
(* mutex and the thread's reader slot (liblmdb/mdb.c).                      *)
(*                                                                         *)
(* All methods run on the JavaScript thread, each to its end; a finalizer   *)
(* runs between any two of them once its object is no longer referred to.  *)
(* Calls that throw and change nothing are not steps here.  One process     *)
(* uses the file.  A database is known by its name; of its records the      *)
(* model keeps the names of the databases they were put for.                *)
(*                                                                         *)
(* The program obeys lmdb.h on the environment and on threads: it closes    *)
(* the Env last, has one write transaction at a time and one use of each    *)
(* read transaction.  What else it does with care is the constant Care.     *)
(***************************************************************************)
EXTENDS Integers, FiniteSets

CONSTANTS Name,        \* names of databases
          MaxDbs,      \* the option maxDbs of Env.open
          DbiObj, TxnObj, CursorObj,   \* JavaScript objects
          ReadOnlyEnv, \* the flag MDB_RDONLY of Env.open
          Care         \* "handles": one Dbi object per database, closed once
                       \* and not while a transaction is open, after a drop
                       \* before another is opened

None   == "none"
Leaked == "leaked"

ASSUME BindingAssumption ==
  /\ MaxDbs \in Nat \ {0}
  /\ ReadOnlyEnv \in BOOLEAN
  /\ Care \subseteq {"handles"}
  /\ None \notin Name \cup TxnObj /\ Leaked \notin TxnObj

VARIABLES
  \* the data file
  exists,    \* the databases that exist
  holds,     \* the names the records of each were put for
  \* LMDB in this process
  fatal,     \* MDB_FATAL_ERROR
  dbxs,      \* md_name of me_dbxs
  valid,     \* handles with MDB_VALID in me_dbflags
  numdbs,    \* me_numdbs
  wlock,     \* the Txn that holds wmutex, None, or Leaked
  reader,    \* the Txn that uses the thread's slot, or None
  draft,     \* the databases as the write transaction has changed them
  dirty,     \* handles of those it has changed
  \* the JavaScript objects
  env,       \* Env: no object, created, open, or closed (its pointer NULL)
  txn, dbi, cursor

data   == <<exists, holds>>
table  == <<dbxs, valid, numdbs>>
write  == <<wlock, draft, dirty>>
vars   == <<data, fatal, table, write, reader, env, txn, dbi, cursor>>

Slot   == 2 .. MaxDbs + 1     \* 0 and 1: the free list and the main DB

\* Objects that JavaScript has not made yet, or has lost.
NoTxn    == [ptr |-> None, ro |-> FALSE, known |-> {}]
NoDbi    == [state |-> None, name |-> None, slot |-> 2, needsClose |-> FALSE]
NoCursor == [ptr |-> None, freed |-> FALSE, txn |-> None]
NoDraft  == [s \in Slot |-> {}]

TxnType    == [ptr : {None, "NULL", "live", "reset"}, ro : BOOLEAN,
               known : SUBSET Slot]
DbiType    == [state : {None, "open", "dropped", "closed"},
               name : Name \cup {None}, slot : Slot, needsClose : BOOLEAN]
CursorType == [ptr : {None, "NULL", "set"}, freed : BOOLEAN,
               txn : TxnObj \cup {None}]

TypeOK ==
  /\ exists \subseteq Name /\ holds \in [Name -> SUBSET Name]
  /\ fatal \in BOOLEAN
  /\ dbxs \in [Slot -> Name \cup {None}] /\ valid \subseteq Slot
  /\ numdbs \in 2 .. MaxDbs + 2
  /\ wlock \in TxnObj \cup {None, Leaked}
  /\ reader \in TxnObj \cup {None}
  /\ draft \in [Slot -> SUBSET Name] /\ dirty \subseteq Slot
  /\ env \in {None, "created", "open", "closed"}
  /\ txn \in [TxnObj -> TxnType]
  /\ dbi \in [DbiObj -> DbiType]
  /\ cursor \in [CursorObj -> CursorType]

\* A new data file, and a process that has made no object yet.
Init ==
  /\ exists = {} /\ holds = [n \in Name |-> {}]
  /\ fatal = FALSE
  /\ dbxs = [s \in Slot |-> None] /\ valid = {} /\ numdbs = 2
  /\ wlock = None /\ draft = NoDraft /\ dirty = {}
  /\ reader = None
  /\ env = None
  /\ txn = [t \in TxnObj |-> NoTxn]
  /\ dbi = [d \in DbiObj |-> NoDbi]
  /\ cursor = [c \in CursorObj |-> NoCursor]

-----------------------------------------------------------------------------
(* Env                                                                      *)

\* EnvWrap::ctor
EnvCtor ==
  /\ env = None
  /\ env' = "created"
  /\ UNCHANGED <<data, fatal, table, write, reader, txn, dbi, cursor>>

\* EnvWrap::open, with mdb_env_open and its table of databases; after a failure
\* the environment is closed.  (On an open one, mdb_env_set_maxdbs fails.)
EnvOpen ==
  /\ env = "created"
  /\ env' \in {"open", "closed"}
  /\ dbxs' = [s \in Slot |-> None] /\ valid' = {} /\ numdbs' = 2
  /\ fatal' = FALSE
  /\ UNCHANGED <<data, write, reader, txn, dbi, cursor>>

\* "All transactions, databases, and cursors must already be closed."
NothingOpen ==
  /\ wlock = None /\ reader = None
  /\ \A t \in TxnObj : txn[t].ptr \in {None, "NULL"}
  /\ \A d \in DbiObj : ~dbi[d].needsClose
  /\ \A c \in CursorObj : cursor[c].ptr # "set"

\* EnvWrap::close
EnvClose ==
  /\ env \in {"created", "open"}
  /\ NothingOpen
  /\ env' = "closed"
  /\ UNCHANGED <<data, fatal, table, write, reader, txn, dbi, cursor>>

\* ~EnvWrap
EnvFinalize ==
  /\ env # None
  /\ NothingOpen
  /\ env' = None
  /\ UNCHANGED <<data, fatal, table, write, reader, txn, dbi, cursor>>

-----------------------------------------------------------------------------
(* Txn                                                                      *)

\* mdb_txn_renew0: the handles the transaction knows.
Known == valid \cap 2 .. numdbs - 1

\* mdb_txn_begin, as a write transaction and as a reader.  The thread has one
\* reader slot: a second reader gets MDB_BAD_RSLOT.
BeginWrite(t) ==
  /\ ~fatal /\ ~ReadOnlyEnv
  /\ wlock = None
  /\ wlock' = t
  /\ draft' = NoDraft /\ dirty' = {}
  /\ UNCHANGED reader

BeginRead(t) ==
  /\ ~fatal
  /\ reader = None
  /\ reader' = t
  /\ UNCHANGED write

\* TxnWrap::ctor
TxnCtor(t) ==
  /\ env = "open"
  /\ txn[t].ptr = None
  /\ \E ro \in BOOLEAN :
       /\ IF ro THEN BeginRead(t) ELSE BeginWrite(t)
       /\ txn' = [txn EXCEPT ![t] = [ptr |-> "live", ro |-> ro,
                                     known |-> Known]]
  /\ UNCHANGED <<data, fatal, table, env, dbi, cursor>>

\* TxnWrap::renew: a reader that was reset, or a write transaction that ended.
TxnRenew(t) ==
  /\ env = "open"
  /\ IF txn[t].ro THEN txn[t].ptr = "reset" /\ BeginRead(t)
                  ELSE txn[t].ptr = "NULL" /\ BeginWrite(t)
  /\ txn' = [txn EXCEPT ![t] = [@ EXCEPT !.ptr = "live", !.known = Known]]
  /\ UNCHANGED <<data, fatal, table, env, dbi, cursor>>

\* mdb_txn_reset0 of a reader: a transaction that was reset owns no slot.
\* Mutant: it still clears the slot.
ReleaseAnySlot(t) == reader' = None
ReleaseSlot(t) == reader' = IF reader = t THEN None ELSE reader

\* The end of a write transaction frees its cursors, whatever objects refer to
\* them, and unlocks wmutex.
\* Mutant: their list is not gone through.
CursorsOf(t) == {c \in CursorObj : cursor[c].ptr = "set" /\ cursor[c].txn = t}
EndWriteOnly(t) ==
  /\ UNCHANGED cursor
  /\ wlock' = None /\ draft' = NoDraft /\ dirty' = {}
EndWrite(t) ==
  /\ cursor' = [c \in CursorObj |-> IF c \in CursorsOf(t)
                                    THEN [cursor[c] EXCEPT !.freed = TRUE]
                                    ELSE cursor[c]]
  /\ wlock' = None /\ draft' = NoDraft /\ dirty' = {}

\* The Txn object keeps the pointer p; a transaction that ended knows no handle.
Ended(t, p) == [txn EXCEPT ![t] = [@ EXCEPT !.ptr = p, !.known = {}]]

\* TxnWrap::reset of a reader.
TxnReset(t) ==
  /\ txn[t].ro /\ txn[t].ptr \in {"live", "reset"}
  /\ ReleaseSlot(t)
  /\ txn' = Ended(t, "reset")
  /\ UNCHANGED <<data, fatal, table, write, env, dbi, cursor>>

\* mdb_txn_abort.
AbortNative(t) ==
  IF txn[t].ro THEN ReleaseSlot(t) /\ UNCHANGED <<write, cursor>>
               ELSE EndWrite(t) /\ UNCHANGED reader

\* TxnWrap::abort
TxnAbort(t) ==
  /\ txn[t].ptr \in {"live", "reset"}
  /\ AbortNative(t)
  /\ txn' = Ended(t, "NULL")
  /\ UNCHANGED <<data, fatal, table, env, dbi>>

\* ~TxnWrap
TxnFinalize(t) ==
  /\ txn[t].ptr # None
  /\ IF txn[t].ptr = "NULL" THEN UNCHANGED <<write, cursor, reader>>
                            ELSE AbortNative(t)
  /\ txn' = [txn EXCEPT ![t] = NoTxn]
  /\ UNCHANGED <<data, fatal, table, env, dbi>>

\* mdb_txn_commit of a write transaction: each changed database goes under the
\* name its handle now has; without a name, or when anything else fails, it is
\* an abort.  A failed meta page write makes the environment unusable.
Stored ==
  /\ \A s \in dirty : dbxs[s] # None
  /\ exists' = exists \cup {dbxs[s] : s \in dirty}
  /\ holds' = [n \in Name |-> IF \E s \in dirty : dbxs[s] = n
                              THEN draft[CHOOSE s \in dirty : dbxs[s] = n]
                              ELSE holds[n]]
  /\ fatal' = fatal
NotStored ==
  /\ dirty # {}
  /\ UNCHANGED data
  /\ fatal' \in {fatal, TRUE}

\* TxnWrap::commit: the pointer is cleared whatever mdb_txn_commit answers.
\* Mutant: only if it succeeds.
TxnCommitKeeps(t) ==
  /\ txn[t].ptr \in {"live", "reset"}
  /\ IF txn[t].ro THEN AbortNative(t) /\ UNCHANGED <<data, fatal>>
     ELSE (Stored \/ NotStored) /\ EndWrite(t) /\ UNCHANGED reader
  /\ txn' = IF ~txn[t].ro /\ dirty # {} /\ UNCHANGED data
            THEN txn ELSE Ended(t, "NULL")
  /\ UNCHANGED <<table, env, dbi>>
TxnCommit(t) ==
  /\ txn[t].ptr \in {"live", "reset"}
  /\ IF txn[t].ro THEN AbortNative(t) /\ UNCHANGED <<data, fatal>>
     ELSE (Stored \/ NotStored) /\ EndWrite(t) /\ UNCHANGED reader
  /\ txn' = Ended(t, "NULL")
  /\ UNCHANGED <<table, env, dbi>>

\* TxnWrap::put.  mdb_put finds the database by the name of the handle.  (A
\* handle closed under a transaction that knows it is not followed.)
TxnPut(t, d) ==
  LET s == dbi[d].slot
  IN /\ txn[t].ptr = "live" /\ ~txn[t].ro
     /\ dbi[d].state = "open"
     /\ s \in txn[t].known
     /\ dbxs[s] # None
     /\ draft' = [draft EXCEPT ![s] =
                    (IF s \in dirty THEN @ ELSE holds[dbxs[s]])
                    \cup {dbi[d].name}]
     /\ dirty' = dirty \cup {s}
  /\ UNCHANGED <<data, fatal, table, wlock, reader, env, txn, dbi, cursor>>

-----------------------------------------------------------------------------
(* Dbi                                                                      *)

\* mdb_dbi_open: the handle with that name, else the first that is free.
HandlesOf(n) == {s \in 2 .. numdbs - 1 : dbxs[s] = n}
Free == {s \in 2 .. numdbs - 1 : dbxs[s] = None}
FreeHandle(s) == IF Free = {} THEN s = numdbs
                 ELSE s \in Free /\ \A f \in Free : s <= f

\* The table has room; else MDB_DBS_FULL.
\* Mutant: the limit is one too high.
HasRoomBeyond(s) == FreeHandle(s) /\ s <= MaxDbs + 2
HasRoom(s) == FreeHandle(s) /\ s < MaxDbs + 2

\* DbiWrap::ctor has begun a write transaction, and mdb_dbi_open answers s.
Wrapped(d, n, s) ==
  dbi' = [dbi EXCEPT ![d] = [state |-> "open", name |-> n, slot |-> s,
                             needsClose |-> TRUE]]

MayOpen(d, n) ==
  /\ env = "open" /\ ~fatal /\ ~ReadOnlyEnv
  /\ wlock = None
  /\ dbi[d].state = None
  /\ "handles" \in Care =>
       \A x \in DbiObj : dbi[x].name # n /\ dbi[x].state # "dropped"

\* It was open already.
OldHandle(d, n) ==
  /\ \E s \in HandlesOf(n) : Wrapped(d, n, s)
  /\ UNCHANGED <<exists, table>>

\* It exists, or is created (MDB_CREATE); the commit exports the handle.
NewHandle(d, n) ==
  /\ exists' = exists \cup {n}
  /\ \E s \in 2 .. numdbs :
        /\ HasRoom(s)
        /\ dbxs' = [dbxs EXCEPT ![s] = n]
        /\ valid' = valid \cup {s}
        /\ numdbs' = IF s = numdbs THEN numdbs + 1 ELSE numdbs
        /\ Wrapped(d, n, s)

\* DbiWrap::ctor
DbiCtor(d, n) ==
  /\ MayOpen(d, n)
  /\ IF HandlesOf(n) # {} THEN OldHandle(d, n) ELSE NewHandle(d, n)
  /\ UNCHANGED <<holds, fatal, write, reader, env, txn, cursor>>

\* The commit fails: mdb_dbis_update closes the new handle.
\* Mutant: it does not.
CreateFailsOpen(d, n) ==
  /\ MayOpen(d, n)
  /\ n \notin exists /\ HandlesOf(n) = {}
  /\ \E s \in 2 .. numdbs : HasRoom(s) /\ dbxs' = [dbxs EXCEPT ![s] = n]
  /\ fatal' \in {fatal, TRUE}
  /\ UNCHANGED <<data, valid, numdbs, write, reader, env, txn, dbi, cursor>>
CreateFails(d, n) ==
  /\ MayOpen(d, n)
  /\ n \notin exists /\ HandlesOf(n) = {}
  /\ \E s \in 2 .. numdbs :
       HasRoom(s) /\ dbxs' = [dbxs EXCEPT ![s] = None] /\ valid' = valid \ {s}
  /\ fatal' \in {fatal, TRUE}
  /\ UNCHANGED <<data, numdbs, write, reader, env, txn, dbi, cursor>>

\* mdb_txn_begin fails, and DbiWrap::ctor calls mdb_txn_abort on a pointer that
\* was never set: it throws, or the process ends.
BeginFails ==
  /\ env = "open"
  /\ fatal \/ ReadOnlyEnv
  /\ fatal' = FALSE
  /\ dbxs' = [s \in Slot |-> None] /\ valid' = {} /\ numdbs' = 2
  /\ wlock' = None /\ draft' = NoDraft /\ dirty' = {}
  /\ reader' = None
  /\ env' = None
  /\ txn' = [t \in TxnObj |-> NoTxn]
  /\ dbi' = [d \in DbiObj |-> NoDbi]
  /\ cursor' = [c \in CursorObj |-> NoCursor]
  /\ UNCHANGED data

\* mdb_dbi_close
Closed(s) ==
  /\ dbxs' = [dbxs EXCEPT ![s] = None]
  /\ valid' = valid \ {s}
  /\ UNCHANGED numdbs

Quiet == \A t \in TxnObj : txn[t].ptr # "live"

\* DbiWrap::close
\* Mutant: needsClose stays set.
DbiCloseKeeps(d) ==
  /\ env = "open"
  /\ dbi[d].state # None
  /\ "handles" \in Care => dbi[d].state # "closed" /\ Quiet
  /\ Closed(dbi[d].slot)
  /\ dbi' = [dbi EXCEPT ![d].state = "closed"]
  /\ UNCHANGED <<data, fatal, write, reader, env, txn, cursor>>
DbiClose(d) ==
  /\ env = "open"
  /\ dbi[d].state # None
  /\ "handles" \in Care => dbi[d].state # "closed" /\ Quiet
  /\ Closed(dbi[d].slot)
  /\ dbi' = [dbi EXCEPT ![d].state = "closed", ![d].needsClose = FALSE]
  /\ UNCHANGED <<data, fatal, write, reader, env, txn, cursor>>

\* ~DbiWrap
DbiFinalize(d) ==
  /\ dbi[d].state # None
  /\ "handles" \in Care => Quiet
  /\ IF dbi[d].needsClose THEN Closed(dbi[d].slot) ELSE UNCHANGED table
  /\ dbi' = [dbi EXCEPT ![d] = NoDbi]
  /\ UNCHANGED <<data, fatal, write, reader, env, txn, cursor>>

\* DbiWrap::drop: mdb_drop closes the handle of a database it deletes, before
\* the commit, which may fail.
MayDrop(d) ==
  /\ env = "open" /\ ~fatal /\ ~ReadOnlyEnv
  /\ wlock = None
  /\ dbi[d].state = "open"
  /\ "handles" \in Care => Quiet

DbiDelete(d) ==
  LET s == dbi[d].slot
  IN /\ MayDrop(d)
     /\ s \in Known
     /\ \/ /\ exists' = exists \ {dbxs[s]}
           /\ holds' = [holds EXCEPT ![dbxs[s]] = {}]
           /\ fatal' = fatal
        \/ UNCHANGED data /\ fatal' \in {fatal, TRUE}
     /\ Closed(s)
     /\ dbi' = [dbi EXCEPT ![d].state = "dropped"]
     /\ UNCHANGED <<write, reader, env, txn, cursor>>

\* With justFreePages the database is emptied, if the commit succeeds.
DbiEmpty(d) ==
  LET s == dbi[d].slot
  IN /\ MayDrop(d)
     /\ s \in Known
     /\ \/ holds' = [holds EXCEPT ![dbxs[s]] = {}] /\ fatal' = fatal
        \/ UNCHANGED holds /\ fatal' \in {fatal, TRUE}
     /\ UNCHANGED <<exists, table, write, reader, env, txn, dbi, cursor>>

\* mdb_drop fails, for want of space or because the handle is closed: the
\* exception leaves the transaction open.
DropFails(d) ==
  /\ MayDrop(d)
  /\ wlock' = Leaked
  /\ UNCHANGED <<data, fatal, table, draft, dirty, reader, env, txn, dbi,
                 cursor>>

-----------------------------------------------------------------------------
(* Cursor                                                                   *)

\* CursorWrap::ctor
CursorCtor(c, t, d) ==
  /\ cursor[c].ptr = None
  /\ txn[t].ptr = "live"
  /\ dbi[d].state = "open" /\ dbi[d].slot \in txn[t].known
  /\ cursor' = [cursor EXCEPT ![c] =
                  [ptr |-> "set", freed |-> FALSE,
                   txn |-> IF txn[t].ro THEN None ELSE t]]
  /\ UNCHANGED <<data, fatal, table, write, reader, env, txn, dbi>>

\* CursorWrap::close: mdb_cursor_close frees the cursor.  (Bound: close and the
\* finalizer of an object whose cursor was freed before read and free it again,
\* which is undefined and not followed.)
CursorClose(c) ==
  /\ cursor[c].ptr # None /\ ~cursor[c].freed
  /\ cursor' = [cursor EXCEPT ![c] = [NoCursor EXCEPT !.ptr = "NULL"]]
  /\ UNCHANGED <<data, fatal, table, write, reader, env, txn, dbi>>

\* ~CursorWrap
CursorFinalize(c) ==
  /\ cursor[c].ptr # None /\ ~cursor[c].freed
  /\ cursor' = [cursor EXCEPT ![c] = NoCursor]
  /\ UNCHANGED <<data, fatal, table, write, reader, env, txn, dbi>>

Next ==
  \/ EnvCtor \/ EnvOpen \/ EnvClose \/ EnvFinalize \/ BeginFails
  \/ \E t \in TxnObj :
       \/ TxnCtor(t) \/ TxnRenew(t) \/ TxnReset(t) \/ TxnAbort(t)
       \/ TxnFinalize(t) \/ TxnCommit(t)
       \/ \E d \in DbiObj : TxnPut(t, d)
  \/ \E d \in DbiObj :
       \/ DbiClose(d) \/ DbiFinalize(d) \/ DbiDelete(d) \/ DbiEmpty(d)
       \/ DropFails(d)
       \/ \E n \in Name : DbiCtor(d, n) \/ CreateFails(d, n)
  \/ \E c \in CursorObj :
       \/ CursorClose(c) \/ CursorFinalize(c)
       \/ \E t \in TxnObj, d \in DbiObj : CursorCtor(c, t, d)

Spec == Init /\ [][Next]_vars

-----------------------------------------------------------------------------
\* wmutex is held exactly as long as a Txn object has its write transaction:
\* no commit that fails, no finalizer, no Dbi constructor that throws leaves it
\* locked or unlocks it early.  (A drop that throws does: DbiWrap::drop.)
WriteLock ==
  \A t \in TxnObj : txn[t].ptr = "live" /\ ~txn[t].ro <=> wlock = t

\* The thread's reader slot protects the one reader that is live, whichever
\* others are reset, renewed, committed, aborted or collected meanwhile
\* (mdb_txn_reset0: "txn does not own reader").
SlotProtects ==
  \A t \in TxnObj : txn[t].ptr = "live" /\ txn[t].ro <=> reader = t

\* A Dbi object that was neither closed nor dropped has a handle that works, of
\* the database it was opened for, after whatever constructors failed and
\* handles were given to other names.
HandleWorks ==
  env = "open" => \A d \in DbiObj : dbi[d].state = "open" =>
    dbi[d].slot \in Known /\ dbxs[dbi[d].slot] = dbi[d].name

\* A record is found in the database of the Dbi object it was put through, and
\* in no other.
PutsLand == \A n \in Name : holds[n] \subseteq {n}

\* The cursors of a write transaction end with it, also when it is committed in
\* vain or collected; those of a reader are nobody else's to free
\* (mdb_cursors_close; mdb_cursor_open tracks them in write transactions only).
CursorsOwned ==
  \A c \in CursorObj : cursor[c].ptr = "set" =>
    IF cursor[c].freed THEN cursor[c].txn # None ELSE cursor[c].txn \in {None, wlock}
=============================================================================
