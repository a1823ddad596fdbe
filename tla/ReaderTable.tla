----------------------------- MODULE ReaderTable -----------------------------
(***************************************************************************)
(* The lock file of LMDB (liblmdb/mdb.c): how processes open and close an   *)
(* environment, how their threads get, keep and give back slots of the     *)
(* reader table, how mdb_reader_check frees the slots of dead processes,   *)
(* and how the writer, of any process, reads the table.                    *)
(*                                                                         *)
(* A process is known by its pid: one that died may come back, which is a  *)
(* new process with the pid of the old one.  A version of the database is  *)
(* its transaction id: MVCC has the pages, and the single stores of a       *)
(* reader that begins and of a commit, which are one step each here.  A     *)
(* write transaction that has found "oldest" reuses the pages freed by all  *)
(* transactions before it.                                                 *)
(* Of the three ways to end a slot's use, thread exit and mdb_env_close    *)
(* take no lock; only acquisition and mdb_reader_check take rmutex.        *)
(***************************************************************************)
EXTENDS Integers, FiniteSets

CONSTANTS Proc,          \* pids
          Thread,        \* threads
          Home,          \* the process of each thread
          MaxReaders,    \* me_maxreaders
          MaxTxn,        \* bound on the transactions committed
          Checker,       \* processes that call mdb_reader_check
          Writer,        \* processes that write
          FailAwaited    \* may mdb_env_open fail, or its process die, while
                         \* another waits for its exclusive lock?

None   == "none"
Orphan == "orphan"   \* the holder of a mutex died

ASSUME ReaderTableAssumption ==
  /\ Home \in [Thread -> Proc]
  /\ MaxReaders \in Nat \ {0}
  /\ MaxTxn \in Nat
  /\ Checker \subseteq Proc /\ Writer \subseteq Proc
  /\ FailAwaited \in BOOLEAN
  /\ {None, Orphan} \cap Proc = {}

VARIABLES
  \* the lock file, its locks, and the ids in the meta pages
  excl,        \* process with the write lock on byte 0, or None
  share,       \* processes with a read lock on byte 0
  pidlock,     \* processes with the lock on the byte of their pid
  formatted,   \* the lock file has its magic number
  rmutex,      \* process that holds mti_mutex, or None
  wmutex,      \* process that holds mti_wmutex, or None
  mti,         \* mti_txnid
  numreaders,  \* mti_numreaders
  mrPid,       \* mr_pid of each slot, None for 0
  mrTxn,       \* mr_txnid of each slot
  newest,      \* mm_txnid of the newest meta page
  \* each process
  ppc,         \* where mdb_env_open or mdb_env_close stands
  envReaders,  \* me_numreaders
  index,       \* i of mdb_env_close0 and mdb_reader_check
  cpc,         \* where mdb_reader_check stands
  rdrs, pids, deadPid,   \* its variables: rdrs, pids, pid
  \* each thread
  tpc,         \* where mdb_txn_renew0 stands
  tls,         \* its slot, kept under me_txkey
  rid,         \* mt_txnid
  \* the holder of wmutex
  wpc, scan,
  reused       \* pages freed by the transactions before it have been reused

file   == <<excl, share, pidlock>>
mutex  == <<rmutex, wmutex>>
slots  == <<mrPid, mrTxn, numreaders>>
data   == <<mti, newest>>
check  == <<cpc, rdrs, pids, deadPid>>
proc   == <<ppc, envReaders, index, check>>
thread == <<tpc, tls, rid>>
writer == <<wpc, scan, reused>>
vars   == <<file, formatted, mutex, slots, data, proc, thread, writer>>

Slot   == 0 .. MaxReaders - 1
NoSlot == -1
Txn    == 0 .. MaxTxn
Idle   == -1       \* (txnid_t)-1

TypeOK ==
  /\ excl \in Proc \cup {None} /\ share \subseteq Proc /\ pidlock \subseteq Proc
  /\ formatted \in BOOLEAN
  /\ rmutex \in Proc \cup {None, Orphan}
  /\ wmutex \in Proc \cup {None, Orphan}
  /\ mti \in Txn /\ newest \in Txn
  /\ numreaders \in 0 .. MaxReaders
  /\ mrPid \in [Slot -> Proc \cup {None}]
  /\ mrTxn \in [Slot -> Txn \cup {Idle}]
  /\ ppc \in [Proc -> {"closed", "wait", "format", "first", "open",
                       "closing"}]
  /\ envReaders \in [Proc -> 0 .. MaxReaders]
  /\ index \in [Proc -> 0 .. MaxReaders]
  /\ cpc \in [Proc -> {"none", "slots", "dead", "clear"}]
  /\ rdrs \in [Proc -> 0 .. MaxReaders]
  /\ pids \in [Proc -> SUBSET Proc]
  /\ deadPid \in [Proc -> Proc \cup {None}]
  /\ tpc \in [Thread -> {"idle", "lock", "search", "claimed", "begin",
                         "active"}]
  /\ tls \in [Thread -> Slot \cup {NoSlot}]
  /\ rid \in [Thread -> Txn]
  /\ wpc \in {"idle", "run", "scan"}
  /\ scan \in 0 .. MaxReaders /\ reused \in Txn

\* A new data file, and a lock file just created, full of zeroes.
Init ==
  /\ excl = None /\ share = {} /\ pidlock = {}
  /\ formatted = FALSE
  /\ rmutex = None /\ wmutex = None
  /\ mti = 0 /\ newest = 0
  /\ numreaders = 0
  /\ mrPid = [s \in Slot |-> None]
  /\ mrTxn = [s \in Slot |-> 0]
  /\ ppc = [p \in Proc |-> "closed"]
  /\ envReaders = [p \in Proc |-> 0]
  /\ index = [p \in Proc |-> 0]
  /\ cpc = [p \in Proc |-> "none"]
  /\ rdrs = [p \in Proc |-> 0]
  /\ pids = [p \in Proc |-> {}]
  /\ deadPid = [p \in Proc |-> None]
  /\ tpc = [t \in Thread |-> "idle"]
  /\ tls = [t \in Thread |-> NoSlot]
  /\ rid = [t \in Thread |-> 0]
  /\ wpc = "idle" /\ scan = 0 /\ reused = 0

-----------------------------------------------------------------------------
(* Opening and closing: mdb_env_open, mdb_env_close.                        *)

\* mdb_env_setup_locks, mdb_env_excl_lock: the whole lock file, if no other
\* process has it ...
OpenFirst(p) ==
  /\ ppc[p] = "closed"
  /\ excl = None /\ share = {}
  /\ excl' = p
  /\ ppc' = [ppc EXCEPT ![p] = "format"]
  /\ UNCHANGED <<share, pidlock, formatted, mutex, slots, data, envReaders,
                 index, check, thread, writer>>

\* ... or else a share of it, for which it waits.
OpenLater(p) ==
  /\ ppc[p] = "closed"
  /\ excl # None \/ share # {}
  /\ ppc' = [ppc EXCEPT ![p] = "wait"]
  /\ UNCHANGED <<file, formatted, mutex, slots, data, envReaders, index, check,
                 thread, writer>>

\* With a share the table is used as it is (an mdb_env_open that fails later
\* is no more than an open and a close); without a magic number, MDB_INVALID.
GetShare(p) ==
  /\ ppc[p] = "wait"
  /\ excl = None
  /\ IF formatted
       THEN /\ share' = share \cup {p}
            /\ ppc' = [ppc EXCEPT ![p] = "open"]
       ELSE /\ share' = share
            /\ ppc' = [ppc EXCEPT ![p] = "closed"]
  /\ UNCHANGED <<excl, pidlock, formatted, mutex, slots, data, envReaders,
                 index, check, thread, writer>>

\* With the exclusive lock the header is set up: new mutexes, no readers.
Format(p) ==
  /\ ppc[p] = "format"
  /\ formatted' = TRUE
  /\ rmutex' = None /\ wmutex' = None
  /\ mti' = 0
  /\ numreaders' = 0
  /\ ppc' = [ppc EXCEPT ![p] = "first"]
  /\ UNCHANGED <<file, mrPid, mrTxn, newest, envReaders, index, check,
                 thread, writer>>

\* The rest of mdb_env_open, which ends with mdb_env_share_locks.
OpenDone(p) ==
  /\ ppc[p] = "first"
  /\ mti' = newest
  /\ excl' = None /\ share' = share \cup {p}
  /\ ppc' = [ppc EXCEPT ![p] = "open"]
  /\ UNCHANGED <<pidlock, formatted, mutex, slots, newest, envReaders, index,
                 check, thread, writer>>

\* What goes with a process, or with the descriptor of its lock file.
Gone(p) ==
  /\ excl' = IF excl = p THEN None ELSE excl
  /\ share' = share \ {p}
  /\ pidlock' = pidlock \ {p}
  /\ rmutex' = IF rmutex = p THEN Orphan ELSE rmutex
  /\ wmutex' = IF wmutex = p THEN Orphan ELSE wmutex
  /\ wpc' = IF wmutex = p THEN "idle" ELSE wpc
  /\ scan' = IF wmutex = p THEN 0 ELSE scan
  /\ ppc' = [ppc EXCEPT ![p] = "closed"]
  /\ envReaders' = [envReaders EXCEPT ![p] = 0]
  /\ index' = [index EXCEPT ![p] = 0]
  /\ cpc' = [cpc EXCEPT ![p] = "none"]
  /\ rdrs' = [rdrs EXCEPT ![p] = 0]
  /\ pids' = [pids EXCEPT ![p] = {}]
  /\ deadPid' = [deadPid EXCEPT ![p] = None]
  /\ tpc' = [t \in Thread |-> IF Home[t] = p THEN "idle" ELSE tpc[t]]
  /\ tls' = [t \in Thread |-> IF Home[t] = p THEN NoSlot ELSE tls[t]]
  /\ rid' = [t \in Thread |-> IF Home[t] = p THEN 0 ELSE rid[t]]

MayRelease(p) == excl = p /\ ~FailAwaited => \A q \in Proc : ppc[q] # "wait"

\* Or something fails: mdb_env_close0.
OpenFails(p) ==
  /\ ppc[p] = "first"
  /\ MayRelease(p)
  /\ Gone(p)
  /\ UNCHANGED <<formatted, slots, data, reused>>

\* mdb_env_close, called when no thread of the process has a transaction: the
\* key is deleted, then the process's slots are emptied from the last one
\* this environment has counted ...
CloseStart(p) ==
  /\ ppc[p] = "open"
  /\ \A t \in Thread : Home[t] = p => tpc[t] = "idle"
  /\ cpc[p] = "none"
  /\ wmutex # p
  /\ ppc' = [ppc EXCEPT ![p] = "closing"]
  /\ index' = [index EXCEPT ![p] = envReaders[p]]
  /\ tls' = [t \in Thread |-> IF Home[t] = p THEN NoSlot ELSE tls[t]]
  /\ UNCHANGED <<file, formatted, mutex, slots, data, envReaders, check, tpc,
                 rid, writer>>

CloseSlot(p) ==
  /\ ppc[p] = "closing"
  /\ index[p] > 0
  /\ mrPid' = [mrPid EXCEPT ![index[p] - 1] = IF @ = p THEN None ELSE @]
  /\ index' = [index EXCEPT ![p] = @ - 1]
  /\ UNCHANGED <<file, formatted, mutex, mrTxn, numreaders, data, ppc,
                 envReaders, check, thread, writer>>

\* ... and the lock file is closed, with all locks on it.
CloseDone(p) ==
  /\ ppc[p] = "closing"
  /\ index[p] = 0
  /\ Gone(p)
  /\ UNCHANGED <<formatted, slots, data, reused>>

\* The process dies; its slots stay, and so do the mutexes it holds.
Die(p) ==
  /\ ppc[p] # "closed"
  /\ MayRelease(p)
  /\ Gone(p)
  /\ UNCHANGED <<formatted, slots, data, reused>>

-----------------------------------------------------------------------------
(* A read transaction begins: mdb_txn_renew0, with MDB_TXN_RDONLY.          *)

Runs(t) == ppc[Home[t]] = "open"

\* The thread has a slot.  (MDB_BAD_RSLOT if it is not as the thread left it.)
BeginWithSlot(t) ==
  /\ Runs(t) /\ tpc[t] = "idle"
  /\ tls[t] # NoSlot
  /\ mrPid[tls[t]] = Home[t] /\ mrTxn[tls[t]] = Idle
  /\ tpc' = [tpc EXCEPT ![t] = "begin"]
  /\ UNCHANGED <<file, formatted, mutex, slots, data, proc, tls, rid,
                 writer>>

\* It has none: the process shows that it lives (Pidset), ...
BeginWithoutSlot(t) ==
  /\ Runs(t) /\ tpc[t] = "idle"
  /\ tls[t] = NoSlot
  /\ pidlock' = pidlock \cup {Home[t]}
  /\ tpc' = [tpc EXCEPT ![t] = "lock"]
  /\ UNCHANGED <<excl, share, formatted, mutex, slots, data, proc, tls, rid,
                 writer>>

\* ... takes rmutex, ...
LockReaders(t) ==
  /\ tpc[t] = "lock"
  /\ rmutex = None
  /\ rmutex' = Home[t]
  /\ tpc' = [tpc EXCEPT ![t] = "search"]
  /\ UNCHANGED <<file, formatted, wmutex, slots, data, proc, tls, rid,
                 writer>>

\* The first empty slot of those in use, or the next one.
Vacant == {s \in 0 .. numreaders - 1 : mrPid[s] = None}
Found == IF Vacant # {} THEN CHOOSE s \in Vacant : \A v \in Vacant : s <= v
         ELSE numreaders

\* ... finds a slot and writes its pid there, ...
\* Mutant: the end of the table is not tested.
ClaimBeyond(t) ==
  /\ tpc[t] = "search"
  /\ mrPid' = [mrPid EXCEPT ![Found] = Home[t]]
  /\ tls' = [tls EXCEPT ![t] = Found]
  /\ tpc' = [tpc EXCEPT ![t] = "claimed"]
  /\ UNCHANGED <<file, formatted, mutex, mrTxn, numreaders, data, proc, rid,
                 writer>>
ClaimSlot(t) ==
  /\ tpc[t] = "search"
  /\ Found # MaxReaders
  /\ mrPid' = [mrPid EXCEPT ![Found] = Home[t]]
  /\ tls' = [tls EXCEPT ![t] = Found]
  /\ tpc' = [tpc EXCEPT ![t] = "claimed"]
  /\ UNCHANGED <<file, formatted, mutex, mrTxn, numreaders, data, proc, rid,
                 writer>>

\* MDB_READERS_FULL
ReadersFull(t) ==
  /\ tpc[t] = "search"
  /\ Found = MaxReaders
  /\ rmutex' = None
  /\ tpc' = [tpc EXCEPT ![t] = "idle"]
  /\ UNCHANGED <<file, formatted, wmutex, slots, data, proc, tls, rid,
                 writer>>

\* ... counts it if it is new, and releases rmutex.
\* Mutant: a slot used before by another process is not counted by this one.
CountNewSlot(t) ==
  /\ tpc[t] = "claimed"
  /\ LET nr == IF tls[t] = numreaders THEN numreaders + 1 ELSE numreaders
     IN /\ numreaders' = nr
        /\ envReaders' = IF nr = numreaders THEN envReaders
                         ELSE [envReaders EXCEPT ![Home[t]] = nr]
  /\ rmutex' = None
  /\ tpc' = [tpc EXCEPT ![t] = "begin"]
  /\ UNCHANGED <<file, formatted, wmutex, mrPid, mrTxn, data, ppc, index,
                 check, tls, rid, writer>>
CountSlot(t) ==
  /\ tpc[t] = "claimed"
  /\ LET nr == IF tls[t] = numreaders THEN numreaders + 1 ELSE numreaders
     IN /\ numreaders' = nr
        /\ envReaders' = [envReaders EXCEPT ![Home[t]] = nr]
  /\ rmutex' = None
  /\ tpc' = [tpc EXCEPT ![t] = "begin"]
  /\ UNCHANGED <<file, formatted, wmutex, mrPid, mrTxn, data, ppc, index,
                 check, tls, rid, writer>>

-----------------------------------------------------------------------------
(* It reads, ends, and the thread exits.  No lock from here on.             *)

\* mti_txnid goes to the slot and selects the meta page.
BeginRead(t) ==
  /\ tpc[t] = "begin"
  /\ rid' = [rid EXCEPT ![t] = mti]
  /\ mrTxn' = [mrTxn EXCEPT ![tls[t]] = mti]
  /\ tpc' = [tpc EXCEPT ![t] = "active"]
  /\ UNCHANGED <<file, formatted, mutex, mrPid, numreaders, data, proc, tls,
                 writer>>

\* mdb_txn_reset0
EndRead(t) ==
  /\ tpc[t] = "active"
  /\ mrTxn' = [mrTxn EXCEPT ![tls[t]] = Idle]
  /\ tpc' = [tpc EXCEPT ![t] = "idle"]
  /\ rid' = [rid EXCEPT ![t] = 0]
  /\ UNCHANGED <<file, formatted, mutex, mrPid, numreaders, data, proc, tls,
                 writer>>

\* mdb_env_reader_dest.  The thread is replaced by another.
ThreadExit(t) ==
  /\ Runs(t) /\ tpc[t] = "idle"
  /\ tls[t] # NoSlot
  /\ mrPid' = [mrPid EXCEPT ![tls[t]] = None]
  /\ tls' = [tls EXCEPT ![t] = NoSlot]
  /\ UNCHANGED <<file, formatted, mutex, mrTxn, numreaders, data, proc, tpc,
                 rid, writer>>

-----------------------------------------------------------------------------
(* mdb_reader_check, by some thread of process p.                           *)

CheckStart(p) ==
  /\ p \in Checker
  /\ ppc[p] = "open" /\ cpc[p] = "none"
  /\ cpc' = [cpc EXCEPT ![p] = "slots"]
  /\ rdrs' = [rdrs EXCEPT ![p] = numreaders]
  /\ pids' = [pids EXCEPT ![p] = {}]
  /\ index' = [index EXCEPT ![p] = 0]
  /\ UNCHANGED <<file, formatted, mutex, slots, data, ppc, envReaders, deadPid,
                 thread, writer>>

\* A slot of another process, not looked at yet, that has released its lock.
Stale(p, s) == mrPid[s] \notin {None, p} \cup pids[p] \cup pidlock

\* The next slot.  (The code reads mr_pid three times; one load here, as
\* compilers make of it.)
CheckSlot(p) ==
  /\ cpc[p] = "slots"
  /\ index[p] < rdrs[p]
  /\ pids' = [pids EXCEPT ![p] = @ \cup ({mrPid[index[p]]} \ {None, p})]
  /\ IF Stale(p, index[p])
       THEN /\ cpc' = [cpc EXCEPT ![p] = "dead"]
            /\ deadPid' = [deadPid EXCEPT ![p] = mrPid[index[p]]]
            /\ index' = index
       ELSE /\ index' = [index EXCEPT ![p] = @ + 1]
            /\ UNCHANGED <<cpc, deadPid>>
  /\ UNCHANGED <<file, formatted, mutex, slots, data, ppc, envReaders, rdrs,
                 thread, writer>>

\* rmutex, and the lock is tested again: "a new process may have reused pid".
\* Mutant: it is not tested again.
CheckLockOnce(p) ==
  /\ cpc[p] = "dead"
  /\ rmutex = None
  /\ rmutex' = p
  /\ cpc' = [cpc EXCEPT ![p] = "clear"]
  /\ UNCHANGED <<file, formatted, wmutex, slots, data, ppc, envReaders, index,
                 rdrs, pids, deadPid, thread, writer>>
CheckLock(p) ==
  /\ cpc[p] = "dead"
  /\ rmutex = None
  /\ IF deadPid[p] \in pidlock
       THEN /\ rmutex' = rmutex
            /\ cpc' = [cpc EXCEPT ![p] = "slots"]
            /\ index' = [index EXCEPT ![p] = @ + 1]
       ELSE /\ rmutex' = p
            /\ cpc' = [cpc EXCEPT ![p] = "clear"]
            /\ index' = index
  /\ UNCHANGED <<file, formatted, wmutex, slots, data, ppc, envReaders, rdrs,
                 pids, deadPid, thread, writer>>

\* All slots of that pid from this one on are emptied; rmutex is released.
CheckClear(p) ==
  /\ cpc[p] = "clear"
  /\ mrPid' = [s \in Slot |-> IF s \in index[p] .. rdrs[p] - 1
                                 /\ mrPid[s] = deadPid[p]
                              THEN None ELSE mrPid[s]]
  /\ rmutex' = None
  /\ cpc' = [cpc EXCEPT ![p] = "slots"]
  /\ index' = [index EXCEPT ![p] = @ + 1]
  /\ UNCHANGED <<file, formatted, wmutex, mrTxn, numreaders, data, ppc,
                 envReaders, rdrs, pids, deadPid, thread, writer>>

CheckDone(p) ==
  /\ cpc[p] = "slots"
  /\ index[p] = rdrs[p]
  /\ cpc' = [cpc EXCEPT ![p] = "none"]
  /\ index' = [index EXCEPT ![p] = 0]
  /\ rdrs' = [rdrs EXCEPT ![p] = 0]
  /\ pids' = [pids EXCEPT ![p] = {}]
  /\ deadPid' = [deadPid EXCEPT ![p] = None]
  /\ UNCHANGED <<file, formatted, mutex, slots, data, ppc, envReaders, thread,
                 writer>>

-----------------------------------------------------------------------------
(* The writer.                                                              *)

WriterIn(state) == wmutex \in Proc /\ wpc = state

WriteBegin(p) ==
  /\ p \in Writer
  /\ ppc[p] = "open"
  /\ wmutex = None
  /\ wmutex' = p
  /\ wpc' = "run"
  /\ UNCHANGED <<file, formatted, rmutex, slots, data, proc, thread, scan,
                 reused>>

\* mdb_find_oldest takes the number of slots, ...
\* Mutant: the number this process counted last.
ScanStartCached ==
  /\ WriterIn("run")
  /\ wpc' = "scan"
  /\ scan' = envReaders[wmutex]
  /\ UNCHANGED <<file, formatted, mutex, slots, data, proc, thread, reused>>
ScanStart ==
  /\ WriterIn("run")
  /\ wpc' = "scan"
  /\ scan' = numreaders
  /\ UNCHANGED <<file, formatted, mutex, slots, data, proc, thread, reused>>

\* ... and reads them (one by one: MVCC); mdb_page_alloc then takes pages freed
\* by the transactions before the oldest id.
Ids == {mti} \cup {mrTxn[s] : s \in {s \in 0 .. scan - 1 : mrPid[s] # None}}
Oldest == CHOOSE n \in Ids \ {Idle} : \A m \in Ids \ {Idle} : n <= m
Reuse ==
  /\ WriterIn("scan")
  /\ reused' = IF Oldest > reused THEN Oldest ELSE reused
  /\ wpc' = "run"
  /\ scan' = 0
  /\ UNCHANGED <<file, formatted, mutex, slots, data, proc, thread>>

Unlock ==
  /\ wmutex' = None
  /\ wpc' = "idle" /\ scan' = 0
  /\ UNCHANGED <<rmutex, reused>>

\* mdb_txn_commit: the meta page, mti_txnid and wmutex.
Commit ==
  /\ WriterIn("run")
  /\ mti < MaxTxn
  /\ newest' = mti + 1
  /\ mti' = mti + 1
  /\ Unlock
  /\ UNCHANGED <<file, formatted, slots, proc, thread>>

WriteAbort ==
  /\ WriterIn("run")
  /\ Unlock
  /\ UNCHANGED <<file, formatted, slots, data, proc, thread>>

Next ==
  \/ \E p \in Proc :
       \/ OpenFirst(p) \/ OpenLater(p) \/ GetShare(p) \/ Format(p)
       \/ OpenDone(p) \/ OpenFails(p) \/ CloseStart(p) \/ CloseSlot(p)
       \/ CloseDone(p) \/ Die(p)
       \/ CheckStart(p) \/ CheckSlot(p) \/ CheckLock(p) \/ CheckClear(p)
       \/ CheckDone(p) \/ WriteBegin(p)
  \/ \E t \in Thread :
       \/ BeginWithSlot(t) \/ BeginWithoutSlot(t) \/ LockReaders(t)
       \/ ClaimSlot(t) \/ ReadersFull(t) \/ CountSlot(t) \/ BeginRead(t)
       \/ EndRead(t) \/ ThreadExit(t)
  \/ ScanStart \/ Reuse \/ Commit \/ WriteAbort

Spec == Init /\ [][Next]_vars

-----------------------------------------------------------------------------
\* A thread that has a slot is alone in it, and the slot is there for the
\* writer to see: no acquisition, no mdb_reader_check of another process, no
\* close and no reset of the lock file takes it away ("Any slot is only ever
\* used by one thread", reader table comment).
SlotOwned ==
  \A t \in Thread : tls[t] # NoSlot =>
    /\ mrPid[tls[t]] = Home[t]
    /\ tls[t] < numreaders \/ tpc[t] = "claimed"
    /\ \A u \in Thread : tls[u] = tls[t] => u = t

\* No version that a living reader reads has lost pages to reuse: what was
\* reused was freed by transactions before it (mdb_find_oldest over a table in
\* which slots come, go and are counted meanwhile, and whose owners die).
VersionKept ==
  \A t \in Thread : tpc[t] = "active" => reused <= rid[t]

\* A process that has read leaves no slot under its pid when it closes, not
\* even one of a dead predecessor (mdb_env_close0, me_numreaders).
CloseLeavesNoSlot ==
  \A p \in Proc : ppc[p] = "closing" /\ index[p] = 0 /\ envReaders[p] > 0 =>
    \A s \in 0 .. numreaders - 1 : mrPid[s] # p

\* In an open environment mti_txnid is the newest meta page's ("recorded here
\* only for convenience; the value can always be determined by reading the main
\* database meta pages").
MtiCurrent == \A p \in Proc : ppc[p] = "open" => mti = newest

=============================================================================
