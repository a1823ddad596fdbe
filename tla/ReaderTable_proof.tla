-------------------------- MODULE ReaderTable_proof --------------------------
(***************************************************************************)
(* Proofs about ReaderTable, for any number of processes, threads, slots   *)
(* and transactions.                                                       *)
(***************************************************************************)
EXTENDS ReaderTable, WellFoundedInduction, TLAPS

Shares(p) == ppc[p] \in {"open", "closing"}

\* Byte 0 of the lock file says who is where: one process sets the file up, or
\* any number share it.
FileInv ==
  /\ \A p \in Proc : excl = p <=> ppc[p] \in {"format", "first"}
  /\ share = {p \in Proc : Shares(p)}
  /\ excl # None => share = {}
  /\ \A p \in Proc : ppc[p] = "first" \/ Shares(p) => formatted

\* Threads, mdb_reader_check and the writer are of open environments.
OpenInv ==
  /\ \A t \in Thread : ~Runs(t) => tpc[t] = "idle" /\ tls[t] = NoSlot
  /\ \A p \in Proc : ppc[p] # "open" => cpc[p] = "none" /\ wmutex # p
  /\ \A p \in Proc : ~Shares(p) => envReaders[p] = 0

\* rmutex excludes acquisitions and checks from each other, also those of one
\* process, which is all that the variable tells.
InTable(t) == tpc[t] \in {"search", "claimed"}
MutexInv ==
  /\ \A t \in Thread : InTable(t) => rmutex = Home[t]
  /\ \A t, u \in Thread : InTable(t) /\ InTable(u) => t = u
  /\ \A p \in Proc : cpc[p] = "clear" => rmutex = p
  /\ \A t \in Thread, p \in Proc : ~(InTable(t) /\ cpc[p] = "clear")

\* A thread between its steps; a process that looks for a slot or has one shows
\* that it lives, so that a check that found it dead found it without a slot.
SlotInv ==
  /\ SlotOwned
  /\ \A t \in Thread :
       /\ tpc[t] \in {"claimed", "begin", "active"} => tls[t] # NoSlot
       /\ tpc[t] \in {"lock", "search"} => tls[t] = NoSlot
       /\ tls[t] <= numreaders
       /\ tls[t] # NoSlot \/ tpc[t] \in {"lock", "search"} => Home[t] \in pidlock
  /\ \A p \in Proc : cpc[p] = "clear" =>
       \A t \in Thread : Home[t] = deadPid[p] => tls[t] = NoSlot

CheckInv == \A p \in Proc : cpc[p] \in {"dead", "clear"} => index[p] < rdrs[p]

\* A process that has counted the table has no slot beyond its count.
CloseInv ==
  /\ \A p \in Proc :
       /\ ppc[p] = "open" /\ envReaders[p] > 0
       /\ \A t \in Thread : Home[t] = p => tpc[t] # "claimed"
       => \A s \in envReaders[p] .. numreaders - 1 : mrPid[s] # p
  /\ \A p \in Proc :
       ppc[p] = "closing" /\ envReaders[p] > 0 =>
         \A s \in index[p] .. numreaders - 1 : mrPid[s] # p

TableInv == TypeOK /\ FileInv /\ OpenInv /\ MutexInv /\ SlotInv /\ CheckInv

\* mti_txnid is the newest meta page's for whoever uses the environment or
\* waits for its share; a reader's slot has its id; one that came after the
\* writer took the number of slots has the newest id.
MtiInv ==
  (\E p \in Proc : ppc[p] = "wait" \/ Shares(p)) /\ excl = None /\ formatted
    => mti = newest
ReadInv ==
  /\ \A t \in Thread : tpc[t] = "active" => mrTxn[tls[t]] = rid[t]
  /\ WriterIn("scan") =>
       \A t \in Thread : tpc[t] = "active" /\ tls[t] >= scan => rid[t] = mti
ReuseInv == reused <= newest /\ VersionKept
VersionInv == MtiInv /\ ReadInv /\ ReuseInv

-----------------------------------------------------------------------------
USE ReaderTableAssumption DEF ReaderTableAssumption, file, mutex, slots, data, check, proc, thread, writer

\* A nonempty set of numbers has a least one.
LEMMA LeastElement ==
  ASSUME NEW T, T \subseteq Nat, T # {}
  PROVE  \E x \in T : \A y \in T : x <= y
<1>1. PICK x \in T : \A y \in T : <<y, x>> \notin OpToRel(<, Nat)
  BY NatLessThanWellFounded, WFMin, Zenon
<1>2. ASSUME NEW y \in T PROVE x <= y
  <2>1. ~ (<<y, x>>[1] < <<y, x>>[2]) BY <1>1 DEF OpToRel
  <2> QED BY <2>1
<1> QED BY <1>2

\* Slot numbers and counts are natural numbers.
LEMMA Numbers ==
  /\ MaxReaders \in Nat /\ Slot \subseteq Nat /\ NoSlot \notin Slot
  /\ 0 \in 0 .. MaxReaders
  /\ 0 \in Txn /\ Txn \subseteq Nat /\ Idle \notin Txn
BY DEF Slot, NoSlot, Txn, Idle

\* The search of mdb_txn_renew0 ends at the first free slot, or past the last.
LEMMA FoundRight ==
  ASSUME TypeOK
  PROVE  /\ Found \in 0 .. numreaders
         /\ Found < numreaders => mrPid[Found] = None
<1>1. CASE Vacant = {} BY <1>1 DEF Found, TypeOK
<1>2. CASE Vacant # {}
  <2>1. Vacant \subseteq Nat BY DEF Vacant, TypeOK
  <2>2. \E s \in Vacant : \A v \in Vacant : s <= v BY <1>2, <2>1, LeastElement
  <2>3. Found \in Vacant BY <1>2, <2>2 DEF Found
  <2> QED BY <2>3 DEF Vacant, TypeOK
<1> QED BY <1>1, <1>2

\* The scan of mdb_find_oldest answers at most the id of each slot it reads.
LEMMA OldestRight ==
  ASSUME TypeOK
  PROVE  /\ Oldest \in Txn /\ Oldest <= mti
         /\ \A s \in 0 .. scan - 1 :
              mrPid[s] # None /\ mrTxn[s] # Idle => Oldest <= mrTxn[s]
<1>1. Ids \subseteq Txn \cup {Idle} BY DEF Ids, TypeOK, Slot
<1>2. mti \in Ids \ {Idle} 
  <2>1. mti \in Ids BY DEF Ids
  <2> QED BY <2>1, Numbers DEF TypeOK
<1>3. Ids \ {Idle} \subseteq Nat BY <1>1, Numbers
<1>4. \E n \in Ids \ {Idle} : \A m \in Ids \ {Idle} : n <= m
  BY <1>2, <1>3, LeastElement
<1>5. Oldest \in Ids \ {Idle} /\ \A m \in Ids \ {Idle} : Oldest <= m
  BY <1>4 DEF Oldest
<1>6. ASSUME NEW s \in 0 .. scan - 1, mrPid[s] # None, mrTxn[s] # Idle
      PROVE  mrTxn[s] \in Ids \ {Idle}
  BY <1>6 DEF Ids
<1> QED BY <1>1, <1>2, <1>5, <1>6

\* A process that is gone (closed, died) leaves well-typed variables.
LEMMA GoneType ==
  ASSUME TypeOK, NEW p \in Proc, Gone(p), UNCHANGED <<formatted, slots, data, reused>>
  PROVE  TypeOK'
<1>1. /\ excl' \in Proc \cup {None} /\ share' \subseteq Proc /\ pidlock' \subseteq Proc
      /\ rmutex' \in Proc \cup {None, Orphan} /\ wmutex' \in Proc \cup {None, Orphan}
      /\ wpc' \in {"idle", "run", "scan"} /\ scan' \in 0 .. MaxReaders
  BY Numbers DEF Gone, TypeOK
<1>2. /\ envReaders' \in [Proc -> 0 .. MaxReaders] /\ index' \in [Proc -> 0 .. MaxReaders]
      /\ rdrs' \in [Proc -> 0 .. MaxReaders]
  BY Numbers DEF Gone, TypeOK
<1>3. /\ cpc' \in [Proc -> {"none", "slots", "dead", "clear"}]
      /\ pids' \in [Proc -> SUBSET Proc] /\ deadPid' \in [Proc -> Proc \cup {None}]
      /\ ppc' \in [Proc -> {"closed", "wait", "format", "first", "open", "closing"}]
  BY DEF Gone, TypeOK
<1>4. /\ tpc' \in [Thread -> {"idle", "lock", "search", "claimed", "begin", "active"}]
      /\ tls' \in [Thread -> Slot \cup {NoSlot}] /\ rid' \in [Thread -> Txn]
  BY Numbers DEF Gone, TypeOK
<1> QED BY <1>1, <1>2, <1>3, <1>4 DEF TypeOK

\* No step leaves the types.
LEMMA TypeStep ==
  ASSUME TypeOK, CheckInv, [Next]_vars
  PROVE  TypeOK'
<1> USE DEF TypeOK
<1>1. ASSUME NEW p \in Proc, OpenFirst(p) PROVE TypeOK'
  BY <1>1 DEF OpenFirst
<1>2. ASSUME NEW p \in Proc, OpenLater(p) PROVE TypeOK'
  BY <1>2 DEF OpenLater
<1>3. ASSUME NEW p \in Proc, GetShare(p) PROVE TypeOK'
  BY <1>3 DEF GetShare
<1>4. ASSUME NEW p \in Proc, Format(p) PROVE TypeOK'
  BY <1>4, Numbers DEF Format
<1>5. ASSUME NEW p \in Proc, OpenDone(p) PROVE TypeOK'
  BY <1>5 DEF OpenDone
<1>6. ASSUME NEW p \in Proc, OpenFails(p) PROVE TypeOK'
  BY <1>6, GoneType DEF OpenFails
<1>7. ASSUME NEW p \in Proc, CloseStart(p) PROVE TypeOK'
  BY <1>7 DEF CloseStart
<1>8. ASSUME NEW p \in Proc, CloseSlot(p) PROVE TypeOK'
  <2>1. index[p] - 1 \in 0 .. MaxReaders - 1 BY <1>8 DEF CloseSlot
  <2>2. index' \in [Proc -> 0 .. MaxReaders] BY <1>8, <2>1 DEF CloseSlot
  <2>3. mrPid' \in [Slot -> Proc \cup {None}] BY <1>8 DEF CloseSlot
  <2> QED BY <1>8, <2>2, <2>3 DEF CloseSlot
<1>9. ASSUME NEW p \in Proc, CloseDone(p) PROVE TypeOK'
  BY <1>9, GoneType DEF CloseDone
<1>10. ASSUME NEW p \in Proc, Die(p) PROVE TypeOK'
  BY <1>10, GoneType DEF Die
<1>11. ASSUME NEW p \in Proc, CheckStart(p) PROVE TypeOK'
  BY <1>11 DEF CheckStart
<1>12. ASSUME NEW p \in Proc, CheckSlot(p) PROVE TypeOK'
  <2>1. index[p] \in Slot /\ index[p] + 1 \in 0 .. MaxReaders
    BY <1>12 DEF CheckSlot, Slot
  <2>2. index' \in [Proc -> 0 .. MaxReaders] BY <1>12, <2>1 DEF CheckSlot
  <2>3. mrPid[index[p]] \in Proc \cup {None} BY <2>1
  <2>4. pids' \in [Proc -> SUBSET Proc] BY <1>12, <2>3 DEF CheckSlot
  <2>5. deadPid' \in [Proc -> Proc \cup {None}] BY <1>12, <2>3 DEF CheckSlot
  <2>6. cpc' \in [Proc -> {"none", "slots", "dead", "clear"}] BY <1>12 DEF CheckSlot
  <2> QED BY <1>12, <2>2, <2>4, <2>5, <2>6 DEF CheckSlot
<1>13. ASSUME NEW p \in Proc, CheckLock(p) PROVE TypeOK'
  <2>1. index[p] + 1 \in 0 .. MaxReaders BY <1>13 DEF CheckLock, CheckInv
  <2>2. index' \in [Proc -> 0 .. MaxReaders] BY <1>13, <2>1 DEF CheckLock
  <2> QED BY <1>13, <2>2 DEF CheckLock
<1>14. ASSUME NEW p \in Proc, CheckClear(p) PROVE TypeOK'
  <2>1. index[p] + 1 \in 0 .. MaxReaders BY <1>14 DEF CheckClear, CheckInv
  <2>2. index' \in [Proc -> 0 .. MaxReaders] BY <1>14, <2>1 DEF CheckClear
  <2> QED BY <1>14, <2>2 DEF CheckClear
<1>15. ASSUME NEW p \in Proc, CheckDone(p) PROVE TypeOK'
  BY <1>15 DEF CheckDone
<1>16. ASSUME NEW p \in Proc, WriteBegin(p) PROVE TypeOK'
  BY <1>16 DEF WriteBegin
<1>17. ASSUME NEW t \in Thread, BeginWithSlot(t) PROVE TypeOK'
  BY <1>17 DEF BeginWithSlot
<1>18. ASSUME NEW t \in Thread, BeginWithoutSlot(t) PROVE TypeOK'
  BY <1>18 DEF BeginWithoutSlot
<1>19. ASSUME NEW t \in Thread, LockReaders(t) PROVE TypeOK'
  BY <1>19 DEF LockReaders
<1>20. ASSUME NEW t \in Thread, ClaimSlot(t) PROVE TypeOK'
  <2>1. Found \in Slot BY <1>20, FoundRight DEF ClaimSlot, Slot
  <2> QED BY <1>20, <2>1 DEF ClaimSlot
<1>21. ASSUME NEW t \in Thread, ReadersFull(t) PROVE TypeOK'
  BY <1>21 DEF ReadersFull
<1>22. ASSUME NEW t \in Thread, CountSlot(t) PROVE TypeOK'
  <2> DEFINE nr == IF tls[t] = numreaders THEN numreaders + 1 ELSE numreaders
  <2>0. tls[t] \in Slot \cup {NoSlot} /\ numreaders \in 0 .. MaxReaders OBVIOUS
  <2>1. nr \in 0 .. MaxReaders
    <3> HIDE DEF TypeOK
    <3> QED BY <2>0 DEF Slot, NoSlot
  <2> HIDE DEF nr
  <2>2. numreaders' = nr /\ envReaders' = [envReaders EXCEPT ![Home[t]] = nr]
    BY <1>22 DEF CountSlot, nr
  <2> QED BY <1>22, <2>1, <2>2 DEF CountSlot
<1>23. ASSUME NEW t \in Thread, BeginRead(t) PROVE TypeOK'
  BY <1>23 DEF BeginRead
<1>24. ASSUME NEW t \in Thread, EndRead(t) PROVE TypeOK'
  BY <1>24, Numbers DEF EndRead
<1>25. ASSUME NEW t \in Thread, ThreadExit(t) PROVE TypeOK'
  BY <1>25 DEF ThreadExit
<1>26. CASE ScanStart
  BY <1>26 DEF ScanStart
<1>27. CASE Reuse
  BY <1>27, OldestRight, Numbers DEF Reuse
<1>28. CASE Commit
  <2>1. mti + 1 \in Txn BY <1>28 DEF Commit, Txn
  <2> QED BY <1>28, <2>1, Numbers DEF Commit, Unlock
<1>29. CASE WriteAbort
  BY <1>29, Numbers DEF WriteAbort, Unlock
<1>30. CASE UNCHANGED vars BY <1>30 DEF vars
<1> QED BY <1>1, <1>2, <1>3, <1>4, <1>5, <1>6, <1>7, <1>8, <1>9, <1>10, <1>11, <1>12, <1>13, <1>14, <1>15, <1>16, <1>17, <1>18, <1>19, <1>20, <1>21, <1>22, <1>23, <1>24, <1>25, <1>26, <1>27, <1>28, <1>29, <1>30 DEF Next
\* The record lock on byte 0 stays what it says (mdb_env_excl_lock, mdb_env_share_locks).
LEMMA FileStep ==
  ASSUME TypeOK, FileInv, [Next]_vars
  PROVE  FileInv'
<1> USE DEF TypeOK, FileInv, Shares
<1>1. ASSUME NEW p \in Proc, OpenFirst(p) PROVE FileInv'
  BY <1>1 DEF OpenFirst
<1>2. ASSUME NEW p \in Proc, OpenLater(p) PROVE FileInv'
  BY <1>2 DEF OpenLater
<1>3. ASSUME NEW p \in Proc, GetShare(p) PROVE FileInv'
  BY <1>3 DEF GetShare
<1>4. ASSUME NEW p \in Proc, Format(p) PROVE FileInv'
  BY <1>4 DEF Format
<1>5. ASSUME NEW p \in Proc, OpenDone(p) PROVE FileInv'
  <2>1. excl = p /\ share = {} BY <1>5 DEF OpenDone
  <2>2. \A q \in Proc : ppc[q] \in {"format", "first"} <=> q = p BY <2>1
  <2>3. ppc' = [ppc EXCEPT ![p] = "open"] /\ excl' = None /\ share' = {p}
    BY <1>5, <2>1 DEF OpenDone
  <2>a. \A q \in Proc : ppc[q] \notin {"open", "closing"} BY <2>1
  <2>4. \A q \in Proc :
          ppc'[q] \notin {"format", "first"} /\ (ppc'[q] \in {"open", "closing"} <=> q = p)
    BY <2>a, <2>2, <2>3
  <2>5. formatted' BY <1>5 DEF OpenDone
  <2> QED BY <2>3, <2>4, <2>5
<1>6. ASSUME NEW p \in Proc, OpenFails(p) PROVE FileInv'
  BY <1>6 DEF OpenFails, Gone
<1>7. ASSUME NEW p \in Proc, CloseStart(p) PROVE FileInv'
  BY <1>7 DEF CloseStart
<1>8. ASSUME NEW p \in Proc, CloseSlot(p) PROVE FileInv'
  BY <1>8 DEF CloseSlot
<1>9. ASSUME NEW p \in Proc, CloseDone(p) PROVE FileInv'
  BY <1>9 DEF CloseDone, Gone
<1>10. ASSUME NEW p \in Proc, Die(p) PROVE FileInv'
  BY <1>10 DEF Die, Gone
<1>11. ASSUME NEW p \in Proc, CheckStart(p) PROVE FileInv'
  BY <1>11 DEF CheckStart
<1>12. ASSUME NEW p \in Proc, CheckSlot(p) PROVE FileInv'
  BY <1>12 DEF CheckSlot
<1>13. ASSUME NEW p \in Proc, CheckLock(p) PROVE FileInv'
  BY <1>13 DEF CheckLock
<1>14. ASSUME NEW p \in Proc, CheckClear(p) PROVE FileInv'
  BY <1>14 DEF CheckClear
<1>15. ASSUME NEW p \in Proc, CheckDone(p) PROVE FileInv'
  BY <1>15 DEF CheckDone
<1>16. ASSUME NEW p \in Proc, WriteBegin(p) PROVE FileInv'
  BY <1>16 DEF WriteBegin
<1>17. ASSUME NEW t \in Thread, BeginWithSlot(t) PROVE FileInv'
  BY <1>17 DEF BeginWithSlot
<1>18. ASSUME NEW t \in Thread, BeginWithoutSlot(t) PROVE FileInv'
  BY <1>18 DEF BeginWithoutSlot
<1>19. ASSUME NEW t \in Thread, LockReaders(t) PROVE FileInv'
  BY <1>19 DEF LockReaders
<1>20. ASSUME NEW t \in Thread, ClaimSlot(t) PROVE FileInv'
  BY <1>20 DEF ClaimSlot
<1>21. ASSUME NEW t \in Thread, ReadersFull(t) PROVE FileInv'
  BY <1>21 DEF ReadersFull
<1>22. ASSUME NEW t \in Thread, CountSlot(t) PROVE FileInv'
  BY <1>22 DEF CountSlot
<1>23. ASSUME NEW t \in Thread, BeginRead(t) PROVE FileInv'
  BY <1>23 DEF BeginRead
<1>24. ASSUME NEW t \in Thread, EndRead(t) PROVE FileInv'
  BY <1>24 DEF EndRead
<1>25. ASSUME NEW t \in Thread, ThreadExit(t) PROVE FileInv'
  BY <1>25 DEF ThreadExit
<1>26. CASE ScanStart
  BY <1>26 DEF ScanStart
<1>27. CASE Reuse
  BY <1>27 DEF Reuse
<1>28. CASE Commit
  BY <1>28 DEF Commit, Unlock
<1>29. CASE WriteAbort
  BY <1>29 DEF WriteAbort, Unlock
<1>30. CASE UNCHANGED vars BY <1>30 DEF vars
<1> QED BY <1>1, <1>2, <1>3, <1>4, <1>5, <1>6, <1>7, <1>8, <1>9, <1>10, <1>11, <1>12, <1>13, <1>14, <1>15, <1>16, <1>17, <1>18, <1>19, <1>20, <1>21, <1>22, <1>23, <1>24, <1>25, <1>26, <1>27, <1>28, <1>29, <1>30 DEF Next

\* Only an open environment has threads that read, checks, or the writer.
LEMMA OpenStep ==
  ASSUME TypeOK, FileInv, OpenInv, [Next]_vars
  PROVE  OpenInv'
<1> USE DEF TypeOK, FileInv, OpenInv, Shares, Runs
<1>1. ASSUME NEW p \in Proc, OpenFirst(p) PROVE OpenInv'
  BY <1>1 DEF OpenFirst
<1>2. ASSUME NEW p \in Proc, OpenLater(p) PROVE OpenInv'
  BY <1>2 DEF OpenLater
<1>3. ASSUME NEW p \in Proc, GetShare(p) PROVE OpenInv'
  BY <1>3 DEF GetShare
<1>4. ASSUME NEW p \in Proc, Format(p) PROVE OpenInv'
  BY <1>4 DEF Format
<1>5. ASSUME NEW p \in Proc, OpenDone(p) PROVE OpenInv'
  BY <1>5 DEF OpenDone
<1>6. ASSUME NEW p \in Proc, OpenFails(p) PROVE OpenInv'
  BY <1>6 DEF OpenFails, Gone
<1>7. ASSUME NEW p \in Proc, CloseStart(p) PROVE OpenInv'
  BY <1>7 DEF CloseStart
<1>8. ASSUME NEW p \in Proc, CloseSlot(p) PROVE OpenInv'
  BY <1>8 DEF CloseSlot
<1>9. ASSUME NEW p \in Proc, CloseDone(p) PROVE OpenInv'
  BY <1>9 DEF CloseDone, Gone
<1>10. ASSUME NEW p \in Proc, Die(p) PROVE OpenInv'
  BY <1>10 DEF Die, Gone
<1>11. ASSUME NEW p \in Proc, CheckStart(p) PROVE OpenInv'
  BY <1>11 DEF CheckStart
<1>12. ASSUME NEW p \in Proc, CheckSlot(p) PROVE OpenInv'
  BY <1>12 DEF CheckSlot
<1>13. ASSUME NEW p \in Proc, CheckLock(p) PROVE OpenInv'
  BY <1>13 DEF CheckLock
<1>14. ASSUME NEW p \in Proc, CheckClear(p) PROVE OpenInv'
  BY <1>14 DEF CheckClear
<1>15. ASSUME NEW p \in Proc, CheckDone(p) PROVE OpenInv'
  BY <1>15 DEF CheckDone
<1>16. ASSUME NEW p \in Proc, WriteBegin(p) PROVE OpenInv'
  BY <1>16 DEF WriteBegin
<1>17. ASSUME NEW t \in Thread, BeginWithSlot(t) PROVE OpenInv'
  BY <1>17 DEF BeginWithSlot
<1>18. ASSUME NEW t \in Thread, BeginWithoutSlot(t) PROVE OpenInv'
  BY <1>18 DEF BeginWithoutSlot
<1>19. ASSUME NEW t \in Thread, LockReaders(t) PROVE OpenInv'
  BY <1>19 DEF LockReaders
<1>20. ASSUME NEW t \in Thread, ClaimSlot(t) PROVE OpenInv'
  BY <1>20 DEF ClaimSlot
<1>21. ASSUME NEW t \in Thread, ReadersFull(t) PROVE OpenInv'
  BY <1>21 DEF ReadersFull
<1>22. ASSUME NEW t \in Thread, CountSlot(t) PROVE OpenInv'
  BY <1>22 DEF CountSlot
<1>23. ASSUME NEW t \in Thread, BeginRead(t) PROVE OpenInv'
  BY <1>23 DEF BeginRead
<1>24. ASSUME NEW t \in Thread, EndRead(t) PROVE OpenInv'
  BY <1>24 DEF EndRead
<1>25. ASSUME NEW t \in Thread, ThreadExit(t) PROVE OpenInv'
  BY <1>25 DEF ThreadExit
<1>26. CASE ScanStart
  BY <1>26 DEF ScanStart
<1>27. CASE Reuse
  BY <1>27 DEF Reuse
<1>28. CASE Commit
  BY <1>28 DEF Commit, Unlock
<1>29. CASE WriteAbort
  BY <1>29 DEF WriteAbort, Unlock
<1>30. CASE UNCHANGED vars BY <1>30 DEF vars
<1> QED BY <1>1, <1>2, <1>3, <1>4, <1>5, <1>6, <1>7, <1>8, <1>9, <1>10, <1>11, <1>12, <1>13, <1>14, <1>15, <1>16, <1>17, <1>18, <1>19, <1>20, <1>21, <1>22, <1>23, <1>24, <1>25, <1>26, <1>27, <1>28, <1>29, <1>30 DEF Next

\* rmutex is held by at most one thread or check, of its holder's process.
LEMMA MutexStep ==
  ASSUME TypeOK, FileInv, OpenInv, MutexInv, [Next]_vars
  PROVE  MutexInv'
<1> USE DEF TypeOK, OpenInv, MutexInv, Runs, InTable
<1>1. ASSUME NEW p \in Proc, OpenFirst(p) PROVE MutexInv'
  BY <1>1 DEF OpenFirst
<1>2. ASSUME NEW p \in Proc, OpenLater(p) PROVE MutexInv'
  BY <1>2 DEF OpenLater
<1>3. ASSUME NEW p \in Proc, GetShare(p) PROVE MutexInv'
  BY <1>3 DEF GetShare
<1>4. ASSUME NEW p \in Proc, Format(p) PROVE MutexInv'
  <2>1. share = {} /\ excl = p BY <1>4 DEF Format, FileInv
  <2>2. \A q \in Proc : ppc[q] # "open" BY <2>1 DEF FileInv, Shares
  <2>3. /\ \A t \in Thread : tpc[t] = "idle"
        /\ \A q \in Proc : cpc[q] = "none"
    BY <2>2
  <2> QED BY <1>4, <2>3 DEF Format
<1>5. ASSUME NEW p \in Proc, OpenDone(p) PROVE MutexInv'
  BY <1>5 DEF OpenDone
<1>6. ASSUME NEW p \in Proc, OpenFails(p) PROVE MutexInv'
  BY <1>6 DEF OpenFails, Gone
<1>7. ASSUME NEW p \in Proc, CloseStart(p) PROVE MutexInv'
  BY <1>7 DEF CloseStart
<1>8. ASSUME NEW p \in Proc, CloseSlot(p) PROVE MutexInv'
  BY <1>8 DEF CloseSlot
<1>9. ASSUME NEW p \in Proc, CloseDone(p) PROVE MutexInv'
  BY <1>9 DEF CloseDone, Gone
<1>10. ASSUME NEW p \in Proc, Die(p) PROVE MutexInv'
  BY <1>10 DEF Die, Gone
<1>11. ASSUME NEW p \in Proc, CheckStart(p) PROVE MutexInv'
  BY <1>11 DEF CheckStart
<1>12. ASSUME NEW p \in Proc, CheckSlot(p) PROVE MutexInv'
  BY <1>12 DEF CheckSlot
<1>13. ASSUME NEW p \in Proc, CheckLock(p) PROVE MutexInv'
  BY <1>13 DEF CheckLock
<1>14. ASSUME NEW p \in Proc, CheckClear(p) PROVE MutexInv'
  BY <1>14 DEF CheckClear
<1>15. ASSUME NEW p \in Proc, CheckDone(p) PROVE MutexInv'
  BY <1>15 DEF CheckDone
<1>16. ASSUME NEW p \in Proc, WriteBegin(p) PROVE MutexInv'
  BY <1>16 DEF WriteBegin
<1>17. ASSUME NEW t \in Thread, BeginWithSlot(t) PROVE MutexInv'
  BY <1>17 DEF BeginWithSlot
<1>18. ASSUME NEW t \in Thread, BeginWithoutSlot(t) PROVE MutexInv'
  BY <1>18 DEF BeginWithoutSlot
<1>19. ASSUME NEW t \in Thread, LockReaders(t) PROVE MutexInv'
  BY <1>19 DEF LockReaders
<1>20. ASSUME NEW t \in Thread, ClaimSlot(t) PROVE MutexInv'
  BY <1>20 DEF ClaimSlot
<1>21. ASSUME NEW t \in Thread, ReadersFull(t) PROVE MutexInv'
  BY <1>21 DEF ReadersFull
<1>22. ASSUME NEW t \in Thread, CountSlot(t) PROVE MutexInv'
  BY <1>22 DEF CountSlot
<1>23. ASSUME NEW t \in Thread, BeginRead(t) PROVE MutexInv'
  BY <1>23 DEF BeginRead
<1>24. ASSUME NEW t \in Thread, EndRead(t) PROVE MutexInv'
  BY <1>24 DEF EndRead
<1>25. ASSUME NEW t \in Thread, ThreadExit(t) PROVE MutexInv'
  BY <1>25 DEF ThreadExit
<1>26. CASE ScanStart
  BY <1>26 DEF ScanStart
<1>27. CASE Reuse
  BY <1>27 DEF Reuse
<1>28. CASE Commit
  BY <1>28 DEF Commit, Unlock
<1>29. CASE WriteAbort
  BY <1>29 DEF WriteAbort, Unlock
<1>30. CASE UNCHANGED vars BY <1>30 DEF vars
<1> QED BY <1>1, <1>2, <1>3, <1>4, <1>5, <1>6, <1>7, <1>8, <1>9, <1>10, <1>11, <1>12, <1>13, <1>14, <1>15, <1>16, <1>17, <1>18, <1>19, <1>20, <1>21, <1>22, <1>23, <1>24, <1>25, <1>26, <1>27, <1>28, <1>29, <1>30 DEF Next

\* mdb_reader_check stays below the number of slots it started with.
LEMMA CheckStep ==
  ASSUME TypeOK, OpenInv, CheckInv, [Next]_vars
  PROVE  CheckInv'
<1> USE DEF TypeOK, OpenInv, CheckInv
<1>1. ASSUME NEW p \in Proc, OpenFirst(p) PROVE CheckInv'
  BY <1>1 DEF OpenFirst
<1>2. ASSUME NEW p \in Proc, OpenLater(p) PROVE CheckInv'
  BY <1>2 DEF OpenLater
<1>3. ASSUME NEW p \in Proc, GetShare(p) PROVE CheckInv'
  BY <1>3 DEF GetShare
<1>4. ASSUME NEW p \in Proc, Format(p) PROVE CheckInv'
  BY <1>4 DEF Format
<1>5. ASSUME NEW p \in Proc, OpenDone(p) PROVE CheckInv'
  BY <1>5 DEF OpenDone
<1>6. ASSUME NEW p \in Proc, OpenFails(p) PROVE CheckInv'
  BY <1>6 DEF OpenFails, Gone
<1>7. ASSUME NEW p \in Proc, CloseStart(p) PROVE CheckInv'
  BY <1>7 DEF CloseStart
<1>8. ASSUME NEW p \in Proc, CloseSlot(p) PROVE CheckInv'
  BY <1>8 DEF CloseSlot
<1>9. ASSUME NEW p \in Proc, CloseDone(p) PROVE CheckInv'
  BY <1>9 DEF CloseDone, Gone
<1>10. ASSUME NEW p \in Proc, Die(p) PROVE CheckInv'
  BY <1>10 DEF Die, Gone
<1>11. ASSUME NEW p \in Proc, CheckStart(p) PROVE CheckInv'
  BY <1>11 DEF CheckStart
<1>12. ASSUME NEW p \in Proc, CheckSlot(p) PROVE CheckInv'
  BY <1>12 DEF CheckSlot
<1>13. ASSUME NEW p \in Proc, CheckLock(p) PROVE CheckInv'
  BY <1>13 DEF CheckLock
<1>14. ASSUME NEW p \in Proc, CheckClear(p) PROVE CheckInv'
  BY <1>14 DEF CheckClear
<1>15. ASSUME NEW p \in Proc, CheckDone(p) PROVE CheckInv'
  BY <1>15 DEF CheckDone
<1>16. ASSUME NEW p \in Proc, WriteBegin(p) PROVE CheckInv'
  BY <1>16 DEF WriteBegin
<1>17. ASSUME NEW t \in Thread, BeginWithSlot(t) PROVE CheckInv'
  BY <1>17 DEF BeginWithSlot
<1>18. ASSUME NEW t \in Thread, BeginWithoutSlot(t) PROVE CheckInv'
  BY <1>18 DEF BeginWithoutSlot
<1>19. ASSUME NEW t \in Thread, LockReaders(t) PROVE CheckInv'
  BY <1>19 DEF LockReaders
<1>20. ASSUME NEW t \in Thread, ClaimSlot(t) PROVE CheckInv'
  BY <1>20 DEF ClaimSlot
<1>21. ASSUME NEW t \in Thread, ReadersFull(t) PROVE CheckInv'
  BY <1>21 DEF ReadersFull
<1>22. ASSUME NEW t \in Thread, CountSlot(t) PROVE CheckInv'
  BY <1>22 DEF CountSlot
<1>23. ASSUME NEW t \in Thread, BeginRead(t) PROVE CheckInv'
  BY <1>23 DEF BeginRead
<1>24. ASSUME NEW t \in Thread, EndRead(t) PROVE CheckInv'
  BY <1>24 DEF EndRead
<1>25. ASSUME NEW t \in Thread, ThreadExit(t) PROVE CheckInv'
  BY <1>25 DEF ThreadExit
<1>26. CASE ScanStart
  BY <1>26 DEF ScanStart
<1>27. CASE Reuse
  BY <1>27 DEF Reuse
<1>28. CASE Commit
  BY <1>28 DEF Commit, Unlock
<1>29. CASE WriteAbort
  BY <1>29 DEF WriteAbort, Unlock
<1>30. CASE UNCHANGED vars BY <1>30 DEF vars
<1> QED BY <1>1, <1>2, <1>3, <1>4, <1>5, <1>6, <1>7, <1>8, <1>9, <1>10, <1>11, <1>12, <1>13, <1>14, <1>15, <1>16, <1>17, <1>18, <1>19, <1>20, <1>21, <1>22, <1>23, <1>24, <1>25, <1>26, <1>27, <1>28, <1>29, <1>30 DEF Next
\* While a process sets up the lock file no environment is open.
LEMMA NobodyOpen ==
  ASSUME TypeOK, FileInv, OpenInv, NEW p \in Proc, ppc[p] \in {"format", "first"}
  PROVE  /\ \A q \in Proc : ~Shares(q) /\ cpc[q] = "none" /\ wmutex # q
         /\ \A t \in Thread : tpc[t] = "idle" /\ tls[t] = NoSlot
<1>1. excl = p BY DEF FileInv
<1>2. share = {} BY <1>1 DEF FileInv
<1>3. \A q \in Proc : ~Shares(q) BY <1>2 DEF FileInv
<1> QED BY <1>3 DEF OpenInv, Shares, Runs, TypeOK

\* What is left of the others when a process goes.
LEMMA GoneOthers ==
  ASSUME TypeOK, NEW p \in Proc, Gone(p)
  PROVE  /\ \A t \in Thread : Home[t] = p =>
              tpc'[t] = "idle" /\ tls'[t] = NoSlot
         /\ \A t \in Thread : Home[t] # p =>
              /\ tpc'[t] = tpc[t] /\ tls'[t] = tls[t] /\ rid'[t] = rid[t]
              /\ Home[t] \in pidlock' <=> Home[t] \in pidlock
         /\ cpc'[p] = "none" /\ ppc'[p] = "closed" /\ envReaders'[p] = 0
         /\ \A q \in Proc \ {p} :
              /\ cpc'[q] = cpc[q] /\ deadPid'[q] = deadPid[q] /\ ppc'[q] = ppc[q]
              /\ envReaders'[q] = envReaders[q] /\ index'[q] = index[q]
BY DEF Gone, TypeOK

\* The slots of a process that goes are of no thread afterwards.
LEMMA SlotGone ==
  ASSUME TypeOK, SlotInv, NEW p \in Proc, Gone(p), UNCHANGED slots
  PROVE  SlotInv'
<1>1. UNCHANGED <<mrPid, numreaders>> OBVIOUS
<1>2. SlotOwned'
  BY <1>1, GoneOthers DEF SlotInv, SlotOwned, TypeOK, NoSlot
<1>3. ASSUME NEW t \in Thread
      PROVE  /\ tpc'[t] \in {"claimed", "begin", "active"} => tls'[t] # NoSlot
             /\ tpc'[t] \in {"lock", "search"} => tls'[t] = NoSlot
             /\ tls'[t] <= numreaders'
             /\ tls'[t] # NoSlot \/ tpc'[t] \in {"lock", "search"} => Home[t] \in pidlock'
  <2>1. CASE Home[t] = p BY <2>1, <1>1, GoneOthers DEF TypeOK, NoSlot
  <2>2. CASE Home[t] # p BY <2>2, <1>1, GoneOthers DEF SlotInv
  <2> QED BY <2>1, <2>2
<1>4. ASSUME NEW q \in Proc, cpc'[q] = "clear", NEW t \in Thread, Home[t] = deadPid'[q]
      PROVE  tls'[t] = NoSlot
  <2>1. q # p /\ cpc[q] = "clear" /\ deadPid'[q] = deadPid[q] BY <1>4, GoneOthers
  <2>2. tls[t] = NoSlot BY <1>4, <2>1 DEF SlotInv
  <2> QED BY <2>2, GoneOthers
<1> QED BY <1>2, <1>3, <1>4 DEF SlotInv

\* No step gives a slot to a second thread or takes it from the first.
LEMMA SlotStep ==
  ASSUME TypeOK, FileInv, OpenInv, MutexInv, SlotInv, [Next]_vars
  PROVE  SlotInv'
<1> USE DEF TypeOK, SlotInv, SlotOwned
<1>1. ASSUME NEW p \in Proc, OpenFirst(p) PROVE SlotInv'
  BY <1>1 DEF OpenFirst
<1>2. ASSUME NEW p \in Proc, OpenLater(p) PROVE SlotInv'
  BY <1>2 DEF OpenLater
<1>3. ASSUME NEW p \in Proc, GetShare(p) PROVE SlotInv'
  BY <1>3 DEF GetShare
<1>4. ASSUME NEW p \in Proc, Format(p) PROVE SlotInv'
  <2>1. /\ \A q \in Proc : cpc[q] = "none"
        /\ \A t \in Thread : tpc[t] = "idle" /\ tls[t] = NoSlot
    BY <1>4, NobodyOpen DEF Format
  <2> QED BY <1>4, <2>1 DEF Format, NoSlot
<1>5. ASSUME NEW p \in Proc, OpenDone(p) PROVE SlotInv'
  BY <1>5 DEF OpenDone
<1>6. ASSUME NEW p \in Proc, OpenFails(p) PROVE SlotInv'
  BY <1>6, SlotGone DEF OpenFails
<1>7. ASSUME NEW p \in Proc, CloseStart(p) PROVE SlotInv'
  <2>1. \A t \in Thread : /\ Home[t] = p => tls'[t] = NoSlot /\ tpc[t] = "idle"
                          /\ Home[t] # p => tls'[t] = tls[t]
    BY <1>7 DEF CloseStart
  <2>2. UNCHANGED <<mrPid, numreaders, tpc, cpc, deadPid, pidlock>> BY <1>7 DEF CloseStart
  <2>3. SlotOwned' BY <2>1, <2>2
  <2>4. \A t \in Thread :
          /\ tpc'[t] \in {"claimed", "begin", "active"} => tls'[t] # NoSlot
          /\ tpc'[t] \in {"lock", "search"} => tls'[t] = NoSlot
          /\ tls'[t] <= numreaders'
          /\ tls'[t] # NoSlot \/ tpc'[t] \in {"lock", "search"} => Home[t] \in pidlock'
    BY <2>1, <2>2 DEF NoSlot
  <2>5. \A q \in Proc : cpc'[q] = "clear" =>
          \A t \in Thread : Home[t] = deadPid'[q] => tls'[t] = NoSlot
    BY <2>1, <2>2
  <2> QED BY <2>3, <2>4, <2>5
<1>8. ASSUME NEW p \in Proc, CloseSlot(p) PROVE SlotInv'
  <2>1. \A t \in Thread : tls[t] # NoSlot => Home[t] # p
    BY <1>8 DEF CloseSlot, OpenInv, Runs
  <2>2. \A s \in Slot : mrPid[s] # p => mrPid'[s] = mrPid[s] BY <1>8 DEF CloseSlot
  <2>3. \A t \in Thread : tls[t] # NoSlot => mrPid'[tls[t]] = mrPid[tls[t]]
    BY <2>1, <2>2
  <2> QED BY <1>8, <2>3 DEF CloseSlot
<1>9. ASSUME NEW p \in Proc, CloseDone(p) PROVE SlotInv'
  BY <1>9, SlotGone DEF CloseDone
<1>10. ASSUME NEW p \in Proc, Die(p) PROVE SlotInv'
  BY <1>10, SlotGone DEF Die
<1>11. ASSUME NEW p \in Proc, CheckStart(p) PROVE SlotInv'
  BY <1>11 DEF CheckStart
<1>12. ASSUME NEW p \in Proc, CheckSlot(p) PROVE SlotInv'
  BY <1>12 DEF CheckSlot
<1>13. ASSUME NEW p \in Proc, CheckLock(p) PROVE SlotInv'
  BY <1>13 DEF CheckLock
<1>14. ASSUME NEW p \in Proc, CheckClear(p) PROVE SlotInv'
  BY <1>14 DEF CheckClear
<1>15. ASSUME NEW p \in Proc, CheckDone(p) PROVE SlotInv'
  BY <1>15 DEF CheckDone
<1>16. ASSUME NEW p \in Proc, WriteBegin(p) PROVE SlotInv'
  BY <1>16 DEF WriteBegin
<1>17. ASSUME NEW t \in Thread, BeginWithSlot(t) PROVE SlotInv'
  BY <1>17 DEF BeginWithSlot
<1>18. ASSUME NEW t \in Thread, BeginWithoutSlot(t) PROVE SlotInv'
  BY <1>18 DEF BeginWithoutSlot
<1>19. ASSUME NEW t \in Thread, LockReaders(t) PROVE SlotInv'
  BY <1>19 DEF LockReaders
<1>20. ASSUME NEW t \in Thread, ClaimSlot(t) PROVE SlotInv'
  <2>1. Found \in Slot /\ Found <= numreaders /\ (Found = numreaders \/ mrPid[Found] = None)
    BY <1>20, FoundRight DEF ClaimSlot, Slot
  <2>2. /\ mrPid' = [mrPid EXCEPT ![Found] = Home[t]]
        /\ tls' = [tls EXCEPT ![t] = Found] /\ tpc' = [tpc EXCEPT ![t] = "claimed"]
        /\ UNCHANGED <<numreaders, pidlock, cpc, deadPid>>
    BY <1>20 DEF ClaimSlot
  <2>3. InTable(t) BY <1>20 DEF ClaimSlot, InTable
  <2>4. /\ \A q \in Proc : cpc[q] # "clear"
        /\ \A u \in Thread \ {t} : tpc[u] # "claimed"
    BY <2>3 DEF MutexInv, InTable
  <2>5. \A u \in Thread \ {t} : tls[u] # NoSlot => tls[u] # Found /\ tls[u] < numreaders
    BY <2>1, <2>4
  <2>6. /\ mrPid'[Found] = Home[t] /\ tls'[t] = Found /\ tpc'[t] = "claimed"
        /\ \A s \in Slot \ {Found} : mrPid'[s] = mrPid[s]
        /\ \A u \in Thread \ {t} : tls'[u] = tls[u] /\ tpc'[u] = tpc[u]
    BY <2>1, <2>2
  <2>7. SlotOwned'
    BY <2>1, <2>2, <2>5, <2>6
  <2>8. Home[t] \in pidlock BY <1>20 DEF ClaimSlot
  <2> QED BY <2>1, <2>2, <2>4, <2>6, <2>7, <2>8, Numbers
<1>21. ASSUME NEW t \in Thread, ReadersFull(t) PROVE SlotInv'
  BY <1>21 DEF ReadersFull
<1>22. ASSUME NEW t \in Thread, CountSlot(t) PROVE SlotInv'
  <2>1. \A u \in Thread : tpc[u] = "claimed" => u = t
    BY <1>22 DEF CountSlot, MutexInv, InTable
  <2>0. numreaders \in Nat /\ (\A u \in Thread : tls[u] \in Int) /\ tls[t] <= numreaders
    <3>1. numreaders \in 0 .. MaxReaders /\ tls[t] <= numreaders OBVIOUS
    <3>2. \A u \in Thread : tls[u] \in Slot \cup {NoSlot} OBVIOUS
    <3>3. Slot \cup {NoSlot} \subseteq Int BY Numbers DEF NoSlot
    <3> QED BY <3>1, <3>2, <3>3
  <2>2. /\ numreaders' = IF tls[t] = numreaders THEN numreaders + 1 ELSE numreaders
        /\ tpc' = [tpc EXCEPT ![t] = "begin"]
        /\ UNCHANGED <<mrPid, tls, pidlock, cpc, deadPid>>
    BY <1>22 DEF CountSlot
  <2>3. /\ tpc'[t] = "begin" /\ tpc[t] = "claimed"
        /\ \A u \in Thread \ {t} : tpc'[u] = tpc[u]
    BY <1>22 DEF CountSlot
  <2>4. numreaders' \in Nat /\ numreaders' >= numreaders /\ tls[t] < numreaders'
    BY <2>0, <2>2
  <2>5. SlotOwned' BY <2>0, <2>1, <2>2, <2>3, <2>4
  <2> QED BY <2>0, <2>2, <2>3, <2>4, <2>5
<1>23. ASSUME NEW t \in Thread, BeginRead(t) PROVE SlotInv'
  BY <1>23 DEF BeginRead
<1>24. ASSUME NEW t \in Thread, EndRead(t) PROVE SlotInv'
  BY <1>24 DEF EndRead
<1>25. ASSUME NEW t \in Thread, ThreadExit(t) PROVE SlotInv'
  <2>1. tls[t] \in Slot /\ tls' = [tls EXCEPT ![t] = NoSlot]
        /\ mrPid' = [mrPid EXCEPT ![tls[t]] = None]
        /\ UNCHANGED <<numreaders, pidlock, tpc, cpc, deadPid>> /\ tpc[t] = "idle"
    BY <1>25 DEF ThreadExit
  <2>2. \A u \in Thread \ {t} : tls'[u] = tls[u]
          /\ (tls[u] # NoSlot => mrPid'[tls[u]] = mrPid[tls[u]])
    BY <2>1
  <2>3. tls'[t] = NoSlot BY <2>1
  <2>4. SlotOwned' BY <2>1, <2>2, <2>3
  <2> QED BY <2>1, <2>2, <2>3, <2>4 DEF NoSlot
<1>26. CASE ScanStart
  BY <1>26 DEF ScanStart
<1>27. CASE Reuse
  BY <1>27 DEF Reuse
<1>28. CASE Commit
  BY <1>28 DEF Commit, Unlock
<1>29. CASE WriteAbort
  BY <1>29 DEF WriteAbort, Unlock
<1>30. CASE UNCHANGED vars BY <1>30 DEF vars
<1> QED BY <1>1, <1>2, <1>3, <1>4, <1>5, <1>6, <1>7, <1>8, <1>9, <1>10, <1>11, <1>12, <1>13, <1>14, <1>15, <1>16, <1>17, <1>18, <1>19, <1>20, <1>21, <1>22, <1>23, <1>24, <1>25, <1>26, <1>27, <1>28, <1>29, <1>30 DEF Next

\* The slots that mdb_env_close0 will not look at are not its process's.
LEMMA CloseStep ==
  ASSUME TypeOK, FileInv, OpenInv, MutexInv, SlotInv, CloseInv, [Next]_vars
  PROVE  CloseInv'
<1> USE DEF TypeOK, CloseInv
<1>1. ASSUME NEW p \in Proc, OpenFirst(p) PROVE CloseInv'
  BY <1>1 DEF OpenFirst
<1>2. ASSUME NEW p \in Proc, OpenLater(p) PROVE CloseInv'
  BY <1>2 DEF OpenLater
<1>3. ASSUME NEW p \in Proc, GetShare(p) PROVE CloseInv'
  <2>1. envReaders[p] = 0 BY <1>3 DEF GetShare, OpenInv, Shares
  <2> QED BY <1>3, <2>1 DEF GetShare
<1>4. ASSUME NEW p \in Proc, Format(p) PROVE CloseInv'
  BY <1>4 DEF Format
<1>5. ASSUME NEW p \in Proc, OpenDone(p) PROVE CloseInv'
  <2>1. envReaders[p] = 0 BY <1>5 DEF OpenDone, OpenInv, Shares
  <2> QED BY <1>5, <2>1 DEF OpenDone
<1>6. ASSUME NEW p \in Proc, OpenFails(p) PROVE CloseInv'
  BY <1>6 DEF OpenFails, Gone
<1>7. ASSUME NEW p \in Proc, CloseStart(p) PROVE CloseInv'
  BY <1>7 DEF CloseStart
<1>8. ASSUME NEW p \in Proc, CloseSlot(p) PROVE CloseInv'
  <2>1. index[p] \in 1 .. MaxReaders /\ index' = [index EXCEPT ![p] = @ - 1]
        /\ UNCHANGED <<ppc, envReaders, numreaders, tpc>> /\ ppc[p] = "closing"
    BY <1>8 DEF CloseSlot
  <2>2. index'[p] = index[p] - 1 /\ \A q \in Proc \ {p} : index'[q] = index[q]
    BY <2>1
  <2>3. index[p] - 1 \in Slot BY <2>1 DEF Slot
  <2>4. /\ mrPid'[index[p] - 1] # p
        /\ \A s \in Slot, q \in Proc : mrPid[s] # q => mrPid'[s] # q
    BY <1>8, <2>3 DEF CloseSlot
  <2>5. \A s \in 0 .. numreaders - 1 : s \in Slot BY DEF Slot
  <2>6. ASSUME envReaders[p] > 0, NEW s \in index'[p] .. numreaders - 1
        PROVE  mrPid'[s] # p
    <3>1. s = index[p] - 1 \/ s \in index[p] .. numreaders - 1 BY <2>1, <2>2
    <3>2. s \in Slot BY <2>1, <2>2, <2>5
    <3> QED BY <2>1, <2>4, <2>6, <3>1, <3>2
  <2>7. ASSUME NEW q \in Proc, ppc[q] = "open", envReaders[q] > 0,
               \A t \in Thread : Home[t] = q => tpc[t] # "claimed",
               NEW s \in envReaders[q] .. numreaders - 1
        PROVE  mrPid'[s] # q
    BY <2>4, <2>5, <2>7
  <2>8. ASSUME NEW q \in Proc \ {p}, ppc[q] = "closing", envReaders[q] > 0,
               NEW s \in index[q] .. numreaders - 1
        PROVE  mrPid'[s] # q
    BY <2>4, <2>5, <2>8
  <2> QED BY <2>1, <2>2, <2>6, <2>7, <2>8
<1>9. ASSUME NEW p \in Proc, CloseDone(p) PROVE CloseInv'
  BY <1>9 DEF CloseDone, Gone
<1>10. ASSUME NEW p \in Proc, Die(p) PROVE CloseInv'
  BY <1>10 DEF Die, Gone
<1>11. ASSUME NEW p \in Proc, CheckStart(p) PROVE CloseInv'
  BY <1>11 DEF CheckStart
<1>12. ASSUME NEW p \in Proc, CheckSlot(p) PROVE CloseInv'
  BY <1>12 DEF CheckSlot
<1>13. ASSUME NEW p \in Proc, CheckLock(p) PROVE CloseInv'
  BY <1>13 DEF CheckLock
<1>14. ASSUME NEW p \in Proc, CheckClear(p) PROVE CloseInv'
  <2>1. ppc[p] = "open" /\ UNCHANGED <<ppc, envReaders, numreaders, tpc>>
        /\ index' = [index EXCEPT ![p] = @ + 1]
    BY <1>14 DEF CheckClear, OpenInv
  <2>2. \A s \in Slot, q \in Proc : mrPid[s] # q => mrPid'[s] # q
    BY <1>14 DEF CheckClear
  <2>3. \A q \in Proc : ppc[q] = "closing" => index'[q] = index[q] BY <2>1
  <2>4. \A n \in Nat : \A s \in n .. numreaders - 1 : s \in Slot BY DEF Slot
  <2>5. \A q \in Proc : index[q] \in Nat /\ envReaders[q] \in Nat OBVIOUS
  <2> QED BY <2>1, <2>2, <2>3, <2>4, <2>5
<1>15. ASSUME NEW p \in Proc, CheckDone(p) PROVE CloseInv'
  <2>1. ppc[p] = "open" BY <1>15 DEF CheckDone, OpenInv
  <2>2. \A q \in Proc : ppc[q] = "closing" => index'[q] = index[q]
    BY <1>15, <2>1 DEF CheckDone
  <2> QED BY <1>15, <2>2 DEF CheckDone
<1>16. ASSUME NEW p \in Proc, WriteBegin(p) PROVE CloseInv'
  BY <1>16 DEF WriteBegin
<1>17. ASSUME NEW t \in Thread, BeginWithSlot(t) PROVE CloseInv'
  BY <1>17 DEF BeginWithSlot
<1>18. ASSUME NEW t \in Thread, BeginWithoutSlot(t) PROVE CloseInv'
  BY <1>18 DEF BeginWithoutSlot
<1>19. ASSUME NEW t \in Thread, LockReaders(t) PROVE CloseInv'
  BY <1>19 DEF LockReaders
<1>20. ASSUME NEW t \in Thread, ClaimSlot(t) PROVE CloseInv'
  <2> DEFINE h == Home[t]
  <2>1. h \in Proc /\ ppc[h] = "open" BY <1>20 DEF ClaimSlot, OpenInv, Runs
  <2>2. /\ mrPid' = [mrPid EXCEPT ![Found] = h] /\ tpc' = [tpc EXCEPT ![t] = "claimed"]
        /\ UNCHANGED <<ppc, envReaders, numreaders, index>>
    BY <1>20 DEF ClaimSlot
  <2>3. \A s \in Slot, q \in Proc \ {h} : mrPid[s] # q => mrPid'[s] # q BY <2>1, <2>2
  <2>4. tpc'[t] = "claimed" /\ \A u \in Thread : Home[u] # h => tpc'[u] = tpc[u]
    BY <2>2
  <2>5. \A n \in Nat : \A s \in n .. numreaders - 1 : s \in Slot BY DEF Slot
  <2>6. \A q \in Proc : index[q] \in Nat /\ envReaders[q] \in Nat OBVIOUS
  <2> HIDE DEF h
  <2>7. ASSUME NEW q \in Proc \ {h}, ppc[q] = "open", envReaders[q] > 0,
               \A u \in Thread : Home[u] = q => tpc'[u] # "claimed",
               NEW s \in envReaders[q] .. numreaders - 1
        PROVE  mrPid'[s] # q
    BY <2>3, <2>4, <2>5, <2>6, <2>7
  <2>8. ASSUME NEW q \in Proc \ {h}, ppc[q] = "closing", envReaders[q] > 0,
               NEW s \in index[q] .. numreaders - 1
        PROVE  mrPid'[s] # q
    BY <2>3, <2>5, <2>6, <2>8
  <2> QED BY <2>1, <2>2, <2>4, <2>7, <2>8 DEF h
<1>21. ASSUME NEW t \in Thread, ReadersFull(t) PROVE CloseInv'
  BY <1>21 DEF ReadersFull
<1>22. ASSUME NEW t \in Thread, CountSlot(t) PROVE CloseInv'
  <2> DEFINE h == Home[t]
  <2>1. /\ h \in Proc /\ ppc[h] = "open" /\ tls[t] # NoSlot
        /\ mrPid[tls[t]] = h
    BY <1>22 DEF CountSlot, OpenInv, Runs, SlotInv, SlotOwned
  <2>2. /\ numreaders' = IF tls[t] = numreaders THEN numreaders + 1 ELSE numreaders
        /\ envReaders' = [envReaders EXCEPT ![h] = numreaders']
        /\ tpc' = [tpc EXCEPT ![t] = "begin"]
        /\ UNCHANGED <<ppc, mrPid, index>>
    BY <1>22 DEF CountSlot
  <2>0. numreaders \in 0 .. MaxReaders OBVIOUS
  <2>3. \A n \in Nat : \A s \in n .. numreaders' - 1 : s \in n .. numreaders - 1 \/ s = tls[t]
    <3>1. numreaders' = numreaders \/ (tls[t] = numreaders /\ numreaders' = tls[t] + 1)
      BY <2>2
    <3> HIDE DEF TypeOK, CloseInv
    <3> QED BY <2>0, <3>1
  <2>4. /\ \A u \in Thread : Home[u] # h => tpc'[u] = tpc[u]
        /\ \A q \in Proc \ {h} : envReaders'[q] = envReaders[q]
        /\ envReaders'[h] = numreaders' /\ numreaders' \in Nat
    BY <2>1, <2>2
  <2>5. \A q \in Proc : index[q] \in Nat /\ envReaders[q] \in Nat OBVIOUS
  <2> HIDE DEF h
  <2>6. ASSUME NEW q \in Proc \ {h}, ppc[q] = "open", envReaders[q] > 0,
               \A u \in Thread : Home[u] = q => tpc'[u] # "claimed",
               NEW s \in envReaders[q] .. numreaders' - 1
        PROVE  mrPid[s] # q
    <3>1. \A u \in Thread : Home[u] = q => tpc[u] # "claimed" BY <2>4, <2>6
    <3>2. \A x \in envReaders[q] .. numreaders - 1 : mrPid[x] # q BY <2>6, <3>1
    <3>3. s \in envReaders[q] .. numreaders - 1 \/ s = tls[t] BY <2>3, <2>5
    <3> QED BY <2>1, <3>2, <3>3
  <2>7. ASSUME NEW q \in Proc \ {h}, ppc[q] = "closing", envReaders[q] > 0,
               NEW s \in index[q] .. numreaders' - 1
        PROVE  mrPid[s] # q
    BY <2>1, <2>3, <2>5, <2>7
  <2> QED BY <2>1, <2>2, <2>4, <2>6, <2>7
<1>23. ASSUME NEW t \in Thread, BeginRead(t) PROVE CloseInv'
  BY <1>23 DEF BeginRead
<1>24. ASSUME NEW t \in Thread, EndRead(t) PROVE CloseInv'
  BY <1>24 DEF EndRead
<1>25. ASSUME NEW t \in Thread, ThreadExit(t) PROVE CloseInv'
  BY <1>25 DEF ThreadExit
<1>26. CASE ScanStart
  BY <1>26 DEF ScanStart
<1>27. CASE Reuse
  BY <1>27 DEF Reuse
<1>28. CASE Commit
  BY <1>28 DEF Commit, Unlock
<1>29. CASE WriteAbort
  BY <1>29 DEF WriteAbort, Unlock
<1>30. CASE UNCHANGED vars BY <1>30 DEF vars
<1> QED BY <1>1, <1>2, <1>3, <1>4, <1>5, <1>6, <1>7, <1>8, <1>9, <1>10, <1>11, <1>12, <1>13, <1>14, <1>15, <1>16, <1>17, <1>18, <1>19, <1>20, <1>21, <1>22, <1>23, <1>24, <1>25, <1>26, <1>27, <1>28, <1>29, <1>30 DEF Next
\* A process that is gone leaves mti_txnid alone.
LEMMA MtiGone ==
  ASSUME ~FailAwaited, TypeOK, FileInv, MtiInv, NEW p \in Proc, MayRelease(p), Gone(p),
         UNCHANGED <<formatted, data>>
  PROVE  MtiInv'
<1>1. CASE excl = p
  <2>1. \A q \in Proc : ppc[q] # "wait" /\ ~Shares(q)
    BY <1>1 DEF MayRelease, FileInv, TypeOK
  <2> QED BY <2>1, GoneOthers DEF MtiInv, Shares
<1>2. CASE excl # p
  <2>1. excl' = excl BY <1>2 DEF Gone
  <2> QED BY <2>1, GoneOthers DEF MtiInv, Shares
<1> QED BY <1>1, <1>2

\* mti_txnid is the newest meta page's again after each set-up and commit.
LEMMA MtiStep ==
  ASSUME ~FailAwaited, TypeOK, FileInv, OpenInv, MtiInv, [Next]_vars
  PROVE  MtiInv'
<1> USE DEF MtiInv, Shares
<1>1. ASSUME NEW p \in Proc, OpenFirst(p) PROVE MtiInv'
  BY <1>1 DEF OpenFirst
<1>2. ASSUME NEW p \in Proc, OpenLater(p) PROVE MtiInv'
  <2>1. CASE \E q \in Proc : Shares(q) BY <1>2, <2>1 DEF OpenLater
  <2>2. CASE ~\E q \in Proc : Shares(q)
    <3>1. excl # None BY <1>2, <2>2 DEF OpenLater, FileInv
    <3> QED BY <1>2, <3>1 DEF OpenLater
  <2> QED BY <2>1, <2>2
<1>3. ASSUME NEW p \in Proc, GetShare(p) PROVE MtiInv'
  BY <1>3 DEF GetShare
<1>4. ASSUME NEW p \in Proc, Format(p) PROVE MtiInv'
  <2>1. excl = p BY <1>4 DEF Format, FileInv
  <2> QED BY <1>4, <2>1 DEF Format, TypeOK
<1>5. ASSUME NEW p \in Proc, OpenDone(p) PROVE MtiInv'
  BY <1>5 DEF OpenDone
<1>6. ASSUME NEW p \in Proc, OpenFails(p) PROVE MtiInv'
  BY <1>6, MtiGone DEF OpenFails
<1>7. ASSUME NEW p \in Proc, CloseStart(p) PROVE MtiInv'
  BY <1>7 DEF CloseStart
<1>8. ASSUME NEW p \in Proc, CloseSlot(p) PROVE MtiInv'
  BY <1>8 DEF CloseSlot
<1>9. ASSUME NEW p \in Proc, CloseDone(p) PROVE MtiInv'
  <2>1. MayRelease(p) BY <1>9 DEF CloseDone, MayRelease, FileInv
  <2> QED BY <1>9, <2>1, MtiGone DEF CloseDone
<1>10. ASSUME NEW p \in Proc, Die(p) PROVE MtiInv'
  BY <1>10, MtiGone DEF Die
<1>11. ASSUME NEW p \in Proc, CheckStart(p) PROVE MtiInv'
  BY <1>11 DEF CheckStart
<1>12. ASSUME NEW p \in Proc, CheckSlot(p) PROVE MtiInv'
  BY <1>12 DEF CheckSlot
<1>13. ASSUME NEW p \in Proc, CheckLock(p) PROVE MtiInv'
  BY <1>13 DEF CheckLock
<1>14. ASSUME NEW p \in Proc, CheckClear(p) PROVE MtiInv'
  BY <1>14 DEF CheckClear
<1>15. ASSUME NEW p \in Proc, CheckDone(p) PROVE MtiInv'
  BY <1>15 DEF CheckDone
<1>16. ASSUME NEW p \in Proc, WriteBegin(p) PROVE MtiInv'
  BY <1>16 DEF WriteBegin
<1>17. ASSUME NEW t \in Thread, BeginWithSlot(t) PROVE MtiInv'
  BY <1>17 DEF BeginWithSlot
<1>18. ASSUME NEW t \in Thread, BeginWithoutSlot(t) PROVE MtiInv'
  BY <1>18 DEF BeginWithoutSlot
<1>19. ASSUME NEW t \in Thread, LockReaders(t) PROVE MtiInv'
  BY <1>19 DEF LockReaders
<1>20. ASSUME NEW t \in Thread, ClaimSlot(t) PROVE MtiInv'
  BY <1>20 DEF ClaimSlot
<1>21. ASSUME NEW t \in Thread, ReadersFull(t) PROVE MtiInv'
  BY <1>21 DEF ReadersFull
<1>22. ASSUME NEW t \in Thread, CountSlot(t) PROVE MtiInv'
  BY <1>22 DEF CountSlot
<1>23. ASSUME NEW t \in Thread, BeginRead(t) PROVE MtiInv'
  BY <1>23 DEF BeginRead
<1>24. ASSUME NEW t \in Thread, EndRead(t) PROVE MtiInv'
  BY <1>24 DEF EndRead
<1>25. ASSUME NEW t \in Thread, ThreadExit(t) PROVE MtiInv'
  BY <1>25 DEF ThreadExit
<1>26. CASE ScanStart
  BY <1>26 DEF ScanStart
<1>27. CASE Reuse
  BY <1>27 DEF Reuse
<1>28. CASE Commit
  BY <1>28 DEF Commit, Unlock
<1>29. CASE WriteAbort
  BY <1>29 DEF WriteAbort, Unlock
<1>30. CASE UNCHANGED vars BY <1>30 DEF vars
<1> QED BY <1>1, <1>2, <1>3, <1>4, <1>5, <1>6, <1>7, <1>8, <1>9, <1>10, <1>11, <1>12, <1>13, <1>14, <1>15, <1>16, <1>17, <1>18, <1>19, <1>20, <1>21, <1>22, <1>23, <1>24, <1>25, <1>26, <1>27, <1>28, <1>29, <1>30 DEF Next

\* An open environment finds mti_txnid right.
LEMMA OpenMti ==
  ASSUME TypeOK, FileInv, MtiInv, NEW p \in Proc, Shares(p)
  PROVE  mti = newest /\ excl = None
BY DEF MtiInv, FileInv, TypeOK

\* A reader's slot keeps its id, and newcomers behind the scan have the newest.
LEMMA ReadStep ==
  ASSUME ~FailAwaited, TypeOK, FileInv, OpenInv, SlotInv, MtiInv, ReadInv, [Next]_vars
  PROVE  ReadInv'
<1> USE DEF TypeOK, ReadInv, WriterIn
<1>1. ASSUME NEW p \in Proc, OpenFirst(p) PROVE ReadInv'
  BY <1>1 DEF OpenFirst
<1>2. ASSUME NEW p \in Proc, OpenLater(p) PROVE ReadInv'
  BY <1>2 DEF OpenLater
<1>3. ASSUME NEW p \in Proc, GetShare(p) PROVE ReadInv'
  BY <1>3 DEF GetShare
<1>4. ASSUME NEW p \in Proc, Format(p) PROVE ReadInv'
  <2>1. /\ \A q \in Proc : wmutex # q
        /\ \A t \in Thread : tpc[t] = "idle"
    BY <1>4, NobodyOpen DEF Format
  <2> QED BY <1>4, <2>1 DEF Format
<1>5. ASSUME NEW p \in Proc, OpenDone(p) PROVE ReadInv'
  <2>1. /\ \A q \in Proc : wmutex # q
        /\ \A t \in Thread : tpc[t] = "idle"
    BY <1>5, NobodyOpen DEF OpenDone
  <2> QED BY <1>5, <2>1 DEF OpenDone
<1>6. ASSUME NEW p \in Proc, OpenFails(p) PROVE ReadInv'
  BY <1>6 DEF OpenFails, Gone
<1>7. ASSUME NEW p \in Proc, CloseStart(p) PROVE ReadInv'
  BY <1>7 DEF CloseStart
<1>8. ASSUME NEW p \in Proc, CloseSlot(p) PROVE ReadInv'
  BY <1>8 DEF CloseSlot
<1>9. ASSUME NEW p \in Proc, CloseDone(p) PROVE ReadInv'
  BY <1>9 DEF CloseDone, Gone
<1>10. ASSUME NEW p \in Proc, Die(p) PROVE ReadInv'
  BY <1>10 DEF Die, Gone
<1>11. ASSUME NEW p \in Proc, CheckStart(p) PROVE ReadInv'
  BY <1>11 DEF CheckStart
<1>12. ASSUME NEW p \in Proc, CheckSlot(p) PROVE ReadInv'
  BY <1>12 DEF CheckSlot
<1>13. ASSUME NEW p \in Proc, CheckLock(p) PROVE ReadInv'
  BY <1>13 DEF CheckLock
<1>14. ASSUME NEW p \in Proc, CheckClear(p) PROVE ReadInv'
  BY <1>14 DEF CheckClear
<1>15. ASSUME NEW p \in Proc, CheckDone(p) PROVE ReadInv'
  BY <1>15 DEF CheckDone
<1>16. ASSUME NEW p \in Proc, WriteBegin(p) PROVE ReadInv'
  BY <1>16 DEF WriteBegin
<1>17. ASSUME NEW t \in Thread, BeginWithSlot(t) PROVE ReadInv'
  BY <1>17 DEF BeginWithSlot
<1>18. ASSUME NEW t \in Thread, BeginWithoutSlot(t) PROVE ReadInv'
  BY <1>18 DEF BeginWithoutSlot
<1>19. ASSUME NEW t \in Thread, LockReaders(t) PROVE ReadInv'
  BY <1>19 DEF LockReaders
<1>20. ASSUME NEW t \in Thread, ClaimSlot(t) PROVE ReadInv'
  BY <1>20 DEF ClaimSlot
<1>21. ASSUME NEW t \in Thread, ReadersFull(t) PROVE ReadInv'
  BY <1>21 DEF ReadersFull
<1>22. ASSUME NEW t \in Thread, CountSlot(t) PROVE ReadInv'
  BY <1>22 DEF CountSlot
<1>23. ASSUME NEW t \in Thread, BeginRead(t) PROVE ReadInv'
  <2>1. tls[t] \in Slot /\ \A u \in Thread \ {t} : tls[u] # tls[t]
    BY <1>23 DEF BeginRead, SlotInv, SlotOwned
  <2>2. /\ mrTxn' = [mrTxn EXCEPT ![tls[t]] = mti] /\ rid' = [rid EXCEPT ![t] = mti]
        /\ tpc' = [tpc EXCEPT ![t] = "active"]
        /\ UNCHANGED <<tls, mti, wmutex, wpc, scan>>
    BY <1>23 DEF BeginRead
  <2>3. mrTxn'[tls[t]] = mti /\ rid'[t] = mti BY <2>1, <2>2
  <2>4. \A u \in Thread \ {t} : tpc'[u] = tpc[u] /\ rid'[u] = rid[u]
    BY <2>2
  <2>5. \A u \in Thread \ {t} : tls[u] \in Slot => mrTxn'[tls[u]] = mrTxn[tls[u]]
    BY <2>1, <2>2
  <2>6. \A u \in Thread : tpc[u] = "active" => tls[u] \in Slot BY DEF SlotInv
  <2> QED BY <2>2, <2>3, <2>4, <2>5, <2>6
<1>24. ASSUME NEW t \in Thread, EndRead(t) PROVE ReadInv'
  <2>1. tls[t] \in Slot /\ \A u \in Thread \ {t} : tls[u] # tls[t]
    BY <1>24 DEF EndRead, SlotInv, SlotOwned
  <2>2. /\ mrTxn' = [mrTxn EXCEPT ![tls[t]] = Idle] /\ rid' = [rid EXCEPT ![t] = 0]
        /\ tpc' = [tpc EXCEPT ![t] = "idle"]
        /\ UNCHANGED <<tls, mti, wmutex, wpc, scan>>
    BY <1>24 DEF EndRead
  <2>3. tpc'[t] = "idle" BY <2>2
  <2>4. \A u \in Thread \ {t} : tpc'[u] = tpc[u] /\ rid'[u] = rid[u]
    BY <2>2
  <2>5. \A u \in Thread \ {t} : tls[u] \in Slot => mrTxn'[tls[u]] = mrTxn[tls[u]]
    BY <2>1, <2>2
  <2>6. \A u \in Thread : tpc[u] = "active" => tls[u] \in Slot BY DEF SlotInv
  <2> QED BY <2>2, <2>3, <2>4, <2>5, <2>6
<1>25. ASSUME NEW t \in Thread, ThreadExit(t) PROVE ReadInv'
  BY <1>25 DEF ThreadExit
<1>26. CASE ScanStart
  <2>1. ASSUME NEW t \in Thread, tpc[t] = "active" PROVE tls[t] < numreaders
    BY <2>1 DEF SlotInv, SlotOwned
  <2>2. \A t \in Thread : tls[t] \in Int
    <3>1. Slot \cup {NoSlot} \subseteq Int BY Numbers DEF NoSlot
    <3> QED BY <3>1
  <2>3. scan' = numreaders /\ UNCHANGED <<tpc, tls, rid, mti, mrTxn>> BY <1>26 DEF ScanStart
  <2> QED BY <2>1, <2>2, <2>3
<1>27. CASE Reuse
  BY <1>27 DEF Reuse
<1>28. CASE Commit
  BY <1>28 DEF Commit, Unlock
<1>29. CASE WriteAbort
  BY <1>29 DEF WriteAbort, Unlock
<1>30. CASE UNCHANGED vars BY <1>30 DEF vars
<1> QED BY <1>1, <1>2, <1>3, <1>4, <1>5, <1>6, <1>7, <1>8, <1>9, <1>10, <1>11, <1>12, <1>13, <1>14, <1>15, <1>16, <1>17, <1>18, <1>19, <1>20, <1>21, <1>22, <1>23, <1>24, <1>25, <1>26, <1>27, <1>28, <1>29, <1>30 DEF Next

\* Only versions that no reader has lose pages to reuse.
LEMMA ReuseStep ==
  ASSUME ~FailAwaited, TypeOK, FileInv, OpenInv, SlotInv, MtiInv, ReadInv, ReuseInv, [Next]_vars
  PROVE  ReuseInv'
<1> USE DEF TypeOK, ReuseInv, VersionKept
<1>1. ASSUME NEW p \in Proc, OpenFirst(p) PROVE ReuseInv'
  BY <1>1 DEF OpenFirst
<1>2. ASSUME NEW p \in Proc, OpenLater(p) PROVE ReuseInv'
  BY <1>2 DEF OpenLater
<1>3. ASSUME NEW p \in Proc, GetShare(p) PROVE ReuseInv'
  BY <1>3 DEF GetShare
<1>4. ASSUME NEW p \in Proc, Format(p) PROVE ReuseInv'
  BY <1>4 DEF Format
<1>5. ASSUME NEW p \in Proc, OpenDone(p) PROVE ReuseInv'
  BY <1>5 DEF OpenDone
<1>6. ASSUME NEW p \in Proc, OpenFails(p) PROVE ReuseInv'
  BY <1>6 DEF OpenFails, Gone
<1>7. ASSUME NEW p \in Proc, CloseStart(p) PROVE ReuseInv'
  BY <1>7 DEF CloseStart
<1>8. ASSUME NEW p \in Proc, CloseSlot(p) PROVE ReuseInv'
  BY <1>8 DEF CloseSlot
<1>9. ASSUME NEW p \in Proc, CloseDone(p) PROVE ReuseInv'
  BY <1>9 DEF CloseDone, Gone
<1>10. ASSUME NEW p \in Proc, Die(p) PROVE ReuseInv'
  BY <1>10 DEF Die, Gone
<1>11. ASSUME NEW p \in Proc, CheckStart(p) PROVE ReuseInv'
  BY <1>11 DEF CheckStart
<1>12. ASSUME NEW p \in Proc, CheckSlot(p) PROVE ReuseInv'
  BY <1>12 DEF CheckSlot
<1>13. ASSUME NEW p \in Proc, CheckLock(p) PROVE ReuseInv'
  BY <1>13 DEF CheckLock
<1>14. ASSUME NEW p \in Proc, CheckClear(p) PROVE ReuseInv'
  BY <1>14 DEF CheckClear
<1>15. ASSUME NEW p \in Proc, CheckDone(p) PROVE ReuseInv'
  BY <1>15 DEF CheckDone
<1>16. ASSUME NEW p \in Proc, WriteBegin(p) PROVE ReuseInv'
  BY <1>16 DEF WriteBegin
<1>17. ASSUME NEW t \in Thread, BeginWithSlot(t) PROVE ReuseInv'
  BY <1>17 DEF BeginWithSlot
<1>18. ASSUME NEW t \in Thread, BeginWithoutSlot(t) PROVE ReuseInv'
  BY <1>18 DEF BeginWithoutSlot
<1>19. ASSUME NEW t \in Thread, LockReaders(t) PROVE ReuseInv'
  BY <1>19 DEF LockReaders
<1>20. ASSUME NEW t \in Thread, ClaimSlot(t) PROVE ReuseInv'
  BY <1>20 DEF ClaimSlot
<1>21. ASSUME NEW t \in Thread, ReadersFull(t) PROVE ReuseInv'
  BY <1>21 DEF ReadersFull
<1>22. ASSUME NEW t \in Thread, CountSlot(t) PROVE ReuseInv'
  BY <1>22 DEF CountSlot
<1>23. ASSUME NEW t \in Thread, BeginRead(t) PROVE ReuseInv'
  <2>1. mti = newest BY <1>23, OpenMti DEF BeginRead, OpenInv, Runs, Shares
  <2> QED BY <1>23, <2>1 DEF BeginRead
<1>24. ASSUME NEW t \in Thread, EndRead(t) PROVE ReuseInv'
  BY <1>24 DEF EndRead
<1>25. ASSUME NEW t \in Thread, ThreadExit(t) PROVE ReuseInv'
  BY <1>25 DEF ThreadExit
<1>26. CASE ScanStart
  BY <1>26 DEF ScanStart
<1>27. CASE Reuse
  <2>1. mti = newest BY <1>27, OpenMti DEF Reuse, OpenInv, WriterIn, Shares
  <2>2. Oldest <= newest BY <2>1, OldestRight
  <2>3. ASSUME NEW t \in Thread, tpc[t] = "active" PROVE Oldest <= rid[t]
    <3>1. tls[t] \in Slot /\ mrPid[tls[t]] # None
      BY <2>3 DEF SlotInv, SlotOwned
    <3>2. mrTxn[tls[t]] = rid[t] /\ rid[t] # Idle BY <2>3, Numbers DEF ReadInv
    <3>3. CASE tls[t] < scan
      <4>1. tls[t] \in 0 .. scan - 1 BY <3>1, <3>3 DEF Slot
      <4> QED BY <3>1, <3>2, <4>1, OldestRight
    <3>4. CASE ~(tls[t] < scan)
      <4>0. tls[t] \in Nat /\ scan \in 0 .. MaxReaders BY <3>1, Numbers
      <4>1. tls[t] >= scan BY <3>4, <4>0
      <4>2. rid[t] = mti BY <1>27, <2>3, <4>1 DEF ReadInv, Reuse
      <4> QED BY <4>2, OldestRight
    <3> QED BY <3>3, <3>4
  <2>4. reused' \in {Oldest, reused} /\ UNCHANGED <<newest, tpc, rid>> BY <1>27 DEF Reuse
  <2> QED BY <2>2, <2>3, <2>4
<1>28. CASE Commit
  <2>1. mti = newest BY <1>28, OpenMti DEF Commit, OpenInv, WriterIn, Shares
  <2>2. newest \in Nat /\ reused \in Nat BY Numbers
  <2> QED BY <1>28, <2>1, <2>2 DEF Commit, Unlock
<1>29. CASE WriteAbort
  BY <1>29 DEF WriteAbort, Unlock
<1>30. CASE UNCHANGED vars BY <1>30 DEF vars
<1> QED BY <1>1, <1>2, <1>3, <1>4, <1>5, <1>6, <1>7, <1>8, <1>9, <1>10, <1>11, <1>12, <1>13, <1>14, <1>15, <1>16, <1>17, <1>18, <1>19, <1>20, <1>21, <1>22, <1>23, <1>24, <1>25, <1>26, <1>27, <1>28, <1>29, <1>30 DEF Next

-----------------------------------------------------------------------------
(* The theorems.                                                            *)

\* The invariants hold before the first process opens the file.
LEMMA InitInv ==
  ASSUME Init
  PROVE  TableInv /\ CloseInv /\ VersionInv
<1>1. TypeOK BY Numbers DEF Init, TypeOK
<1>2. FileInv BY DEF Init, FileInv, Shares
<1>3. OpenInv BY DEF Init, OpenInv, Shares, Runs
<1>4. MutexInv BY DEF Init, MutexInv, InTable
<1>5. SlotInv BY DEF Init, SlotInv, SlotOwned, NoSlot
<1>6. CheckInv BY DEF Init, CheckInv
<1>7. CloseInv BY DEF Init, CloseInv
<1>8. VersionInv BY DEF Init, VersionInv, MtiInv, ReadInv, ReuseInv, VersionKept, WriterIn
<1> QED BY <1>1, <1>2, <1>3, <1>4, <1>5, <1>6, <1>7, <1>8 DEF TableInv

\* Whatever processes open, close, check the table and die, and in whatever
\* order, the lock file and the table are as TableInv says.
THEOREM TableKept == Spec => []TableInv
<1>1. Init => TableInv BY InitInv
<1>2. TableInv /\ [Next]_vars => TableInv'
  BY TypeStep, FileStep, OpenStep, MutexStep, SlotStep, CheckStep DEF TableInv
<1> QED BY <1>1, <1>2, PTL DEF Spec

\* Every variable of the lock file and of its processes keeps its type.
THEOREM TableTypes == Spec => []TypeOK
<1>1. TableInv => TypeOK BY DEF TableInv
<1> QED BY <1>1, TableKept, PTL

\* A slot is of one thread and the writer sees it: acquisition, thread exit,
\* mdb_reader_check, close and a new set-up of the lock file never take it away.
THEOREM SlotsOwned == Spec => []SlotOwned
<1>1. TableInv => SlotOwned BY DEF TableInv, SlotInv
<1> QED BY <1>1, TableKept, PTL

\* mdb_env_close0 leaves no slot of a process that has read, though it looks at
\* me_numreaders slots only.
THEOREM SlotsGivenBack == Spec => []CloseLeavesNoSlot
<1>1. Init => CloseInv BY InitInv
<1>2. TableInv /\ CloseInv /\ [Next]_vars => CloseInv'
  BY CloseStep DEF TableInv
<1>3. TableInv /\ CloseInv => CloseLeavesNoSlot
  BY DEF TableInv, TypeOK, CloseInv, CloseLeavesNoSlot
<1> QED BY <1>1, <1>2, <1>3, TableKept, PTL DEF Spec

\* When no mdb_env_open fails while another process waits for it, what readers
\* of any process read and what the writer reuses are kept apart.
LEMMA VersionsApart ==
  ASSUME ~FailAwaited
  PROVE  Spec => []VersionInv
<1>1. Init => VersionInv BY InitInv
<1>2. TableInv /\ VersionInv /\ [Next]_vars => VersionInv'
  BY MtiStep, ReadStep, ReuseStep DEF TableInv, VersionInv
<1> QED BY <1>1, <1>2, TableKept, PTL DEF Spec

\* No version that a living reader reads has lost pages to reuse.
THEOREM VersionsKept ==
  ASSUME ~FailAwaited
  PROVE  Spec => []VersionKept
<1>1. VersionInv => VersionKept BY DEF VersionInv, ReuseInv
<1> QED BY <1>1, VersionsApart, PTL

\* In an open environment mti_txnid is the newest meta page's id; with opens
\* that fail while another process waits it is not (run lock_file_reset).
THEOREM MtiStaysCurrent ==
  ASSUME ~FailAwaited
  PROVE  Spec => []MtiCurrent
<1>1. TableInv /\ VersionInv => MtiCurrent
  BY OpenMti DEF TableInv, VersionInv, MtiCurrent, Shares
<1> QED BY <1>1, TableKept, VersionsApart, PTL
===============================================================================
