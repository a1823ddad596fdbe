---------------------------- MODULE SnapshotStore ----------------------------
(***************************************************************************)
(* What an LMDB environment promises its users (liblmdb/lmdb.h), with no    *)
(* pages, free lists, slots or scans: one writer at a time edits a draft of *)
(* the newest version and makes it the newest in one step; a reader gets    *)
(* the whole of one version, at least as new as the newest when it began,   *)
(* and reads nothing else until it ends.                                    *)
(*                                                                          *)
(* Two versions are kept, as two meta pages are: the newest, and the one    *)
(* before it or, once the writer has sealed its draft, the next.            *)
(***************************************************************************)
EXTENDS Integers

CONSTANTS Reader, Content,
          Empty      \* the content of a new environment

VARIABLES newest,    \* the newest version: its number and its content
          other,     \* the other version that is kept
          writer,    \* "none", "open" or "sealed"
          draft,     \* the content the writer is preparing
          phase,     \* each reader: "idle", "starting" or "open"
          since,     \* the newest version when the reader began
          snap       \* what an open reader reads

store == <<newest, other>>
write == <<writer, draft>>
read  == <<phase, since, snap>>

Init ==
  /\ newest = [ver |-> 0, content |-> Empty]
  /\ other = newest
  /\ writer = "none" /\ draft = Empty
  /\ phase = [r \in Reader |-> "idle"]
  /\ since = [r \in Reader |-> 0]
  /\ snap = [r \in Reader |-> Empty]

-----------------------------------------------------------------------------
\* mdb_txn_begin(MDB_RDONLY) starts ...
StartRead(r) ==
  /\ phase[r] = "idle"
  /\ phase' = [phase EXCEPT ![r] = "starting"]
  /\ since' = [since EXCEPT ![r] = newest.ver]
  /\ UNCHANGED <<store, write, snap>>

\* ... and, later, takes a version; a sealed draft may be taken early.
TakeSnapshot(r) ==
  /\ phase[r] = "starting"
  /\ \E v \in {newest, other} :
       /\ since[r] <= v.ver
       /\ snap' = [snap EXCEPT ![r] = v.content]
  /\ phase' = [phase EXCEPT ![r] = "open"]
  /\ UNCHANGED <<store, write, since>>

\* mdb_txn_reset or mdb_txn_abort.
EndRead(r) ==
  /\ phase[r] = "open"
  /\ phase' = [phase EXCEPT ![r] = "idle"]
  /\ since' = [since EXCEPT ![r] = 0]
  /\ snap' = [snap EXCEPT ![r] = Empty]
  /\ UNCHANGED <<store, write>>

\* mdb_txn_begin: the draft starts from the newest version.
BeginWrite ==
  /\ writer = "none"
  /\ writer' = "open"
  /\ draft' = newest.content
  /\ UNCHANGED <<store, read>>

\* mdb_put, mdb_del, mdb_drop.
Change ==
  /\ writer = "open"
  /\ draft' \in Content
  /\ UNCHANGED <<store, writer, read>>

\* mdb_txn_commit, first half: the draft takes the place of the old version ...
Seal ==
  /\ writer = "open"
  /\ writer' = "sealed"
  /\ other' = [ver |-> newest.ver + 1, content |-> draft]
  /\ UNCHANGED <<newest, draft, read>>

\* ... and becomes the newest one.
Publish ==
  /\ writer = "sealed"
  /\ newest' = other
  /\ other' = newest
  /\ writer' = "none" /\ draft' = Empty
  /\ UNCHANGED read

\* mdb_txn_abort, a commit of nothing or a commit that failed.
Rollback ==
  /\ writer = "open"
  /\ writer' = "none" /\ draft' = Empty
  /\ UNCHANGED <<store, read>>

Next == \/ BeginWrite \/ Change \/ Seal \/ Publish \/ Rollback
        \/ \E r \in Reader : StartRead(r) \/ TakeSnapshot(r) \/ EndRead(r)

Spec == Init /\ [][Next]_<<store, write, read>>
=============================================================================
