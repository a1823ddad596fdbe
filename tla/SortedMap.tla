----------------------------- MODULE SortedMap -----------------------------
(***************************************************************************)
(* What the write operations on a database promise (liblmdb/lmdb.h), with   *)
(* no pages: a map from keys to data items, and an answer per call.         *)
(***************************************************************************)
EXTENDS Integers, TLC, Functions

CONSTANTS Key, Data

VARIABLES dict,   \* the items: a function from a set of keys to Data
          call    \* the last call that may write: op, key, data, and its answer rc

Answers(op, k, d, rc) == call' = [op |-> op, key |-> k, data |-> d, rc |-> rc]
With(k, d) == dict' = (k :> d) @@ dict

Init == DOMAIN dict \subseteq Key /\ call.rc = "ok"

Put(k, d) == Answers("put", k, d, "ok") /\ With(k, d)

\* MDB_NOOVERWRITE stores no second item under a key, MDB_APPEND none before
\* the last one.
PutNew(k, d) ==
  \/ Answers("nooverwrite", k, d, "keyexist") /\ k \in DOMAIN dict /\ dict' = dict
  \/ Answers("nooverwrite", k, d, "ok") /\ k \notin DOMAIN dict /\ With(k, d)
PutLast(k, d) ==
  \/ Answers("append", k, d, "keyexist") /\ (\E x \in DOMAIN dict : x >= k) /\ dict' = dict
  \/ Answers("append", k, d, "ok") /\ (\A x \in DOMAIN dict : x < k) /\ With(k, d)

Delete(k) ==
  \/ Answers("del", k, 0, "ok") /\ k \in DOMAIN dict /\ dict' = Restrict(dict, DOMAIN dict \ {k})
  \/ Answers("del", k, 0, "notfound") /\ k \notin DOMAIN dict /\ dict' = dict

\* Lookups and cursor moves change nothing.
Look == Answers("none", 0, 0, "ok") /\ dict' = dict

Next == \/ \E k \in Key, d \in Data : Put(k, d) \/ PutNew(k, d) \/ PutLast(k, d)
        \/ \E k \in Key : Delete(k)
        \/ Look

Spec == Init /\ [][Next]_<<dict, call>>
=============================================================================
