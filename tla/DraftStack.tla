---------------------------- MODULE DraftStack ----------------------------
(***************************************************************************)
(* What nested write transactions promise (lmdb.h, mdb_txn_begin), with no  *)
(* pages: a stack of drafts of the database.  A draft starts as a copy of   *)
(* what is below it, is changed while it is the last, and in the end        *)
(* replaces what is below it or is forgotten.                               *)
(***************************************************************************)
EXTENDS SequencesExt, Integers

CONSTANTS Leaf, Value

VARIABLES stored,   \* what is committed: a set of items <<leaf, value>>
          drafts    \* such a set for each running transaction

IsMap(items) ==
  /\ items \subseteq Leaf \X Value
  /\ \A i, j \in items : i[1] = j[1] => i = j

Init == IsMap(stored) /\ drafts = <<>>

\* A step takes what is stored from s to t, and the stack from old to new.
Begin(s, t, old, new) ==
  /\ new = Append(old, IF old = <<>> THEN s ELSE Last(old))
  /\ t = s

\* Of the last draft at most one leaf is changed, added or removed.
Write(s, t, old, new) ==
  /\ old # <<>> /\ Len(new) = Len(old) /\ Front(new) = Front(old)
  /\ IsMap(Last(new))
  /\ \A i, j \in (Last(new) \ Last(old)) \cup (Last(old) \ Last(new)) : i[1] = j[1]
  /\ t = s

\* The last draft ends: it replaces what is below it ...
Keep(s, t, old, new) ==
  \/ Len(old) = 1 /\ new = <<>> /\ t = Last(old)
  \/ Len(old) > 1 /\ new = Append(Front(Front(old)), Last(old)) /\ t = s

\* ... or is lost, with or without some that it started from.
Discard(s, t, old, new) == IsStrictPrefix(new, old) /\ t = s

Step(s, t, old, new) ==
  \/ Begin(s, t, old, new) \/ Write(s, t, old, new)
  \/ Keep(s, t, old, new) \/ Discard(s, t, old, new)

Next == \E s \in {stored}, t \in {stored'}, old \in {drafts}, new \in {drafts'} :
          Step(s, t, old, new)

Spec == Init /\ [][Next]_<<stored, drafts>>
============================================================================
