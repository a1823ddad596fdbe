---------------------------- MODULE MCNestedTxn ----------------------------
(* Model checking of NestedTxn. *)
EXTENDS NestedTxn

Symmetry == Permutations(Leaf) \cup Permutations(Value)

\* What a page number that nobody reads from the file has there is not told apart.
\* (That the file equals itself says nothing: TLC evaluates it at each step there.)
InFile == UNION {{p \in Tree(s) : Where(s, p) = InMap(p)} : s \in Stacks}
View == <<Restrict(file, InFile), file = file, meta, txns, pg, cursors, commits>>
============================================================================
