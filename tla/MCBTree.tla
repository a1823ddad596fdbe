------------------------------ MODULE MCBTree ------------------------------
EXTENDS BTree

Keys == 1..7
\* Two of the keys are short: a separator may get longer and shorter.
KSizes == [k \in Keys |-> IF k % 4 = 3 THEN 1 ELSE 4]
\* One data item fills half a page with its key, one goes to an overflow page.
DSizes == <<3, 9>>
\* Three levels, with one node on most pages.
Deep == [i \in 1..7 |-> <<8 - i, 1>>]
\* Two levels, a root page with no room, and a page that lacks one node to be
\* too empty.
Tight == << <<7, 1>>, <<6, 1>>, <<2, 2>>, <<4, 1>>, <<1, 1>>, <<2, 1>>, <<4, 2>>, <<2, NoData>>,
            <<3, 1>>, <<2, 2>>, <<5, 2>>, <<7, 2>> >>
One == << <<1, 1>> >>
TreeLoads == {Deep, Tight, One, <<>>}
\* What is told apart: not the history of the contents and the last answer.
View == <<pages, db, cursors, bad, seen, stale, wrote, calls>>
============================================================================
