---------------------------- MODULE MCReaderTable ----------------------------
(* Model checking of ReaderTable: threads t1 in process p1, t2 in p2. *)
EXTENDS ReaderTable, TLC

CONSTANTS p1, p2, t1, t2

HomeOf == t1 :> p1 @@ t2 :> p2
=============================================================================
