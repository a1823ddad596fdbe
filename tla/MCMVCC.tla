------------------------------- MODULE MCMVCC -------------------------------
(* Model checking of MVCC, with the mapping to SnapshotStore. *)
EXTENDS MVCC_refines, TLC
=============================================================================
