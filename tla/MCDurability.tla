---------------------------- MODULE MCDurability ----------------------------
(* Model checking of Durability: no readers, the disk and crashes instead. *)
EXTENDS Durability

\* The system lags by two pages, or by one where nothing else bounds the states
\* that come of it.
Lag == [m \in Modes |-> IF m = {} \/ m \cap {"IOERRORS", "MAPASYNC"} # {} THEN 1 ELSE 2]
=============================================================================
