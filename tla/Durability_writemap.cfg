SPECIFICATION DSpec
CONSTANTS
  Reader = {}
  MaxPg = 6
  MaxTxn = 4
  MaxTree = 1
  WriteMap = TRUE
  Modes = {{}, {"MAPASYNC"}}
  MaxLag <- Lag
INVARIANTS
  RecoveredIntact
  SyncedIntact
  PageConservation
