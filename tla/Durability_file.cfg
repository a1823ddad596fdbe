SPECIFICATION DSpec
CONSTANTS
  Reader = {}
  MaxPg = 6
  MaxTxn = 4
  MaxTree = 1
  WriteMap = FALSE
  Modes = {{}, {"NOMETASYNC"}, {"NOSYNC", "ORDERED"}, {"NOSYNC", "IOERRORS"}}
  MaxLag <- Lag
INVARIANTS
  RecoveredIntact
  Durable
  SyncedIntact
  CommittedIntact
