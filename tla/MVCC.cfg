SPECIFICATION FairSpec
CONSTANTS
  Reader = {r1}
  MaxPg = 6
  MaxTxn = 4
  MaxTree = 2
  WriteMap = FALSE
INVARIANTS
  TypeOK
  SnapshotIntact
  SnapshotFresh
  MetasIntact
  IInv
  PageConservation
PROPERTIES
  StoreSpec
  NobodyWaits
