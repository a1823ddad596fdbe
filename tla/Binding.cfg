SPECIFICATION Spec
CONSTANTS
  Name = {a, b, n}
  MaxDbs = 2
  DbiObj = {d1, d2, d3}
  TxnObj = {t1, t2}
  CursorObj = {c}
  ReadOnlyEnv = FALSE
  Care = {"handles"}
SYMMETRY Symmetry
INVARIANTS
  TypeOK
  WriteLock
  SlotProtects
  HandleWorks
  PutsLand
  CursorsOwned
