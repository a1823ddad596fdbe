SPECIFICATION Spec
CONSTANTS
  Name = {a, b}
  MaxDbs = 2
  DbiObj = {d1, d2}
  TxnObj = {t1, t2}
  CursorObj = {c}
  ReadOnlyEnv = FALSE
  Care = {}
SYMMETRY Symmetry
INVARIANTS
  PutsLand
