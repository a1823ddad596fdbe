SPECIFICATION Spec
CONSTANTS
  p1 = p1
  p2 = p2
  t1 = t1
  t2 = t2
  Proc = {p1, p2}
  Thread = {t1, t2}
  Home <- HomeOf
  MaxReaders = 2
  MaxTxn = 1
  Checker = {p1}
  Writer = {p1}
  FailAwaited = TRUE
INVARIANTS
  MtiCurrent
