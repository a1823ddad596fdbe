SPECIFICATION Spec
VIEW View
SYMMETRY Symmetry
CONSTANTS
  Leaf = {l1, l2}
  Value = {v1, v2}
  Cursor = {c}
  Records = 3
  MaxPg = 11
  UmMax = 3
  Need = 1
  Batch = 1
  MaxDepth = 3
  MaxCommits = 1
CONSTRAINT FewStaleCopies
INVARIANTS
  PagesAtEveryLevel
  CursorsCurrent
PROPERTY
  DraftSpec
CHECK_DEADLOCK FALSE
