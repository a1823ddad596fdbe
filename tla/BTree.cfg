SPECIFICATION Spec
VIEW View
CONSTANTS
  Key <- Keys
  Data = {1, 2}
  KeySize <- KSizes
  DataSize <- DSizes
  PageMax = 16
  Cursor = {1, 2}
  Loads <- TreeLoads
  PutFlags = {"none","append","nooverwrite"}
  Moves = {"first","last","next","prev","set","range"}
  CursorFlags = {"none"}
  CursorWrites = {1}
  Trust = FALSE
  MaxCalls = 3
INVARIANTS
  WellFormed
  CountsRight
  PagesKept
  LookupRight
  CursorsScan
  CursorsOnTree
PROPERTY
  MapSpec
CHECK_DEADLOCK FALSE
