SPECIFICATION Spec
VIEW View
CONSTANTS
  Key <- Keys
  Data = {1, 2}
  KeySize <- KSizes
  DataSize <- DSizes
  PageMax = 16
  Cursor = {1}
  Loads <- TreeLoads
  PutFlags = {"none","append","nooverwrite"}
  Moves = {"set"}
  CursorFlags = {"none"}
  CursorWrites = {}
  Trust = FALSE
  MaxCalls = 3
INVARIANT
  CursorsFollow
CHECK_DEADLOCK FALSE
