SPECIFICATION AllSpec
CONSTANTS
  Calls = {c1, c2}
  whole = whole
  empty = empty
  Backups = {whole, empty}
  Rows <- MCRows
  Own = {own}
  Limit = 1
  Offsets = {0, 1}
  Null = Null
  Ids = {1, 2}
  Batches = {b1, b2}
  MaxEntries = 1
  MaxTime = 2
  MaxLocks = 2
  MaxChanges = 1
  Rowids = {1, 2}
  Contents = {a, b}
  Absent = Absent
  Page = 2
  Window = 1
  IndexFaults = 1
  Workspaces = {1}
  Devices = {1}
  Width = 1
  Fetches = 1
  MaxFails = 2
  MaxMoves = 2
  MaxFaults = 1
  Memories = {1, 2, 3}
  Writers = {w}
  Latest = 1
  MaxEdits = 2
  None = None
  Nothing = Nothing
SYMMETRY Alike
INVARIANTS AllTypeOK TargetUnmixed CursorBacked CompleteMeansRebuilt ServedIsComplete 
PROPERTIES RewindsOnlyWhenEmpty LinksHandOver ImplementsContract
CHECK_DEADLOCK FALSE
