SPECIFICATION InTurn
CONSTANTS
  Memories = {x, y}
  Writers = {c}
  Latest = 1
  MaxEdits = 3
  None = None
INVARIANT ClosersStand
CHECK_DEADLOCK FALSE
