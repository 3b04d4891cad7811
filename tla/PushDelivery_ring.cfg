SPECIFICATION FairSpec
CONSTANTS
  Runs = {r1}
  Workspaces = {1, 2}
  Devices = {1}
  None = None
  Width = 1
  Fetches = 1
  MaxFails = 2
  MaxMoves = 2
  MaxFaults = 0
PROPERTIES EveryoneReached
CHECK_DEADLOCK FALSE
