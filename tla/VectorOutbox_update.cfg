SPECIFICATION Spec
CONSTANTS
  Uploads = {u2}
  u1 = u1
  u2 = u2
  p = p
  Unfenced = {u2}
  Passages = {}
  Forgets = {}
  Deprecations = {}
  Drains = {d}
  MaxFaults = 0
  MaxQueue = 2
  MaxRequests = 1
  Null = Null
INVARIANTS OnlyUnreferencedDeleted
CHECK_DEADLOCK FALSE
