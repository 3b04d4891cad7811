SPECIFICATION Spec
CONSTANTS
  Uploads = {u1}
  u1 = u1
  u2 = u2
  p = p
  Unfenced = {}
  Passages = {}
  Forgets = {f}
  Deprecations = {}
  Drains = {d}
  MaxFaults = 0
  MaxQueue = 2
  MaxRequests = 2
  Null = Null
INVARIANTS TombstonesAreTruth
CHECK_DEADLOCK FALSE
