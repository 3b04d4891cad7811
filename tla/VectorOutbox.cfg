SPECIFICATION Spec
CONSTANTS
  Uploads = {u1, u2, p}
  u1 = u1
  u2 = u2
  p = p
  Unfenced = {u2}
  Passages = {p}
  Forgets = {f}
  Deprecations = {x}
  Drains = {d}
  MaxFaults = 1
  MaxQueue = 2
  MaxRequests = 2
  Null = Null
INVARIANTS ListedIsServed NothingForgotten
CHECK_DEADLOCK FALSE
