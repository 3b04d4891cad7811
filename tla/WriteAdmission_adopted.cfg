SPECIFICATION Spec
CONSTANTS
  Requests = {r1}
  Owners = {o1, o2}
  DeltaRuns = {k1}
  Pages = {}
  Null = Null
  AdmissionTTL = 2
  BarrierTTL = 2
  DeltaTTL = 2
  Lag = 1
  RemoteTime = 1
  MaxBackground = 1
  AdoptsAnyLock = TRUE
INVARIANT SnapshotLockStaysTimed
