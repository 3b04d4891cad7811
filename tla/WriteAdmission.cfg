SPECIFICATION AllFairSpec
CONSTANTS
  Requests = {r1, r2}
  Owners = {o1, o2}
  DeltaRuns = {k1}
  Pages = {p1, p2}
  Writers = {r1}
  Holders = {o1}
  Null = Null
  AdmissionTTL = 3
  BarrierTTL = 2
  DeltaTTL = 2
  Lag = 1
  RemoteTime = 1
  MaxBackground = 1
  AdoptsAnyLock = FALSE
INVARIANTS BarrierExcludesAdmissions LockExcludesRestore RemoteOutsideBarrier NoRequestWritesBehindBarrier AdmittedWhileRunning
PROPERTIES ImplementsBarrier SnapshotLockLapses OrphanAdmissionLapses
