SPECIFICATION Spec
CONSTANTS
  a = a
  b = b
  t1 = t1
  NoJob = NoJob
  Jobs = {a, b}
  Tenants = {t1}
  Workers = {w1, w2}
  TenantOf <- SameTenant
  Parent <- Chained
  Trigger <- OnFailed
  SideEffecting = {}
  MaxSeq = 2
  MaxAttempts = 1
  MaxConcurrentRuns = 1
  MaxMsgs = 4
  ReadCount = 1
  MessageTimeout = 1
  ReclaimMinIdle = 2
  MaxFaults = 1
  MaxScanFaults = 0
  MaxCrashes = 0
  MaxCancels = 1
SYMMETRY WorkerSymmetry
INVARIANTS
  ChildFollowsParent
