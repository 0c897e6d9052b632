SPECIFICATION Spec
CONSTANTS
  a = a
  b = b
  t1 = t1
  NoJob = NoJob
  Jobs = {a, b, c}
  Tenants = {t1}
  Workers = {w1, w2}
  TenantOf <- SameTenant
  Parent <- Unchained
  Trigger <- OnSuccess
  SideEffecting = {}
  MaxSeq = 1
  MaxAttempts = 1
  MaxConcurrentRuns = 1
  MaxMsgs = 3
  ReadCount = 1
  MessageTimeout = 1
  ReclaimMinIdle = 2
  MaxFaults = 1
  MaxScanFaults = 0
  MaxCrashes = 0
  MaxCancels = 0
SYMMETRY FullSymmetry
INVARIANTS
  SlotOvershootBounded
