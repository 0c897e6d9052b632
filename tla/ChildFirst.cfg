SPECIFICATION Spec
CONSTANTS
  a = a
  b = b
  t1 = t1
  NoJob = NoJob
  Jobs = {a, b}
  Tenants = {t1}
  Workers = {w1}
  TenantOf <- SameTenant
  Parent <- Chained
  Trigger <- OnSuccess
  SideEffecting = {}
  MaxSeq = 1
  MaxAttempts = 2
  MaxConcurrentRuns = 1
  MaxMsgs = 4
  ReadCount = 2
  MessageTimeout = 1
  ReclaimMinIdle = 2
  MaxFaults = 0
  MaxScanFaults = 0
  MaxCrashes = 0
  MaxCancels = 0
INVARIANTS
  ChildRunsAfterParent
