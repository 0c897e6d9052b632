SPECIFICATION Spec
CONSTANTS
  a = a
  b = b
  t1 = t1
  NoJob = NoJob
  Jobs = {a}
  Tenants = {t1}
  Workers = {w1, w2}
  TenantOf <- SameTenant
  Parent <- Unchained
  Trigger <- OnSuccess
  SideEffecting = {a}
  MaxSeq = 1
  MaxAttempts = 2
  MaxConcurrentRuns = 1
  MaxMsgs = 5
  ReadCount = 2
  MessageTimeout = 1
  ReclaimMinIdle = 2
  MaxFaults = 0
  MaxScanFaults = 1
  MaxCrashes = 1
  MaxCancels = 0
SYMMETRY WorkerSymmetry
INVARIANTS
  TypeOK
  AtMostOnce
  SuccessIsEarned
PROPERTIES
  ImplementsEffectOnce
