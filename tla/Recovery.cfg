SPECIFICATION FairSpec
CONSTANTS
  a = a
  b = b
  t1 = t1
  NoJob = NoJob
  Jobs = {a, b}
  Tenants = {t1}
  Workers = {w1}
  TenantOf <- SameTenant
  Parent <- Unchained
  Trigger <- OnSuccess
  SideEffecting = {a}
  MaxSeq = 1
  MaxAttempts = 2
  MaxConcurrentRuns = 1
  MaxMsgs = 4
  ReadCount = 2
  MessageTimeout = 1
  ReclaimMinIdle = 2
  MaxFaults = 1
  MaxScanFaults = 0
  MaxCrashes = 1
  MaxCancels = 1
INVARIANTS
  Recoverable
  RetryBudget
  DeadLettersAccountedFor
PROPERTIES
  OutcomeIsFinal
  CancelledLeftAlone
  QueuedKeepsEntry
  EveryRunEnds
