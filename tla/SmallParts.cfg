CONSTANTS
  BatchTenants = {t1, t2, t3}
  MaxBatch = 6
  ReadJobs <- MCReadJobs
  OwnerOf <- MCOwnerOf
  Reader = "me"
  defaultLimit = 2
  maxLimit = 3
  MaxInt32 = 7
  MaxRuns = 4
SPECIFICATION PartsSpec
INVARIANTS
  HandsOutEveryMessageOnce
  KeepsTenantOrder
  NoTenantGetsAhead
  AcceptedConforms
  SpelledSchemasExact
  WalkComplete
  TotalCoversPage
