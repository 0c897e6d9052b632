SPECIFICATION CostSpec
CONSTANTS
  Tenants = {t1}
  Workers = {w1, w2}
  Days = 1
  TokenUse = {0, 1000, 1001}
  MaxTokens = 1001
  MaxRetries = 1
  MaxCostCents = 10
  DailyLimit = 9
INVARIANTS
  WithinReservation
  CostTypeOK
  DailyCap
  LedgerCoversSpend
