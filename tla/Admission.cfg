SPECIFICATION AdmissionSpec
CONSTANTS
  c1 = c1
  c2 = c2
  j1 = j1
  j2 = j2
  j3 = j3
  j4 = j4
  Tenants = {t1}
  Creators = {c1, c2}
  JobIds = {j1, j2, j3, j4}
  Hour = 1
  MaxJobsPerHour = 1
  MaxConcurrentRuns = 1
  MaxActiveRecurring = 1
INVARIANTS
  HourlyOvershootBounded
  SaturationStopsAdmission
  
SYMMETRY Interchangeable
