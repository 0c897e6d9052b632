SPECIFICATION RecurringSpec
CONSTANTS
  Jobs = {j}
  DayLen = 48
  Plans <- EastPlans
  NoPlan = NoPlan
  Lookback = 2
  ParentEnds = {198, 200}
  Start = 150
  Horizon = 216
  MaxSeq = 3
  MaxMissed = 1
INVARIANTS
  RunsOncePerOccurrence
