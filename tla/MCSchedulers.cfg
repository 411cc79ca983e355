CONSTANTS
  N = 4
  Bursts <- MCBursts
  Arrivals <- MCArrivals
  Quanta <- MCQuanta
  WordMod = 16
  Policies = {"F", "P", "R", "S"}
CONSTRAINT MarkedFirst
SPECIFICATION Spec
INVARIANTS TypeOK NoPcbLostOrDoubled SumsAgree StopsOnlyInIdleGap CheckKeepsOrder OvertakenOnce ShortestRuns FirstComeFirst
PROPERTIES IsCpuSchedule ShortestOfBatch Returns
CHECK_DEADLOCK FALSE
