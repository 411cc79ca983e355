CONSTANTS
  N = 4
  Bursts <- MCBursts
  Arrivals <- MCArrivals
  Quanta <- MCQuanta
  WordMod = 16
  Policies = {"P"}
SPECIFICATION Spec
INVARIANT RemainingIsTheRest
CHECK_DEADLOCK FALSE
