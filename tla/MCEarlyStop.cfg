CONSTANTS
  N = 4
  Bursts <- MCWork
  Arrivals <- MCArrivals
  Quanta <- MCQuanta
  WordMod = 16
  Policies = {"R"}
SPECIFICATION Spec
INVARIANT AllProcessed
CHECK_DEADLOCK FALSE
