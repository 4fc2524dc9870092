SPECIFICATION Spec
CONSTANTS
  k1 = k1
  k2 = k2
  k3 = k3
  t1 = t1
  t2 = t2
  NULL = NULL
  Key = {k1, k2}
  Thread = {t1}
  Hash <- RealHash
  PrimeCapacities <- RealPrimes
  FirstId <- FreshIds
  MaxSize = 7
INVARIANT LastAddedFirst
CHECK_DEADLOCK FALSE
