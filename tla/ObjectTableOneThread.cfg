SPECIFICATION FairSpec
CONSTANTS
  k1 = k1
  k2 = k2
  k3 = k3
  t1 = t1
  t2 = t2
  NULL = NULL
  Key = {k1, k2, k3}
  Thread = {t1}
  Hash <- SmallHash
  PrimeCapacities <- SmallPrimes
  FirstId <- UsedIds
  MaxSize = 5
INVARIANTS NewestFirst WalkIsExact
PROPERTY CallsReturn
CHECK_DEADLOCK FALSE
