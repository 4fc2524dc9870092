SPECIFICATION Spec
CONSTANTS
  k1 = k1
  k2 = k2
  k3 = k3
  t1 = t1
  t2 = t2
  NULL = NULL
  Key = {k1, k2}
  Thread = {t1, t2}
  Hash <- HandoverHash
  PrimeCapacities <- SmallPrimes
  FirstId <- FreshIds
  MaxSize = 4
INVARIANTS TypeOK HalfEmpty NoGapOnPath CountsExact StoredOnce FreedExactlyOnce NestedAddNeverGrows
PROPERTY Refines
CHECK_DEADLOCK FALSE
