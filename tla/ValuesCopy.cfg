SPECIFICATION Spec
CONSTANTS
  NULL = NULL
  Junk = Junk
  Node = {1, 2, 3, 4, 5, 6}
  Scalar = {"0", "1"}
  Zero = "0"
  Text = {"a", "b"}
  PrimeCapacities <- SmallPrimes
  InitialCapacity = 1
  Capacity = {0, 1}
  MaxValues = 3
  MaxRoots = 2
  MaxFailures = 0
  MaxLost = 0
INVARIANT ReturnsACopy
CHECK_DEADLOCK FALSE
