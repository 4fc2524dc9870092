SPECIFICATION Spec
CONSTANTS
  b1 = b1
  b2 = b2
  b3 = b3
  b4 = b4
  t1 = t1
  t2 = t2
  NULL = NULL
  Block = {b1, b2, b3, b4}
  Thread = {t1}
SYMMETRY AnyBlock
INVARIANTS ListIsExact NothingDangles
