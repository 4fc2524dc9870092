SPECIFICATION Spec
CONSTANTS
  t1 = t1
  t2 = t2
  t3 = t3
  e1 = e1
  e2 = e2
  e3 = e3
  e4 = e4
  NULL = NULL
  error_out_of_memory = error_out_of_memory
  Thread = {t1, t2, t3}
  Text = {e1, e2, e3, e4}
INVARIANTS TextsAreOwned ShownIsOwn
PROPERTY OnlyExitForgets
SYMMETRY AnyName
CHECK_DEADLOCK FALSE
