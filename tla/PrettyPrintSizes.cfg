SPECIFICATION FairSpec
CONSTANTS
  Character <- Characters
  Value <- AllValues
  MaxSize = 20
INVARIANTS NeverOutside TruncatedRight PrecalculatedFits PrintsTheValue
PROPERTY PrintingEnds
