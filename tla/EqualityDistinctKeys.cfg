SPECIFICATION Spec
CONSTANTS
  Value <- DistinctKeys
  LowByte <- LowBytes
  Text <- Texts
  CString <- CStrings
  Hash <- Hashes
INVARIANTS TrueIsRight FalseIsRight DiffIsInnermost
PROPERTY EqualEnds
CHECK_DEADLOCK FALSE
