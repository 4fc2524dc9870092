SPECIFICATION Spec
CONSTANTS
  Value <- SmallObjects
  LowByte <- LowBytes
  Text <- Texts
  CString <- CStrings
  Hash <- Hashes
PROPERTY ComparisonEnds
CHECK_DEADLOCK FALSE
