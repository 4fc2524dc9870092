SPECIFICATION FairSpec
CONSTANTS
  Token <- AllTokens
  MaxTokens = 8
  MaxDepth = 3
INVARIANTS TypeOK AcceptsOnlyJson RejectsOnlyBroken ErrorIffNull Ownership RecursionBounded
PROPERTY ParseEnds
