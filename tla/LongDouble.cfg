SPECIFICATION Spec
CONSTANTS
  Platforms <- Portable
  Keys <- MCKeys
  MaxKeys = 2
INVARIANTS
  CompareIsOrder
  EqualityIsIeee
  EqualKeysFound
PROPERTY LoadsEqualKeys
