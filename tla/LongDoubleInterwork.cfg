SPECIFICATION Spec
CONSTANTS
  Platforms <- Quadruple
  Keys <- MCKeys
  MaxKeys = 2
PROPERTY LoadsEqualKeys
