SPECIFICATION Spec
CONSTANTS
  MaxArgs = 4
  MaxBuffers = 3
  max_byte_args = 5
  Missing = Missing
INVARIANTS
  ParametersInPlace
  OutputsInOrder
CHECK_DEADLOCK FALSE
