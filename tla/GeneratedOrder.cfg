SPECIFICATION GSpec
CONSTANTS
  Structs <- MCStructs
  Unions <- MCUnions
  Prims <- MCPrims
  PrimSize <- MCSize
  PrimAlign <- MCSize
  NoFfitype <- NoneMissing
  Void = "void"
  Lengths = {1, 3}
  MaxFields = 4
  Generated <- MCGenerated
  CFields <- MCCFields
INVARIANT StructOrder
CHECK_DEADLOCK FALSE
