SPECIFICATION Spec
CONSTANTS
  Structs <- MCStructs
  Unions <- MCUnions
  Prims <- MCPrimsComplex
  PrimSize <- MCSizeComplex
  PrimAlign <- MCSizeComplex
  NoFfitype <- MCNoFfitype
  Void = "void"
  Lengths = {1, 3}
  MaxFields = 4
  Generated <- NoGenerated
  CFields <- NoCFields
INVARIANTS
  TypeOK
  FieldsApart
  SealedTypesTile
  StructOrder
  LibffiAgrees
PROPERTIES
  ImplementsC
CHECK_DEADLOCK FALSE
