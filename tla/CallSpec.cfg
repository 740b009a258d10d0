SPECIFICATION Spec
CONSTANTS
  Values = {"char", "int"}
  OCamls = {"str", "farr"}
  FloatArrays = {"farr"}
  Unsupported = {"union"}
  Void = "void"
  Size <- MCSize
  Align <- MCSize
  Word = 8
  increment_size = 3
  MaxArgs = 5
  NULL = "NULL"
INVARIANTS
  ArgsTerminated
  ArgumentsArrive
  
  CallbackCompletes
CHECK_DEADLOCK FALSE
