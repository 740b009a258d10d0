--------------------------- MODULE StructLayoutMC ---------------------------
(* Instances of StructLayout and GeneratedStructs: primitive types of one, *)
(* two and four bytes (a complex type of two for which libffi has no type, *)
(* in one instance), and a header that declares struct { char; int; }.     *)
EXTENDS GeneratedStructs

MCPrims == {"char", "int"}
MCSize  == [char |-> 1, int |-> 4]

MCPrimsComplex == {"char", "int", "complex"}
MCSizeComplex  == [char |-> 1, int |-> 4, complex |-> 2]
MCNoFfitype    == {"complex"}
NoneMissing    == {}

MCStructs   == {"s1", "s2"}
MCUnions    == {"u1"}
NoGenerated == {}
NoCFields   == <<>>

MCGenerated == {"s2"}
MCCFields   == [s2 |-> <<"char", "int">>]
=============================================================================
