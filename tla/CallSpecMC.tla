----------------------------- MODULE CallSpecMC -----------------------------
(* An instance of CallSpec: values of one and four bytes, pointers of      *)
(* eight, void as libffi has it.                                           *)
EXTENDS CallSpec

MCSize == [char |-> 1, int |-> 4, str |-> 8, farr |-> 8, void |-> 1]
=============================================================================
