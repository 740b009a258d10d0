------------------------------ MODULE CbufStubs ------------------------------
(***************************************************************************)
(* Calls of functions described with retbuf, through the OCaml wrapper of  *)
(* cbuf_generate_ml.ml and the C stub of cbuf_generate_c.ml.  The two      *)
(* generators walk the same description apart from each other and build    *)
(* lists back to front: the bindings of the wrapper, the parameters of the *)
(* external, those of the stub and the arguments of the C function.        *)
(*                                                                         *)
(* An argument is void, passed as it is (a primitive, OCaml bytes), by its *)
(* address (a pointer, a struct), or written by a view to a pointer (a     *)
(* string) first.  Descriptions that either generator refuses, and those   *)
(* whose wrapper the OCaml compiler refuses, are left out.                 *)
(***************************************************************************)
EXTENDS Integers, Sequences, SequencesExt

CONSTANTS
  MaxArgs,       (* bound: the arguments of a function           *)
  MaxBuffers,    (* bound: its buffers                           *)
  max_byte_args, (* what a bytecode primitive takes without argv *)
  Missing        (* the value of a variable that is not bound    *)

ASSUME CbufConstants ==
  /\ MaxArgs \in Nat \ {0} /\ MaxBuffers \in Nat \ {0} /\ max_byte_args \in Nat

VARIABLES
  fn,     (* the description: args, cposition, the number of buffers, and  *)
          (* whether the program is bytecode                               *)
  pc,     (* "bind", "stub", "c", "return", "done"                         *)
  binds,  (* the bindings still to evaluate, the outermost last            *)
  env,    (* the variables of the wrapper                                  *)
  values, (* the OCaml values the stub is called with                      *)
  cargs,  (* the arguments of the C function                               *)
  bytes,  (* what the C function wrote: buffer -> the output, or 0         *)
  result  (* the buffers returned, in order                                *)

vars == <<fn, pc, binds, env, values, cargs, bytes, result>>

Arg(i)     == <<"arg", i>>      (* the program's argument, or what is in it  *)
Address(i) == <<"address", i>>  (* variable: where it is                     *)
Written(i) == <<"written", i>>  (* variable: what a view wrote               *)
Buffer(j)  == <<"buffer", j>>   (* variable, and the bytes of its size       *)

Kinds == {"void", "value", "address", "view"}

Described(f, ks) ==
  SelectSeq([i \in 1..Len(f.args) |-> Arg(i)], LAMBDA a : f.args[a[2]] \in ks)
Outputs(f) == [j \in 1..f.buffers |-> Buffer(j)]

-----------------------------------------------------------------------------
(* The OCaml wrapper *)

(* pattern_and_exp_of_typ: the bindings, the innermost first *)
BindArg(f, bs, i) ==
  CASE f.args[i] = "address" -> bs \o <<Address(i)>>
    [] f.args[i] = "view"    -> <<Written(i)>> \o bs \o <<Address(i)>>
    [] OTHER                 -> bs

ArgBinds(f) == FoldLeft(LAMBDA bs, a : BindArg(f, bs, a[2]), <<>>, Described(f, Kinds))

(* pattern_and_exp_of_cbuffers: those of the arguments come again before   *)
(* each buffer.                                                            *)
BufferBinds(f) ==
  FoldLeft(LAMBDA bs, b : bs \o ArgBinds(f) \o <<b>>, <<>>, Outputs(f))

(* What is passed for argument i: a variable, or the argument as it is *)
Passed(f, i) ==
  CASE f.args[i] = "address" -> env[Address(i)]
    [] f.args[i] = "view"    -> env[Written(i)]
    [] OTHER                 -> Arg(i)

(* The external is applied to the arguments, then to the buffers. *)
Applied(f) ==
  [p \in 1..(Len(f.args) + f.buffers) |->
     IF p <= Len(f.args) THEN Passed(f, p) ELSE env[Buffer(p - Len(f.args))]]

-----------------------------------------------------------------------------
(* The C stub *)

(* value_params: those of the arguments come first, wherever the C         *)
(* function has the buffers.                                               *)
value_params(f) == Described(f, Kinds) \o Outputs(f)

(* byte_fn, generated for more than max_byte_args parameters, unpacks argv *)
(* from its end.                                                           *)
FromArgv(argv, n) ==
  FoldLeft(LAMBDA args, k : <<argv[n + 1 - k]>> \o args, <<>>, [k \in 1..n |-> k])

Parameters(f) ==
  LET n == Len(value_params(f)) IN
  IF f.bytecode /\ n > max_byte_args THEN FromArgv(values, n) ELSE values

(* Slip: the buffers are put where they are to be found in the end. *)
BodyUnreversed(f, vs, bufvars) ==
  Reverse(IF f.cposition = "First" THEN bufvars \o vs ELSE vs \o bufvars)

(* body: the lists are built back to front, and List.rev turns them round. *)
Body(f, vs, bufvars) ==
  Reverse(IF f.cposition = "First" THEN vs \o bufvars ELSE bufvars \o vs)

(* prj has nothing for void. *)
Projected(f) ==
  LET ps    == value_params(f)
      of(x) == Parameters(f)[CHOOSE k \in 1..Len(ps) : ps[k] = x]
      Consed(xs) == Reverse([k \in 1..Len(xs) |-> of(xs[k])])
  IN  Body(f, Consed(Described(f, Kinds \ {"void"})), Consed(Outputs(f)))

-----------------------------------------------------------------------------
(* The C function: its parameters are what is described and is not void,   *)
(* with the outputs where cposition says.                                  *)
Prototype(f) ==
  LET in == Described(f, Kinds \ {"void"}) IN
  IF f.cposition = "First" THEN Outputs(f) \o in ELSE in \o Outputs(f)

-----------------------------------------------------------------------------
Variables(f) ==
  {Address(i) : i \in 1..Len(f.args)} \cup {Written(i) : i \in 1..Len(f.args)}
    \cup {Buffer(j) : j \in 1..f.buffers}

(* foreign takes functions only: there is an argument, void perhaps.       *)
Functions ==
  [args : UNION {[1..n -> Kinds] : n \in 1..MaxArgs},
   cposition : {"First", "Last"}, buffers : 1..MaxBuffers, bytecode : BOOLEAN]

Init ==
  /\ fn \in Functions
  /\ pc = "bind" /\ binds = BufferBinds(fn)
  /\ env = [x \in Variables(fn) |-> Missing]
  /\ values = <<>> /\ cargs = <<>> /\ result = <<>>
  /\ bytes = [j \in 1..fn.buffers |-> 0]

(* let x = e in ...: from the outermost binding inwards *)
Let ==
  /\ pc = "bind" /\ binds # <<>>
  /\ LET x == Last(binds) IN
       env' = [env EXCEPT ![x] = CASE x[1] = "written" -> env[Address(x[2])]
                                   [] x[1] = "address" -> Arg(x[2])
                                   [] OTHER            -> x]
  /\ binds' = Front(binds)
  /\ UNCHANGED <<fn, pc, values, cargs, bytes, result>>

CallStub ==
  /\ pc = "bind" /\ binds = <<>>
  /\ pc' = "stub"
  /\ values' = Applied(fn)
  /\ UNCHANGED <<fn, binds, env, cargs, bytes, result>>

CallC ==
  /\ pc = "stub"
  /\ pc' = "c"
  /\ cargs' = Projected(fn)
  /\ UNCHANGED <<fn, binds, env, values, bytes, result>>

(* The C function writes its outputs, in any order. *)
CFunction ==
  /\ pc = "c"
  /\ pc' = "return"
  /\ bytes' \in [1..fn.buffers -> 0..fn.buffers]
  /\ \A b \in 1..fn.buffers :
       LET outputs == {p \in 1..Len(cargs) :
                         cargs[p] = Buffer(b) /\ p <= Len(Prototype(fn)) /\ Prototype(fn)[p][1] = "buffer"}
       IN  IF outputs = {} THEN bytes'[b] = 0
           ELSE \E p \in outputs : bytes'[b] = Prototype(fn)[p][2]
  /\ UNCHANGED <<fn, binds, env, values, cargs, result>>

(* Slip: the buffers are paired as they were consed. *)
TupleReversed ==
  /\ pc = "return"
  /\ pc' = "done"
  /\ result' = [j \in 1..fn.buffers |-> env[Buffer(fn.buffers + 1 - j)]]
  /\ UNCHANGED <<fn, binds, env, values, cargs, bytes>>

(* (b1, (b2, b3)), with the result of the external *)
Tuple ==
  /\ pc = "return"
  /\ pc' = "done"
  /\ result' = [j \in 1..fn.buffers |-> env[Buffer(j)]]
  /\ UNCHANGED <<fn, binds, env, values, cargs, bytes>>

Next == Let \/ CallStub \/ CallC \/ CFunction \/ Tuple

Spec == Init /\ [][Next]_vars

-----------------------------------------------------------------------------
(* Properties *)

(* Through both generators, in native code and in bytecode, each parameter *)
(* of the C function is the argument described for it, read after it was   *)
(* written, or a buffer of the size described.                             *)
ParametersInPlace == pc = "c" => cargs = Prototype(fn)

(* The program gets the outputs in the order of the description: each      *)
(* bytes holds what the function wrote through the parameter it stands     *)
(* for, and no output is lost or overwritten by another.                   *)
OutputsInOrder ==
  pc = "done" => \A j \in 1..fn.buffers : bytes[result[j][2]] = j
=============================================================================
