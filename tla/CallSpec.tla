------------------------------ MODULE CallSpec ------------------------------
(***************************************************************************)
(* A call specification (ffi_call_stubs.c): built argument by argument for *)
(* a function type by build_ccallspec or box_function (ctypes_ffi.ml), and *)
(* then used for calls through libffi, or for callbacks from it.           *)
(*                                                                         *)
(* Four passes over the arguments have to agree: add_argument lays out the *)
(* buffer, populate_arg_array lays it out again for each call, the writers *)
(* fill it in the opposite order, and libffi numbers the arguments without *)
(* those of type void.  Indices are from 1.                                *)
(***************************************************************************)
EXTENDS Naturals, Sequences

CONSTANTS
  Values,          (* types of C values                                    *)
  OCamls,          (* ocaml_string and the like: C gets the heap address   *)
  FloatArrays,     (* those of them whose heap block is not a string       *)
  Unsupported,     (* types that @-> accepts and libffi does not pass      *)
  Void,
  Size, Align,     (* the size and the alignment of their ffi_types        *)
  Word,            (* those of ffi_type_pointer                            *)
  increment_size,  (* how far the args array grows at once: 8 in the code  *)
  MaxArgs,         (* bound: the arguments of a function                   *)
  NULL

Passed == Values \cup OCamls
Types  == Passed \cup {Void}

ASSUME SpecConstants ==
  /\ FloatArrays \subseteq OCamls /\ Values \cap OCamls = {}
  /\ Void \notin Passed /\ NULL \notin Types
  /\ Size \in [Types -> Nat \ {0}] /\ Align \in [Types -> Nat \ {0}]
  /\ Word \in Nat \ {0} /\ \A t \in OCamls : Size[t] = Word /\ Align[t] = Word
  /\ increment_size \in Nat /\ increment_size >= 2
  /\ MaxArgs \in Nat

VARIABLES
  use,      (* "call" or "callback": build_ccallspec or box_function       *)
  phase,    (* where the building or the call under way has got to         *)
  fn,       (* the arguments: [type, offset], offset as add_argument says  *)
  spec,     (* struct callspec                                             *)
  slots,    (* arg_array: per libffi argument, what its pointer points to  *)
  offset,   (* the local of populate_arg_array                             *)
  pos,      (* the writer, or the boxed function, whose turn is next       *)
  mov,      (* the array of OCaml arguments the writers fill               *)
  buffer    (* what they wrote: [arg, offset]                              *)

local == <<slots, offset, pos, mov, buffer>>
vars  == <<use, phase, fn, spec, local>>

Address(o) == [ref |-> FALSE, at |-> o]  (* into the call buffer           *)
Ref(a)     == [ref |-> TRUE, at |-> a]   (* to the heap block of argument a *)

Init ==
  /\ use \in {"call", "callback"}
  /\ phase = "build"
  /\ fn = <<>>
  /\ spec = [bytes |-> 0, nelements |-> 0, capacity |-> 0, args |-> <<>>, roffset |-> 0,
             rtype |-> NULL, state |-> "BUILDING", cif |-> "none"]
  /\ slots = <<>> /\ offset = 0 /\ pos = 0 /\ mov = <<>> /\ buffer = {}

aligned_offset(o, alignment) ==
  LET overhang == o % alignment IN
  IF overhang = 0 THEN o ELSE o - overhang + alignment

-----------------------------------------------------------------------------
(* Building *)

(* An element of args; arg is the argument of fn it is for. *)
Elem(t)  == [type |-> t, arg |-> Len(fn) + 1]
NullElem == [type |-> NULL, arg |-> 0]

Extend(s) ==
  [s EXCEPT !.capacity = @ + increment_size, !.args = @ \o [i \in 1..increment_size |-> Elem(Void)]]

(* Slip: no room for the terminating null. *)
GrowLate(s) == IF s.nelements >= s.capacity THEN Extend(s) ELSE s

(* caml_stat_resize; the elements it adds are unspecified, and overwritten *)
(* up to the terminating null.                                             *)
Grow(s) == IF s.nelements + 2 >= s.capacity THEN Extend(s) ELSE s

(* ctypes_add_argument: the element, after it the null. *)
WithElement(t) ==
  LET g == Grow(spec) IN
  [g EXCEPT !.bytes = aligned_offset(@, Align[t]) + Size[t],
            !.args = [@ EXCEPT ![g.nelements + 1] = Elem(t), ![g.nelements + 2] = NullElem],
            !.nelements = @ + 1]

(* Slip: void is an argument like the others. *)
AddVoidElement ==
  /\ phase = "build" /\ Len(fn) < MaxArgs
  /\ fn' = Append(fn, [type |-> Void, offset |-> 0])
  /\ spec' = WithElement(Void)
  /\ UNCHANGED <<use, phase, local>>

(* add_argument of ctypes_ffi.ml on void: no element. *)
AddVoid ==
  /\ phase = "build" /\ Len(fn) < MaxArgs
  /\ fn' = Append(fn, [type |-> Void, offset |-> 0])
  /\ UNCHANGED <<use, phase, spec, local>>

AddArgument(t) ==
  /\ phase = "build" /\ Len(fn) < MaxArgs
  /\ fn' = Append(fn, [type |-> t, offset |-> aligned_offset(spec.bytes, Align[t])])
  /\ spec' = WithElement(t)
  /\ UNCHANGED <<use, phase, local>>

(* arg_type raises Unsupported on an argument or on the result. *)
Refuse(t) ==
  /\ phase = "build"
  /\ phase' = "refused"
  /\ UNCHANGED <<use, fn, spec, local>>

(* Slip: no word after the space for the result. *)
WithResultBare(r) ==
  LET roffset == aligned_offset(spec.bytes, Align[r]) IN
  [spec EXCEPT !.roffset = roffset, !.rtype = r, !.cif = "allocated",
               !.bytes = aligned_offset(roffset + Size[r], Word)]

(* The space for the result, and the extra word for libffi. *)
WithResult(r) ==
  LET roffset == aligned_offset(spec.bytes, Align[r]) IN
  [spec EXCEPT !.roffset = roffset, !.rtype = r, !.cif = "allocated",
               !.bytes = aligned_offset(roffset + Size[r], Word) + Word]

(* ctypes_prep_callspec *)
Prep(r) ==
  /\ phase = "build" /\ fn # <<>>
  /\ spec' = [WithResult(r) EXCEPT !.state = "CALLSPEC", !.cif = "prepared"]
  /\ phase' = "ready"
  /\ UNCHANGED <<use, fn, local>>

(* ffi_prep_cif refuses the ABI or a type. *)
PrepFails(r) ==
  /\ phase = "build" /\ fn # <<>>
  /\ spec' = WithResult(r)
  /\ phase' = "refused"
  /\ UNCHANGED <<use, fn, local>>

-----------------------------------------------------------------------------
(* ctypes_call *)

arg_array_offset == aligned_offset(spec.bytes, Word)

CallBegin ==
  /\ phase = "ready" /\ use = "call" /\ spec.state = "CALLSPEC"
  /\ phase' = "populate"
  /\ mov' = [i \in 1..spec.nelements |-> 0]
  /\ pos' = Len(fn)
  /\ UNCHANGED <<use, fn, spec, slots, offset, buffer>>

(* Slip: the arguments are packed. *)
PopulatePacked ==
  LET t == spec.args[Len(slots) + 1].type IN
  /\ phase = "populate" /\ Len(slots) < spec.nelements
  /\ slots' = Append(slots, Address(offset))
  /\ offset' = offset + Size[t]
  /\ UNCHANGED <<use, phase, fn, spec, pos, mov, buffer>>

(* One turn of the loop of populate_arg_array. *)
Populate ==
  LET t == spec.args[Len(slots) + 1].type
      o == aligned_offset(offset, Align[t]) IN
  /\ phase = "populate" /\ Len(slots) < spec.nelements
  /\ slots' = Append(slots, Address(o))
  /\ offset' = o + Size[t]
  /\ UNCHANGED <<use, phase, fn, spec, pos, mov, buffer>>

Populated ==
  /\ phase = "populate" /\ Len(slots) = spec.nelements
  /\ phase' = "write"
  /\ UNCHANGED <<use, fn, spec, local>>

(* The writers run from the last argument to the first: a value goes to    *)
(* the buffer ...                                                          *)
WriteValue ==
  /\ phase = "write" /\ pos > 0 /\ fn[pos].type \notin OCamls
  /\ buffer' = IF fn[pos].type = Void THEN buffer ELSE buffer \cup {[arg |-> pos, offset |-> fn[pos].offset]}
  /\ pos' = pos - 1
  /\ UNCHANGED <<use, phase, fn, spec, slots, offset, mov>>

(* ... an OCaml argument to mov.(idx), where idx counts every argument.    *)
WriteOcaml ==
  /\ phase = "write" /\ pos > 0 /\ fn[pos].type \in OCamls
  /\ pos \in DOMAIN mov
  /\ mov' = [mov EXCEPT ![pos] = pos]
  /\ pos' = pos - 1
  /\ UNCHANGED <<use, phase, fn, spec, slots, offset, buffer>>

(* "index out of bounds" leaves the call. *)
WriteOutOfBounds ==
  /\ phase = "write" /\ pos > 0 /\ fn[pos].type \in OCamls
  /\ pos \notin DOMAIN mov
  /\ phase' = "raised"
  /\ UNCHANGED <<use, fn, spec, local>>

Strings == \A i \in DOMAIN mov : mov[i] # 0 => fn[mov[i]].type \notin FloatArrays

(* The pointers of the OCaml arguments replace those into the buffer. *)
Refer ==
  /\ phase = "write" /\ pos = 0 /\ Strings
  /\ slots' = [i \in DOMAIN slots |-> IF mov[i] # 0 THEN Ref(mov[i]) ELSE slots[i]]
  /\ phase' = "ffi_call"
  /\ UNCHANGED <<use, fn, spec, offset, pos, mov, buffer>>

(* "Only strings have defined semantics for now": an assertion fails. *)
ReferFails ==
  /\ phase = "write" /\ pos = 0 /\ ~Strings
  /\ phase' = "aborted"
  /\ UNCHANGED <<use, fn, spec, local>>

(* Returned, or raised: the next call has a buffer of its own. *)
CallEnd ==
  /\ phase \in {"ffi_call", "raised"}
  /\ phase' = "ready"
  /\ slots' = <<>> /\ offset' = 0 /\ pos' = 0 /\ mov' = <<>> /\ buffer' = {}
  /\ UNCHANGED <<use, fn, spec>>

-----------------------------------------------------------------------------
(* callback_handler_with_lock: pos counts the applications; slots holds    *)
(* the number of the libffi argument each was made to, 0 for unit.         *)

CallbackBegin ==
  /\ phase = "ready" /\ use = "callback"
  /\ phase' = "apply"
  /\ UNCHANGED <<use, fn, spec, local>>

Tag == IF pos < Len(fn) THEN "Fn" ELSE "Done"

Arity == spec.nelements

(* A boxed function is applied to the next argument, or to unit when there *)
(* are none.                                                               *)
Apply ==
  /\ phase = "apply" /\ (pos < Arity \/ (Arity = 0 /\ pos = 0))
  /\ Tag = "Fn" /\ fn[pos + 1].type \notin OCamls
  /\ slots' = Append(slots, Address(IF Arity = 0 THEN 0 ELSE pos + 1))
  /\ pos' = pos + 1
  /\ UNCHANGED <<use, phase, fn, spec, offset, mov, buffer>>

Applied == phase = "apply" /\ pos > 0 /\ pos >= Arity

CallbackEnd ==
  /\ Applied /\ Tag = "Done"
  /\ phase' = "ready"
  /\ slots' = <<>> /\ pos' = 0
  /\ UNCHANGED <<use, fn, spec, offset, mov, buffer>>

(* assert (Tag_val(boxedfn) == Fn) or == Done fails, or the "assert false" *)
(* of Ctypes_memory.build, which reads no OCaml argument.                  *)
AssertFails ==
  /\ \/ Applied /\ Tag # "Done"
     \/ phase = "apply" /\ ~Applied /\ (Tag # "Fn" \/ fn[pos + 1].type \in OCamls)
  /\ phase' = "aborted"
  /\ UNCHANGED <<use, fn, spec, local>>

-----------------------------------------------------------------------------
Build    == \/ AddVoid
            \/ \E t \in Passed : AddArgument(t)
            \/ \E t \in Unsupported : Refuse(t)
            \/ \E r \in Values \cup {Void} : Prep(r) \/ PrepFails(r)
Call     == \/ CallBegin \/ Populate \/ Populated \/ WriteValue \/ WriteOcaml \/ WriteOutOfBounds
            \/ Refer \/ ReferFails \/ CallEnd
Callback == CallbackBegin \/ Apply \/ CallbackEnd \/ AssertFails

Next == Build \/ Call \/ Callback

Spec == Init /\ [][Next]_vars

-----------------------------------------------------------------------------
(* Properties *)

TypeOK ==
  /\ use \in {"call", "callback"}
  /\ phase \in {"build", "refused", "ready", "populate", "write", "raised", "ffi_call", "apply", "aborted"}
  /\ fn \in Seq([type : Types, offset : Nat])
  /\ spec \in [bytes : Nat, nelements : Nat, capacity : Nat, args : Seq([type : Types \cup {NULL}, arg : Nat]),
               roffset : Nat, rtype : Types \cup {NULL}, state : {"BUILDING", "CALLSPEC"},
               cif : {"none", "allocated", "prepared"}]
  /\ slots \in Seq([ref : BOOLEAN, at : Nat])
  /\ offset \in Nat /\ pos \in Nat
  /\ mov \in Seq(Nat)
  /\ buffer \subseteq [arg : Nat, offset : Nat]

(* "A null-terminated array of size `nelements' types" in an allocation of *)
(* `capacity' elements (ffi_call_stubs.c:103-122), after any number of     *)
(* arguments.                                                              *)
ArgsTerminated ==
  /\ Len(spec.args) = spec.capacity
  /\ spec.nelements > 0 =>
       /\ spec.nelements < spec.capacity
       /\ spec.args[spec.nelements + 1] = NullElem
       /\ \A i \in 1..spec.nelements :
            spec.args[i].arg \in DOMAIN fn /\ spec.args[i].type = fn[spec.args[i].arg].type

(* An argument after one of type void. *)
AfterVoid(a) == \E b \in 1..(a - 1) : fn[b].type = Void

(* The C function finds each argument where libffi looks for it: a value   *)
(* written at the aligned address that populate_arg_array computed anew,   *)
(* whatever types, void included, come before it; an OCaml argument at its *)
(* own address.  Except that an OCaml argument after one of type void may  *)
(* take another's place: write_arg counts void, libffi does not.           *)
ArgumentsArrive ==
  phase = "ffi_call" =>
    \A i \in 1..spec.nelements :
      LET a == spec.args[i].arg IN
      IF fn[a].type \in OCamls THEN AfterVoid(a) \/ slots[i] = Ref(a)
      ELSE \/ AfterVoid(a) /\ slots[i].ref
           \/ /\ ~slots[i].ref /\ [arg |-> a, offset |-> slots[i].at] \in buffer
              /\ slots[i].at % Align[fn[a].type] = 0

(* The arguments, the result, the word libffi may write after it, and the  *)
(* array of pointers lie apart from each other in the buffer, in this      *)
(* order (ffi_call_stubs.c:180-199, 317-325).                              *)
BufferApart ==
  phase = "ffi_call" =>
    /\ \A w \in buffer :
         LET end == w.offset + Size[fn[w.arg].type] IN
         /\ end <= spec.roffset
         /\ \A v \in buffer : w.arg < v.arg => end <= v.offset
    /\ spec.roffset % Align[spec.rtype] = 0
    /\ spec.roffset + (IF Size[spec.rtype] < Word THEN Word ELSE Size[spec.rtype]) <= arg_array_offset
    /\ arg_array_offset % Word = 0

(* A callback of a function with at most one void argument and no others,  *)
(* or with none, runs through its boxed functions: each is applied to its  *)
(* own argument, and the assertions of the handler hold.                   *)
CallbackCompletes ==
  use = "callback" /\ (\A a \in DOMAIN fn : fn[a].type \in Values \/ (fn[a].type = Void /\ Len(fn) = 1)) =>
    /\ phase # "aborted"
    /\ Applied => /\ Tag = "Done"
                  /\ \A a \in DOMAIN fn :
                       IF fn[a].type = Void THEN slots[a].at = 0 ELSE spec.args[slots[a].at].arg = a
=============================================================================
