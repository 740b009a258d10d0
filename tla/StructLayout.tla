---------------------------- MODULE StructLayout ----------------------------
(***************************************************************************)
(* Struct and union types under construction: the mutable records of       *)
(* ctypes_static.ml that field and seal of ctypes_structs_computed.ml      *)
(* update, for several types nested in one another and declared in any     *)
(* order, and the element list that struct_arg_type of ctypes_ffi.ml makes *)
(* of a sealed struct.  A view of a type stands for the type: field, seal, *)
(* sizeof and alignment look through it.                                   *)
(***************************************************************************)
EXTENDS Integers, Sequences, SequencesExt

CONSTANTS
  Structs, Unions,
  Prims, PrimSize, PrimAlign,  (* primitive types, pointers included       *)
  NoFfitype,                   (* those libffi has no ffi_type for         *)
  Void,                        (* a type that never has a size             *)
  Lengths,                     (* array lengths; 1 is the plain type too   *)
  MaxFields                    (* bound: fields of all the types together  *)

Aggregates == Structs \cup Unions
Elems      == Prims \cup Aggregates \cup {Void}
Types      == [elem : Elems, len : Lengths]
Fields     == [type : Types, foffset : Nat]

ASSUME LayoutConstants ==
  /\ PrimSize \in [Prims -> Nat]
  /\ PrimAlign \in [Prims -> Nat \ {0}]
  /\ \A p, q \in Prims : PrimAlign[p] % PrimAlign[q] = 0 \/ PrimAlign[q] % PrimAlign[p] = 0
  /\ NoFfitype \subseteq Prims
  /\ Lengths \subseteq Nat \ {0}
  /\ MaxFields \in Nat
  /\ Structs \cap Unions = {} /\ Prims \cap Aggregates = {} /\ Void \notin Prims \cup Aggregates

VARIABLES
  spec,     (* spec and uspec: Incomplete { isize } is complete = FALSE    *)
  fields,   (* fields and ufields                                          *)
  returned  (* the field values the program has got from field, in order   *)

vars == <<spec, fields, returned>>

Init ==
  /\ spec = [a \in Aggregates |-> [complete |-> FALSE, size |-> 0, align |-> 0]]
  /\ fields = [a \in Aggregates |-> <<>>]
  /\ returned = [a \in Aggregates |-> <<>>]

-----------------------------------------------------------------------------
(* sizeof and alignment raise IncompleteType on the same types. *)
HasSize(t)   == t.elem \in Prims \/ (t.elem \in Aggregates /\ spec[t.elem].complete)
sizeof(t)    == t.len * (IF t.elem \in Prims THEN PrimSize[t.elem] ELSE spec[t.elem].size)
alignment(t) == IF t.elem \in Prims THEN PrimAlign[t.elem] ELSE spec[t.elem].align

(* List.fold_left max: the largest elements of a set of naturals, a single *)
(* one unless the set is empty.                                            *)
Largest(S) == {m \in S : \A n \in S : n <= m}

max_field_alignment(fs) == Largest({alignment(f.type) : f \in Range(fs)})
max_field_size(fs)      == Largest({sizeof(f.type) : f \in Range(fs)})

(* Slip: an aligned offset is moved on by a whole alignment. *)
aligned_offset_eager(offset, align) == offset - (offset % align) + align

aligned_offset(offset, align) ==
  LET overhang == offset % align IN
  IF overhang = 0 THEN offset ELSE offset - overhang + align

Room == MapThenSumSet(LAMBDA a : Len(returned[a]), Aggregates) < MaxFields

Return(a, f) ==
  /\ fields' = [fields EXCEPT ![a] = <<f>> \o @]
  /\ returned' = [returned EXCEPT ![a] = Append(@, f)]

(* Slip: the padding before the field is not counted. *)
StructFieldNoPadding(s, t) ==
  /\ Room /\ ~spec[s].complete /\ HasSize(t)
  /\ spec' = [spec EXCEPT ![s].size = @ + sizeof(t)]
  /\ Return(s, [type |-> t, foffset |-> aligned_offset(spec[s].size, alignment(t))])

(* field on a struct: raises before it changes anything unless the struct  *)
(* is incomplete and the field's type is not.                              *)
StructField(s, t) ==
  LET foffset == aligned_offset(spec[s].size, alignment(t)) IN
  /\ Room /\ ~spec[s].complete /\ HasSize(t)
  /\ spec' = [spec EXCEPT ![s].size = foffset + sizeof(t)]
  /\ Return(s, [type |-> t, foffset |-> foffset])

(* Slip: the offset is the placeholder of the generation stage. *)
UnionFieldPlaceholder(u, t) ==
  /\ Room /\ ~spec[u].complete
  /\ Return(u, [type |-> t, foffset |-> -1])
  /\ UNCHANGED spec

(* field on a union: the field's type is not looked at. *)
UnionField(u, t) ==
  /\ Room /\ ~spec[u].complete
  /\ Return(u, [type |-> t, foffset |-> 0])
  /\ UNCHANGED spec

Seal(a, size, align) == spec' = [spec EXCEPT ![a] = [complete |-> TRUE, size |-> size, align |-> align]]

(* Slip: the size is not rounded up. *)
SealStructUnpadded(s) ==
  /\ fields[s] # <<>> /\ ~spec[s].complete
  /\ fields' = [fields EXCEPT ![s] = Reverse(@)]
  /\ \E align \in max_field_alignment(fields[s]) : Seal(s, spec[s].size, align)
  /\ UNCHANGED returned

(* Slip: the fields are not put in order. *)
SealStructUnreversed(s) ==
  /\ fields[s] # <<>> /\ ~spec[s].complete
  /\ \E align \in max_field_alignment(fields[s]) :
       Seal(s, aligned_offset(spec[s].size, align), align)
  /\ UNCHANGED <<fields, returned>>

(* seal on a struct, with fields and not sealed yet. *)
SealStruct(s) ==
  /\ fields[s] # <<>> /\ ~spec[s].complete
  /\ fields' = [fields EXCEPT ![s] = Reverse(@)]
  /\ \E align \in max_field_alignment(fields[s]) :
       Seal(s, aligned_offset(spec[s].size, align), align)
  /\ UNCHANGED returned

(* seal on a union whose fields have sizes by now. *)
SealUnion(u) ==
  /\ fields[u] # <<>> /\ ~spec[u].complete /\ \A f \in Range(fields[u]) : HasSize(f.type)
  /\ fields' = [fields EXCEPT ![u] = Reverse(@)]
  /\ \E size \in max_field_size(fields[u]), align \in max_field_alignment(fields[u]) :
       Seal(u, aligned_offset(size, align), align)
  /\ UNCHANGED returned

(* The sizes are asked for after the fields were put in order: seal raises *)
(* IncompleteType and leaves them so.                                      *)
SealUnionFails(u) ==
  /\ fields[u] # <<>> /\ ~spec[u].complete /\ \E f \in Range(fields[u]) : ~HasSize(f.type)
  /\ fields' = [fields EXCEPT ![u] = Reverse(@)]
  /\ UNCHANGED <<spec, returned>>

Next ==
  \/ \E s \in Structs : SealStruct(s) \/ \E t \in Types : StructField(s, t)
  \/ \E u \in Unions : SealUnion(u) \/ SealUnionFails(u) \/ \E t \in Types : UnionField(u, t)

Spec == Init /\ [][Next]_vars

-----------------------------------------------------------------------------
(* A struct passed by value *)

(* ctypes_primitive_ffitype and ctypes_pointer_ffitype: none for long      *)
(* double and the complex types, else one of the primitive's size.         *)
NoType == [size |-> 0, align |-> 0]

PrimitiveFfitype(p) ==
  IF p \in NoFfitype THEN NoType ELSE [size |-> PrimSize[p], align |-> PrimAlign[p]]

(* arg_type raises Unsupported for arrays, unions and primitives without   *)
(* ffitype, deep in a struct too.                                          *)
Passable[a \in Aggregates] ==
  /\ a \in Structs /\ spec[a].complete
  /\ \A f \in Range(fields[a]) :
       /\ f.type.len = 1
       /\ IF f.type.elem \in Prims THEN PrimitiveFfitype(f.type.elem) # NoType
          ELSE f.type.elem \in Structs /\ Passable[f.type.elem]

Passed == {a \in Structs : Passable[a]}

(* The elements of the ffi_type that struct_arg_type allocates and fills:  *)
(* the types of the fields, which are in order by now, and NULL.           *)
struct_ffitype(a) ==
  [i \in 1..(Len(fields[a]) + 1) |-> IF i <= Len(fields[a]) THEN fields[a][i].type.elem ELSE "NULL"]

(* libffi's initialize_aggregate: the offsets, size and alignment of what  *)
(* it reads up to NULL.                                                    *)
FfiType[a \in Passed] ==
  LET elements == struct_ffitype(a)
      terms    == {i \in DOMAIN elements : elements[i] = "NULL"}
      place(st, e) ==
        LET t == IF e \in Prims THEN PrimitiveFfitype(e) ELSE FfiType[e]
            o == aligned_offset(st.size, t.align)
        IN  [size |-> o + t.size, align |-> IF t.align > st.align THEN t.align ELSE st.align,
             offsets |-> Append(st.offsets, o)]
      st == FoldLeft(place, [size |-> 0, align |-> 0, offsets |-> <<>>],
                     SubSeq(elements, 1, (CHOOSE i \in terms : \A j \in terms : i <= j) - 1))
  IN  [st EXCEPT !.size = aligned_offset(st.size, st.align)]

-----------------------------------------------------------------------------
(* Properties *)

TypeOK ==
  /\ spec \in [Aggregates -> [complete : BOOLEAN, size : Nat, align : Nat]]
  /\ fields \in [Aggregates -> Seq(Fields)] /\ returned \in [Aggregates -> Seq(Fields)]

(* The field values of a struct never overlap and each is aligned, and     *)
(* what was handed out before still holds after later fields, after seal,  *)
(* and after the types of the fields are used elsewhere.                   *)
FieldsApart ==
  \A s \in Structs : \A i \in DOMAIN returned[s] :
    LET f == returned[s][i] IN
    /\ HasSize(f.type)
    /\ f.foffset % alignment(f.type) = 0
    /\ f.foffset + sizeof(f.type) <= spec[s].size
    /\ \A j \in 1..(i - 1) : returned[s][j].foffset + sizeof(returned[s][j].type) <= f.foffset

(* Every element of an array of a sealed type has all its fields aligned,  *)
(* and room for each: size and alignment are multiples of what the fields, *)
(* nested types and arrays of them included, ask for.                      *)
SealedTypesTile ==
  \A a \in Aggregates : spec[a].complete =>
    /\ spec[a].align > 0 /\ spec[a].size % spec[a].align = 0
    /\ \A f \in Range(fields[a]) :
         /\ HasSize(f.type)
         /\ spec[a].align % alignment(f.type) = 0
         /\ f.foffset + sizeof(f.type) <= spec[a].size

(* "fields are in reverse order iff the struct type is incomplete"         *)
(* (ctypes_static.ml:75).                                                  *)
StructOrder ==
  \A s \in Structs : fields[s] = IF spec[s].complete THEN returned[s] ELSE Reverse(returned[s])

(* libffi, which lays a struct out from its element list alone, passes it  *)
(* with the offsets and the size that the field values use.                *)
LibffiAgrees ==
  \A s \in Passed :
    /\ FfiType[s].size = spec[s].size /\ FfiType[s].align = spec[s].align
    /\ \A i \in DOMAIN returned[s] : FfiType[s].offsets[i] = returned[s][i].foffset

(* The records implement the C declarations: structs member by member in   *)
(* declaration order, unions up to order, and nothing changes a sealed     *)
(* type: seal "completes the struct or union type [t] so that no further   *)
(* fields can be added" (ctypes_types.mli:295).                            *)
Declared(a) == IF spec[a].complete THEN fields[a] ELSE Reverse(fields[a])
Placed == [a \in Aggregates |-> IF a \in Structs THEN Declared(a) ELSE Range(fields[a])]
Layout == [a \in Aggregates |-> IF spec[a].complete THEN [size |-> spec[a].size, align |-> spec[a].align]
                                ELSE [size |-> -1, align |-> -1]]

C == INSTANCE CAggregates WITH placed <- Placed, layout <- Layout

ImplementsC == C!CSpec
=============================================================================
