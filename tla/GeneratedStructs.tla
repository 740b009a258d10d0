-------------------------- MODULE GeneratedStructs --------------------------
(***************************************************************************)
(* StructLayout when some of the structs are bound to structs of a C       *)
(* header by the code that Cstubs_structs generates (cstubs_structs.ml):   *)
(* its field and seal use the offsets, size and alignment the C compiler   *)
(* printed in place of computing them.                                     *)
(***************************************************************************)
EXTENDS StructLayout

CONSTANTS
  Generated,  (* the structs that are bound through generated code         *)
  CFields     (* a header's struct: the sequence of its primitive members  *)

ASSUME GeneratedConstants ==
  /\ Generated \subseteq Structs
  /\ CFields \in [Generated -> Seq(Prims)]
  /\ \A g \in Generated : CFields[g] # <<>>

(* What the C compiler printed: offsetof, sizeof, and the alignment. *)
offsetof(g) ==
  LET off[i \in DOMAIN CFields[g]] ==
        aligned_offset(IF i = 1 THEN 0 ELSE off[i - 1] + PrimSize[CFields[g][i - 1]], PrimAlign[CFields[g][i]])
  IN  off
alignmentof(g) == Max({PrimAlign[p] : p \in Range(CFields[g])})
csizeof(g)     == aligned_offset(Last(offsetof(g)) + PrimSize[Last(CFields[g])], alignmentof(g))

(* The generated field, of the header's i-th member: sealed or not. *)
GeneratedField(g, i) ==
  LET t == [elem |-> CFields[g][i], len |-> 1] IN
  /\ Room
  /\ Return(g, [type |-> t, foffset |-> offsetof(g)[i]])
  /\ UNCHANGED spec

(* The generated seal: no fields are needed and their list is left alone. *)
GeneratedSeal(g) ==
  /\ ~spec[g].complete
  /\ Seal(g, csizeof(g), alignmentof(g))
  /\ UNCHANGED <<fields, returned>>

GNext ==
  \/ \E g \in Generated : \E i \in DOMAIN CFields[g] : GeneratedField(g, i)
  \/ \E g \in Generated : GeneratedSeal(g)
  \/ \E s \in Structs \ Generated : SealStruct(s) \/ \E t \in Types : StructField(s, t)
  \/ \E u \in Unions : SealUnion(u) \/ SealUnionFails(u) \/ \E t \in Types : UnionField(u, t)

GSpec == Init /\ [][GNext]_vars
=============================================================================
