---------------------------- MODULE CAggregates ----------------------------
(***************************************************************************)
(* What a description of C structs and unions promises: members are placed *)
(* by the rule of the C compiler while a type is open, a sealed type has   *)
(* the size and alignment C gives it, and nothing changes it any more.     *)
(* How the members are stored, and when, is left open.                     *)
(***************************************************************************)
EXTENDS Integers, Sequences

CONSTANTS
  Structs, Unions,
  Prims, PrimSize, PrimAlign,  (* the primitive types *)
  Types                        (* types of members: [elem, len], len elements of elem *)

VARIABLES
  placed,  (* struct -> its members in order, union -> the set of its members *)
  layout   (* type -> [size, align] once sealed, Open before *)

cvars == <<placed, layout>>
Open  == [size |-> -1, align |-> -1]

ElemLayout(e) == IF e \in Prims THEN [size |-> PrimSize[e], align |-> PrimAlign[e]] ELSE layout[e]
HasLayout(m)  == m.elem \in Prims \/ (m.elem \in Structs \cup Unions /\ layout[m.elem] # Open)
SizeOf(m)     == m.len * ElemLayout(m.elem).size
AlignOf(m)    == ElemLayout(m.elem).align

(* The first address at or after n that a multiple of a reaches. *)
FirstMultiple(n, a) == CHOOSE m \in n..(n + a - 1) : m % a = 0

End(s) == IF placed[s] = <<>> THEN 0
          ELSE LET l == placed[s][Len(placed[s])] IN l.foffset + SizeOf(l.type)

Contents(a) == IF a \in Structs THEN {placed[a][i] : i \in DOMAIN placed[a]} ELSE placed[a]

CInit == /\ placed = [a \in Structs \cup Unions |-> IF a \in Structs THEN <<>> ELSE {}]
         /\ layout = [a \in Structs \cup Unions |-> Open]

Declare(s, m) ==
  /\ layout[s] = Open /\ HasLayout(m)
  /\ placed' = [placed EXCEPT ![s] =
       Append(@, [type |-> m, foffset |-> FirstMultiple(End(s), AlignOf(m))])]
  /\ UNCHANGED layout

DeclareAlternative(u, m) ==
  /\ layout[u] = Open
  /\ placed' = [placed EXCEPT ![u] = @ \cup {[type |-> m, foffset |-> 0]}]
  /\ UNCHANGED layout

(* The size of a sealed type is the room its members need, rounded up to   *)
(* the strictest of their alignments.                                      *)
Close(a) ==
  /\ layout[a] = Open /\ Contents(a) # {}
  /\ \A f \in Contents(a) : HasLayout(f.type)
  /\ \E align \in {AlignOf(f.type) : f \in Contents(a)},
        room \in {f.foffset + SizeOf(f.type) : f \in Contents(a)} :
       /\ \A f \in Contents(a) : AlignOf(f.type) <= align /\ f.foffset + SizeOf(f.type) <= room
       /\ layout' = [layout EXCEPT ![a] = [size |-> FirstMultiple(room, align), align |-> align]]
  /\ UNCHANGED placed

CNext == \/ \E s \in Structs, m \in Types : Declare(s, m)
         \/ \E u \in Unions, m \in Types : DeclareAlternative(u, m)
         \/ \E a \in Structs \cup Unions : Close(a)

CSpec == CInit /\ [][CNext]_cvars
=============================================================================
