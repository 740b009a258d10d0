---------------------------- MODULE ManagedMemory ----------------------------
(***************************************************************************)
(* Who keeps C memory alive: ctypes_memory.ml over ctypes_ptr.ml and       *)
(* managed_buffer_stubs.c.  allocate_n gets a block from calloc inside a   *)
(* managed buffer, whose finaliser frees it.  A pointer is an address and  *)
(* the OCaml object that manages it: what is computed from a pointer, an   *)
(* array or a struct has the same manager, and a bigarray view holds the   *)
(* manager in its own finaliser.  The collector may run between any two    *)
(* steps.                                                                  *)
(*                                                                         *)
(* A reference is the part of a block some OCaml value gives access to: a  *)
(* pointer, a struct, an array, a bigarray.  Cells stand for elements and  *)
(* fields.  An address that went through C memory, or was a number, comes  *)
(* back as a pointer without manager: it keeps nothing alive, it is the    *)
(* program's to keep valid, and it is not among the references.            *)
(***************************************************************************)
EXTENDS Integers, FiniteSets

CONSTANTS
  Buffers,   (* the managed buffers, and the blocks, that can be allocated *)
  Views,     (* the bigarray views that can be made                        *)
  Sizes,     (* bound: the cells allocate_n is asked for                   *)
  MaxRefs,   (* bound: the references the program holds                    *)
  MaxRoots,  (* bound: those it keeps in C roots                           *)
  NoOwner

ASSUME MemoryConstants ==
  /\ Buffers \subseteq Nat /\ Views \subseteq Nat /\ Buffers \cap Views = {}
  /\ NoOwner \notin Buffers \cup Views
  /\ Sizes \subseteq Nat /\ MaxRefs \in Nat /\ MaxRoots \in Nat

VARIABLES
  mem,      (* the block of each buffer: "none", "live" or "freed"         *)
  size,     (* its cells                                                   *)
  fin,      (* the finaliser given to allocate: "none", "attached", "ran"  *)
  src,      (* view -> the manager of the pointer it was made of           *)
  pending,  (* the views whose finaliser, which holds src, has not run     *)
  held,     (* the references the program holds                            *)
  rooted,   (* those in C roots                                            *)
  op,       (* what the library is doing: "none", "call" or "copy"         *)
  using     (* the arguments of the call, or the source of the copy        *)

blocks == <<mem, size, fin>>
views  == <<src, pending>>
vars   == <<blocks, views, held, rooted, op, using>>

Owners == Buffers \cup Views

Ref(b, o, l, w) == [base |-> b, off |-> o, len |-> l, owner |-> w]

Init ==
  /\ mem = [b \in Buffers |-> "none"] /\ size = [b \in Buffers |-> 0]
  /\ fin = [b \in Buffers |-> "none"]
  /\ src = [v \in Views |-> NoOwner] /\ pending = {}
  /\ held = {} /\ rooted = {} /\ op = "none" /\ using = {}

Live == held \cup rooted \cup using
Room == Cardinality(held) < MaxRefs

(* Unused buffers and views are taken in order. *)
Fresh(b)     == mem[b] = "none" /\ \A c \in Buffers : c < b => mem[c] # "none"
FreshView(v) == src[v] = NoOwner /\ \A u \in Views : u < v => src[u] # NoOwner

-----------------------------------------------------------------------------
(* What the collector finds reachable *)

(* Slip: invoke does not use the list of arguments after the call. *)
ReachableUncalled(o) ==
  \/ \E r \in held \cup rooted : r.owner = o
  \/ \E v \in pending : src[v] = o

(* The finalisers that have not run are roots, and so are the cells that   *)
(* ctypes_caml_roots_create registered.                                    *)
Reachable(o) ==
  \/ \E r \in Live : r.owner = o
  \/ \E v \in pending : src[v] = o

-----------------------------------------------------------------------------
(* Allocation *)

(* ctypes_allocate, calloc not failing: zero cells are allocated too. *)
Buffer(b, n) ==
  /\ Fresh(b)
  /\ mem' = [mem EXCEPT ![b] = "live"]
  /\ size' = [size EXCEPT ![b] = n]

(* allocate_n, and allocate, make and CArray.make, which call it. *)
Allocate(b, n, f) ==
  /\ Room /\ Buffer(b, n)
  /\ fin' = [fin EXCEPT ![b] = IF f THEN "attached" ELSE "none"]
  /\ held' = held \cup {Ref(b, 0, n, b)}
  /\ UNCHANGED <<views, rooted, op, using>>

(* The string view writes the address of its copy of a string to memory:   *)
(* nothing refers to the managed buffer.                                   *)
StoreString(b, n) ==
  /\ Buffer(b, n)
  /\ UNCHANGED <<fin, views, held, rooted, op, using>>

-----------------------------------------------------------------------------
(* References from references *)

(* An element by CArray.get, or a field by |-> and @. ; coerce and +@ keep *)
(* the manager.                                                            *)
Element(r, i) ==
  /\ Room /\ i \in 0..(r.len - 1)
  /\ held' = held \cup {Ref(r.base, r.off + i, 1, r.owner)}
  /\ UNCHANGED <<blocks, views, rooted, op, using>>

(* Slip: no finaliser holds the manager. *)
ViewUntied(v, r) ==
  /\ Room /\ FreshView(v)
  /\ src' = [src EXCEPT ![v] = r.owner]
  /\ held' = held \cup {Ref(r.base, r.off, r.len, v)}
  /\ UNCHANGED <<blocks, pending, rooted, op, using>>

(* A bigarray over managed memory, by view; bigarray_start of it makes the *)
(* bigarray the manager of a pointer.                                      *)
View(v, r) ==
  /\ Room /\ FreshView(v)
  /\ src' = [src EXCEPT ![v] = r.owner]
  /\ pending' = pending \cup {v}
  /\ held' = held \cup {Ref(r.base, r.off, r.len, v)}
  /\ UNCHANGED <<blocks, rooted, op, using>>

Drop(r) ==
  /\ held' = held \ {r}
  /\ UNCHANGED <<blocks, views, rooted, op, using>>

(* Root.create, Root.get and Root.release *)
CreateRoot(r) ==
  /\ Cardinality(rooted) < MaxRoots
  /\ rooted' = rooted \cup {r}
  /\ UNCHANGED <<blocks, views, held, op, using>>

GetRoot(r) ==
  /\ Room
  /\ held' = held \cup {r}
  /\ UNCHANGED <<blocks, views, rooted, op, using>>

ReleaseRoot(r) ==
  /\ rooted' = rooted \ {r}
  /\ UNCHANGED <<blocks, views, held, op, using>>

-----------------------------------------------------------------------------
(* Operations in which collections happen *)

Start(k, s) ==
  /\ op = "none" /\ op' = k
  /\ using' = s
  /\ UNCHANGED <<views, held, rooted>>

(* A call with a pointer, struct or array of the program as argument.  The *)
(* program itself may have no other use for it.                            *)
Call(r) == Start("call", {r}) /\ UNCHANGED blocks

(* A call with an OCaml string: write_arg keeps the pointer of its view.   *)
CallString(b, n) ==
  /\ Start("call", {Ref(b, 0, n, b)})
  /\ Buffer(b, n) /\ UNCHANGED fin

Return ==
  /\ op = "call"
  /\ op' = "none" /\ using' = {}
  /\ UNCHANGED <<blocks, views, held, rooted>>

(* CArray.sub, up to the allocation of the copy; CArray.copy takes the     *)
(* whole array, and build a struct that C returned.                        *)
Sub(r, pos, len) ==
  /\ 0 <= pos /\ 0 <= len /\ pos <= r.len - len
  /\ Start("copy", {Ref(r.base, r.off + pos, len, r.owner)})
  /\ UNCHANGED blocks

(* The bytes are copied. *)
Copied(b) ==
  /\ op = "copy"
  /\ op' = "none" /\ using' = {}
  /\ \E r \in using : Buffer(b, r.len) /\ held' = held \cup {Ref(b, 0, r.len, b)}
  /\ UNCHANGED <<fin, views, rooted>>

-----------------------------------------------------------------------------
(* The collector *)

(* The finaliser given to allocate is called with a pointer, which it may  *)
(* well store.                                                             *)
Finalise(b) ==
  /\ mem[b] = "live" /\ fin[b] = "attached" /\ ~Reachable(b)
  /\ fin' = [fin EXCEPT ![b] = "ran"]
  /\ held' = held \cup {Ref(b, 0, size[b], b)}
  /\ UNCHANGED <<mem, size, views, rooted, op, using>>

(* The finaliser of a view only uses the manager. *)
FinaliseView(v) ==
  /\ v \in pending /\ ~Reachable(v)
  /\ pending' = pending \ {v}
  /\ UNCHANGED <<blocks, src, held, rooted, op, using>>

(* Slip: the custom block has no finaliser. *)
CollectOnly(b) ==
  /\ mem[b] = "live" /\ fin[b] # "attached" /\ ~Reachable(b)
  /\ UNCHANGED vars

(* finalize_free *)
Free(b) ==
  /\ mem[b] = "live" /\ fin[b] # "attached" /\ ~Reachable(b)
  /\ mem' = [mem EXCEPT ![b] = "freed"]
  /\ UNCHANGED <<size, fin, views, held, rooted, op, using>>

-----------------------------------------------------------------------------
Derive(r) ==
  LET indices == -1..(r.len + 1) IN
  \/ \E i \in indices : Element(r, i)
  \/ \E i, n \in indices : Sub(r, i, n)
  \/ \E v \in Views : View(v, r)
  \/ Drop(r) \/ CreateRoot(r) \/ Call(r)

Gc == \/ \E b \in Buffers : Finalise(b) \/ Free(b)
      \/ \E v \in Views : FinaliseView(v)

Next ==
  \/ \E b \in Buffers, n \in Sizes :
       StoreString(b, n) \/ CallString(b, n) \/ \E f \in BOOLEAN : Allocate(b, n, f)
  \/ \E b \in Buffers : Copied(b)
  \/ \E r \in held : Derive(r)
  \/ \E r \in rooted : GetRoot(r) \/ ReleaseRoot(r)
  \/ Return
  \/ Gc

Spec == Init /\ [][Next]_vars

(* The program goes on allocating: collections happen, finalisers run. *)
FairSpec ==
  /\ Spec
  /\ \A b \in Buffers : WF_vars(Finalise(b)) /\ WF_vars(Free(b))
  /\ \A v \in Views : WF_vars(FinaliseView(v))

-----------------------------------------------------------------------------
(* Properties *)

RefType == [base : Buffers, off : Nat, len : Nat, owner : Owners \cup {NoOwner}]

TypeOK ==
  /\ mem \in [Buffers -> {"none", "live", "freed"}] /\ size \in [Buffers -> Nat]
  /\ fin \in [Buffers -> {"none", "attached", "ran"}]
  /\ src \in [Views -> Owners \cup {NoOwner}] /\ pending \subseteq Views
  /\ held \subseteq RefType /\ rooted \subseteq RefType /\ using \subseteq RefType
  /\ op \in {"none", "call", "copy"}

(* What OCaml code, a C function it called or a copy under way can reach   *)
(* through pointers, structs, arrays and bigarrays is allocated memory of  *)
(* the right block, for every way one was got from another and every       *)
(* finaliser that kept its argument.                                       *)
ReferencesValid ==
  \A r \in Live :
    /\ mem[r.base] = "live"
    /\ r.off + r.len <= size[r.base]

(* "If [ptr] references an OCaml object then [view] will ensure that that  *)
(* object is not collected before the bigarray returned by [view]"         *)
(* (ctypes_bigarray.mli:64-66), views of views included.                   *)
ViewKeepsSource ==
  \A v \in Views : Reachable(v) => src[v] # NoOwner /\ Reachable(src[v])

(* No block stays allocated for ever when nothing but bare addresses leads *)
(* to it: strings stored in memory, arguments of calls, the managers of    *)
(* dead views and the blocks whose finalisers kept them for a while.       *)
InUse(b) == \E r \in Live : r.base = b

DeadFreed == \A b \in Buffers : []<>(mem[b] # "live" \/ InUse(b))
=============================================================================
