------------------------ MODULE ManagedMemory_proofs ------------------------
(***************************************************************************)
(* References are valid and views keep their sources, for any number of    *)
(* buffers, views, references and sizes.  A view may be made of the        *)
(* pointer into another view, so what keeps a block is a chain of views    *)
(* that have not been finalised; the invariant says that each pending view *)
(* has such a chain, and that the manager of each reference leads to the   *)
(* block the reference points into.                                        *)
(***************************************************************************)
EXTENDS ManagedMemory, TLAPS

LEMMA InitTyped == Init => TypeOK
BY MemoryConstants DEF Init, TypeOK

(* A step of the library on a reference keeps the types. *)
LEMMA DeriveTyped ==
  ASSUME TypeOK, NEW r \in held, Derive(r)
  PROVE  TypeOK'
<1> USE DEF TypeOK, RefType, Ref
<1>1. ASSUME NEW i \in -1..(r.len + 1), Element(r, i) PROVE TypeOK'
  BY <1>1 DEF Element, blocks, views
<1>2. ASSUME NEW i \in -1..(r.len + 1), NEW n \in -1..(r.len + 1), Sub(r, i, n) PROVE TypeOK'
  BY <1>2 DEF Sub, Start, blocks, views
<1>3. ASSUME NEW v \in Views, View(v, r) PROVE TypeOK'
  BY <1>3 DEF View, blocks, Owners
<1>4. ASSUME Drop(r) \/ CreateRoot(r) \/ Call(r) PROVE TypeOK'
  BY <1>4 DEF Drop, CreateRoot, Call, Start, blocks, views
<1> QED BY <1>1, <1>2, <1>3, <1>4 DEF Derive

(* Every variable keeps its type, for any constants. *)
LEMMA NextTyped == TypeOK /\ [Next]_vars => TypeOK'
<1> SUFFICES ASSUME TypeOK, [Next]_vars PROVE TypeOK'
  OBVIOUS
<1> USE DEF TypeOK, RefType, Ref
<1>1. ASSUME NEW b \in Buffers, NEW n \in Sizes, StoreString(b, n) PROVE TypeOK'
  BY <1>1, MemoryConstants DEF StoreString, Buffer, views
<1>2. ASSUME NEW b \in Buffers, NEW n \in Sizes, CallString(b, n) PROVE TypeOK'
  BY <1>2, MemoryConstants DEF CallString, Start, Buffer, views, Owners
<1>3. ASSUME NEW b \in Buffers, NEW n \in Sizes, NEW f \in BOOLEAN, Allocate(b, n, f) PROVE TypeOK'
  BY <1>3, MemoryConstants DEF Allocate, Buffer, views, Owners
<1>4. ASSUME NEW b \in Buffers, Copied(b) PROVE TypeOK'
  BY <1>4 DEF Copied, Buffer, views, Owners
<1>5. ASSUME NEW r \in held, Derive(r) PROVE TypeOK'
  BY <1>5, DeriveTyped
<1>6. ASSUME NEW r \in rooted, GetRoot(r) \/ ReleaseRoot(r) PROVE TypeOK'
  BY <1>6 DEF GetRoot, ReleaseRoot, blocks, views
<1>7. ASSUME Return PROVE TypeOK'
  BY <1>7 DEF Return, blocks, views
<1>8. ASSUME Gc PROVE TypeOK'
  BY <1>8 DEF Gc, Finalise, Free, FinaliseView, blocks, views, Owners
<1>9. CASE UNCHANGED vars
  BY <1>9 DEF vars, blocks, views
<1> QED BY <1>1, <1>2, <1>3, <1>4, <1>5, <1>6, <1>7, <1>8, <1>9 DEF Next

(* Every variable of ManagedMemory keeps its type. *)
THEOREM TypeCorrect == Spec => []TypeOK
BY InitTyped, NextTyped, PTL DEF Spec

-----------------------------------------------------------------------------
(* The inductive invariant *)

(* The reference is valid and its manager leads to its block, which is     *)
(* data[v] for a view v.                                                   *)
RefOK(r, data) ==
  /\ mem[r.base] = "live" /\ r.off + r.len <= size[r.base]
  /\ r.owner \in Owners
  /\ r.owner \in Buffers => r.owner = r.base
  /\ r.owner \in Views => r.owner \in pending /\ data[r.owner] = r.base

(* The views behind a pending view are pending, each the source of one     *)
(* that is nearer, and the last holds the buffer.                          *)
Chain(v, data, behind) ==
  /\ src[v] \in Owners
  /\ behind[v] \subseteq pending
  /\ src[v] \in Views => src[v] \in behind[v]
  /\ \A w \in behind[v] : \E x \in behind[v] \cup {v} : src[x] = w
  /\ \E x \in behind[v] \cup {v} : src[x] = data[v]

Kept(data, behind) ==
  /\ \A r \in Live : RefOK(r, data)
  /\ \A v \in pending : Chain(v, data, behind) /\ data[v] \in Buffers

Maps == [Views -> Buffers \cup {NoOwner}] \X [Views -> SUBSET Views]

IInv == \E m \in Maps : Kept(m[1], m[2])

LEMMA InitInv == Init => IInv
<1> SUFFICES ASSUME Init PROVE IInv
  OBVIOUS
<1> DEFINE m == <<[v \in Views |-> NoOwner], [v \in Views |-> {}]>>
<1>1. m \in Maps
  BY DEF Maps
<1>2. Kept(m[1], m[2])
  BY DEF Init, Kept, Live
<1> QED BY <1>1, <1>2 DEF IInv

-----------------------------------------------------------------------------
(* What an unreachable object is not behind *)

LEMMA UnreachableBlock ==
  ASSUME NEW data, NEW behind, Kept(data, behind), NEW b \in Buffers, ~Reachable(b)
  PROVE  \A r \in Live : r.base # b
<1> SUFFICES ASSUME NEW r \in Live, r.base = b PROVE FALSE
  OBVIOUS
<1>1. r.owner \in Views /\ r.owner \in pending /\ data[r.owner] = b
  BY DEF Kept, RefOK, Reachable, Owners
<1>2. PICK x \in behind[r.owner] \cup {r.owner} : src[x] = b
  BY <1>1 DEF Kept, Chain
<1>3. x \in pending
  BY <1>1, <1>2 DEF Kept, Chain
<1> QED BY <1>2, <1>3 DEF Reachable

LEMMA UnreachableView ==
  ASSUME NEW data, NEW behind, Kept(data, behind), NEW w \in pending, ~Reachable(w)
  PROVE  /\ \A v \in pending : w \notin behind[v]
         /\ \A r \in Live : r.owner # w
<1>1. ASSUME NEW v \in pending, w \in behind[v] PROVE FALSE
  <2>1. PICK x \in behind[v] \cup {v} : src[x] = w
    BY <1>1 DEF Kept, Chain
  <2>2. x \in pending
    BY <1>1, <2>1 DEF Kept, Chain
  <2> QED BY <2>1, <2>2 DEF Reachable
<1> QED BY <1>1 DEF Reachable

(* A block that was not allocated is behind nothing. *)
LEMMA FreshBlock ==
  ASSUME NEW data, NEW behind, Kept(data, behind), NEW b \in Buffers, Fresh(b)
  PROVE  \A r \in Live : r.base # b
BY DEF Kept, RefOK, Fresh

-----------------------------------------------------------------------------
(* One lemma per action *)

(* References that were live, in unchanged blocks, stay valid. *)
LEMMA NoNewBlock ==
  ASSUME NEW data, NEW behind, Kept(data, behind),
         UNCHANGED <<mem, size, src, pending>>,
         \A r \in Live' : r \in Live \/ RefOK(r, data)
  PROVE  Kept(data, behind)'
<1>1. ASSUME NEW r \in Live' PROVE RefOK(r, data)'
  BY DEF Kept, RefOK
<1>2. ASSUME NEW v \in pending' PROVE (Chain(v, data, behind) /\ data[v] \in Buffers)'
  BY DEF Kept, Chain
<1> QED BY <1>1, <1>2 DEF Kept

(* A new block and perhaps a reference to all of it. *)
LEMMA NewBlock ==
  ASSUME TypeOK, NEW data, NEW behind, Kept(data, behind),
         NEW b \in Buffers, NEW n \in Nat, Buffer(b, n), UNCHANGED <<src, pending>>,
         \A r \in Live' : r \in Live \/ r = Ref(b, 0, n, b)
  PROVE  Kept(data, behind)'
<1>1. ASSUME NEW r \in Live, r \in Live' PROVE RefOK(r, data)'
  <2>1. r.base # b /\ RefOK(r, data) /\ r.base \in Buffers
    BY FreshBlock DEF Kept, Buffer, TypeOK, RefType, Live
  <2>2. mem'[r.base] = mem[r.base] /\ size'[r.base] = size[r.base]
    BY <2>1 DEF Buffer, TypeOK
  <2> QED BY <2>1, <2>2 DEF RefOK
<1>2. RefOK(Ref(b, 0, n, b), data)'
  BY MemoryConstants DEF RefOK, Ref, Buffer, TypeOK, Owners
<1>3. ASSUME NEW v \in pending' PROVE (Chain(v, data, behind) /\ data[v] \in Buffers)'
  BY DEF Kept, Chain
<1> QED BY <1>1, <1>2, <1>3 DEF Kept

LEMMA ViewKept ==
  ASSUME TypeOK, NEW data \in [Views -> Buffers \cup {NoOwner}],
         NEW behind \in [Views -> SUBSET Views], Kept(data, behind),
         NEW r \in held, NEW v \in Views, View(v, r)
  PROVE  IInv'
<1> DEFINE d == [data EXCEPT ![v] = r.base]
           a == [behind EXCEPT ![v] = IF r.owner \in Views THEN behind[r.owner] \cup {r.owner} ELSE {}]
<1>0. /\ pending \subseteq Views /\ r.base \in Buffers /\ src \in [Views -> Owners \cup {NoOwner}]
      /\ src' = [src EXCEPT ![v] = r.owner] /\ pending' = pending \cup {v}
      /\ src[v] = NoOwner /\ RefOK(r, data)
      /\ mem' = mem /\ size' = size
      /\ Live' = Live \cup {Ref(r.base, r.off, r.len, v)}
  BY DEF TypeOK, RefType, View, FreshView, Kept, Live, blocks
<1>1. v \notin pending
  BY <1>0, MemoryConstants DEF Kept, Chain, Owners
<1>2. \A u \in pending : v \notin behind[u] /\ src'[u] = src[u] /\ d[u] = data[u] /\ a[u] = behind[u]
  BY <1>0, <1>1 DEF Kept, Chain
<1>3. ASSUME NEW u \in pending PROVE Chain(u, d, a)' /\ d[u] \in Buffers
  <2>1. Chain(u, data, behind) /\ data[u] \in Buffers
    BY DEF Kept
  <2>2. \A x \in behind[u] \cup {u} : x # v /\ src'[x] = src[x]
    BY <1>0, <1>1, <1>2, <2>1 DEF Chain
  <2> QED BY <1>0, <1>2, <2>1, <2>2 DEF Chain
<1>4. Chain(v, d, a)' /\ d[v] \in Buffers
  <2>1. d[v] = r.base /\ src'[v] = r.owner /\ r.owner \in Owners
    BY <1>0 DEF RefOK
  <2>2. CASE r.owner \in Buffers
    <3>1. a[v] = {} /\ r.owner = r.base
      BY <1>0, <2>2, MemoryConstants DEF RefOK
    <3> QED BY <1>0, <2>1, <2>2, <3>1, MemoryConstants DEF Chain
  <2>3. CASE r.owner \in Views
    <3> DEFINE o == r.owner
    <3>1. a[v] = behind[o] \cup {o} /\ o \in pending /\ data[o] = r.base
      BY <1>0, <2>3 DEF RefOK
    <3>2. Chain(o, data, behind) /\ o # v
      BY <3>1, <1>1 DEF Kept
    <3>3. \A x \in behind[o] \cup {o} : x # v /\ src'[x] = src[x]
      BY <1>0, <1>1, <3>1, <3>2 DEF Chain
    <3>4. \A w \in a[v] : \E x \in a[v] \cup {v} : src'[x] = w
      BY <2>1, <3>1, <3>2, <3>3 DEF Chain
    <3>5. \E x \in a[v] \cup {v} : src'[x] = d[v]
      BY <2>1, <3>1, <3>2, <3>3 DEF Chain
    <3>6. a[v] \subseteq pending'
      BY <1>0, <3>1, <3>2 DEF Chain
    <3> QED BY <1>0, <2>1, <3>1, <3>4, <3>5, <3>6 DEF Chain
  <2> QED BY <2>1, <2>2, <2>3 DEF Owners
<1>5. ASSUME NEW q \in Live' PROVE RefOK(q, d)'
  <2>1. CASE q \in Live
    <3>1. RefOK(q, data)
      BY <2>1 DEF Kept
    <3>2. q.owner \in Views => q.owner # v /\ d[q.owner] = data[q.owner]
      BY <3>1, <1>1 DEF RefOK
    <3> QED BY <1>0, <3>1, <3>2 DEF RefOK
  <2>2. CASE q = Ref(r.base, r.off, r.len, v)
    BY <1>0, <2>2, MemoryConstants DEF RefOK, Ref, Owners
  <2> QED BY <1>0, <2>1, <2>2
<1>6. <<d, a>> \in Maps
  BY <1>0 DEF Maps
<1>7. Kept(d, a)'
  BY <1>0, <1>3, <1>4, <1>5 DEF Kept
<1> QED
  <2> HIDE DEF d, a
  <2> QED BY <1>6, <1>7 DEF IInv

LEMMA DeriveKept ==
  ASSUME TypeOK, NEW data \in [Views -> Buffers \cup {NoOwner}],
         NEW behind \in [Views -> SUBSET Views], Kept(data, behind),
         NEW r \in held, Derive(r), ~ \E v \in Views : View(v, r)
  PROVE  Kept(data, behind)'
<1>0. RefOK(r, data) /\ r.len \in Nat /\ r.off \in Nat /\ size[r.base] \in Nat
  BY DEF Kept, Live, TypeOK, RefType
<1>1. ASSUME NEW i \in -1..(r.len + 1), Element(r, i) PROVE Kept(data, behind)'
  <2>1. RefOK(Ref(r.base, r.off + i, 1, r.owner), data)
    BY <1>0, <1>1 DEF RefOK, Ref, Element
  <2>2. \A q \in Live' : q \in Live \/ q = Ref(r.base, r.off + i, 1, r.owner)
    BY <1>1 DEF Element, Live
  <2>3. UNCHANGED <<mem, size, src, pending>>
    BY <1>1 DEF Element, blocks, views
  <2> QED BY <2>1, <2>2, <2>3, NoNewBlock
<1>2. ASSUME NEW i \in -1..(r.len + 1), NEW n \in -1..(r.len + 1), Sub(r, i, n)
      PROVE  Kept(data, behind)'
  <2>1. RefOK(Ref(r.base, r.off + i, n, r.owner), data)
    BY <1>0, <1>2 DEF RefOK, Ref, Sub
  <2>2. \A q \in Live' : q \in Live \/ q = Ref(r.base, r.off + i, n, r.owner)
    BY <1>2 DEF Sub, Start, Live
  <2>3. UNCHANGED <<mem, size, src, pending>>
    BY <1>2 DEF Sub, Start, blocks, views
  <2> QED BY <2>1, <2>2, <2>3, NoNewBlock
<1>3. ASSUME Drop(r) \/ CreateRoot(r) \/ Call(r) PROVE Kept(data, behind)'
  <2>1. \A q \in Live' : q \in Live
    BY <1>3 DEF Drop, CreateRoot, Call, Start, Live
  <2>2. UNCHANGED <<mem, size, src, pending>>
    BY <1>3 DEF Drop, CreateRoot, Call, Start, blocks, views
  <2> QED BY <2>1, <2>2, NoNewBlock
<1> QED BY <1>1, <1>2, <1>3 DEF Derive

LEMMA GcKept ==
  ASSUME TypeOK, NEW data \in [Views -> Buffers \cup {NoOwner}],
         NEW behind \in [Views -> SUBSET Views], Kept(data, behind), Gc
  PROVE  Kept(data, behind)'
<1>1. ASSUME NEW b \in Buffers, Finalise(b) PROVE Kept(data, behind)'
  <2>1. RefOK(Ref(b, 0, size[b], b), data)
    BY <1>1, MemoryConstants DEF RefOK, Ref, Finalise, TypeOK, Owners
  <2>2. \A q \in Live' : q \in Live \/ q = Ref(b, 0, size[b], b)
    BY <1>1 DEF Finalise, Live
  <2>3. UNCHANGED <<mem, size, src, pending>>
    BY <1>1 DEF Finalise, views
  <2> QED BY <2>1, <2>2, <2>3, NoNewBlock
<1>2. ASSUME NEW b \in Buffers, Free(b) PROVE Kept(data, behind)'
  <2>1. Live' = Live /\ size' = size /\ mem' = [mem EXCEPT ![b] = "freed"] /\ UNCHANGED <<src, pending>>
    BY <1>2 DEF Free, Live, views
  <2>2. ASSUME NEW r \in Live PROVE RefOK(r, data)'
    <3>1. r.base # b /\ RefOK(r, data) /\ r.base \in Buffers
      BY <1>2, UnreachableBlock DEF Free, Kept, TypeOK, RefType, Live
    <3>2. mem'[r.base] = mem[r.base]
      BY <2>1, <3>1 DEF TypeOK
    <3> QED BY <2>1, <3>1, <3>2 DEF RefOK
  <2>3. ASSUME NEW v \in pending PROVE Chain(v, data, behind)' /\ data[v] \in Buffers
    BY <2>1 DEF Kept, Chain
  <2> QED BY <2>1, <2>2, <2>3 DEF Kept
<1>3. ASSUME NEW w \in Views, FinaliseView(w) PROVE Kept(data, behind)'
  <2>1. Live' = Live /\ UNCHANGED <<mem, size, src>> /\ pending' = pending \ {w}
    BY <1>3 DEF FinaliseView, Live, blocks
  <2>2. (\A v \in pending : w \notin behind[v]) /\ \A r \in Live : r.owner # w
    BY <1>3, UnreachableView DEF FinaliseView
  <2>3. ASSUME NEW r \in Live PROVE RefOK(r, data)'
    BY <2>1, <2>2 DEF Kept, RefOK
  <2>4. ASSUME NEW v \in pending' PROVE Chain(v, data, behind)' /\ data[v] \in Buffers
    BY <2>1, <2>2 DEF Kept, Chain
  <2> QED BY <2>1, <2>3, <2>4 DEF Kept
<1> QED BY <1>1, <1>2, <1>3 DEF Gc

LEMMA NextInv == TypeOK /\ IInv /\ [Next]_vars => IInv'
<1> SUFFICES ASSUME TypeOK, IInv, [Next]_vars PROVE IInv'
  OBVIOUS
<1>0. PICK m \in Maps : Kept(m[1], m[2])
  BY DEF IInv
<1> DEFINE data == m[1]
           behind == m[2]
<1>m. data \in [Views -> Buffers \cup {NoOwner}] /\ behind \in [Views -> SUBSET Views]
  BY DEF Maps
<1>k. Kept(data, behind)
  BY <1>0
<1>i. Kept(data, behind)' => IInv'
  BY DEF IInv
<1> HIDE DEF data, behind
<1>1. ASSUME NEW b \in Buffers, NEW n \in Sizes, StoreString(b, n) PROVE IInv'
  <2>1. \A r \in Live' : r \in Live
    BY <1>1 DEF StoreString, Live
  <2> QED BY <1>1, <1>k, <1>i, <2>1, NewBlock, MemoryConstants DEF StoreString, views
<1>2. ASSUME NEW b \in Buffers, NEW n \in Sizes, CallString(b, n) PROVE IInv'
  <2>1. \A r \in Live' : r \in Live \/ r = Ref(b, 0, n, b)
    BY <1>2 DEF CallString, Start, Live
  <2> QED BY <1>2, <1>k, <1>i, <2>1, NewBlock, MemoryConstants DEF CallString, Start, views
<1>3. ASSUME NEW b \in Buffers, NEW n \in Sizes, NEW f \in BOOLEAN, Allocate(b, n, f) PROVE IInv'
  <2>1. \A r \in Live' : r \in Live \/ r = Ref(b, 0, n, b)
    BY <1>3 DEF Allocate, Live
  <2> QED BY <1>3, <1>k, <1>i, <2>1, NewBlock, MemoryConstants DEF Allocate, views
<1>4. ASSUME NEW b \in Buffers, Copied(b) PROVE IInv'
  <2>1. PICK s \in using : Buffer(b, s.len) /\ held' = held \cup {Ref(b, 0, s.len, b)}
    BY <1>4 DEF Copied
  <2>2. \A r \in Live' : r \in Live \/ r = Ref(b, 0, s.len, b)
    BY <1>4, <2>1 DEF Copied, Live
  <2>3. s.len \in Nat
    BY DEF TypeOK, RefType
  <2> QED BY <1>4, <1>k, <1>i, <2>1, <2>2, <2>3, NewBlock DEF Copied, views
<1>5. ASSUME NEW r \in held, Derive(r) PROVE IInv'
  BY <1>5, <1>k, <1>m, <1>i, ViewKept, DeriveKept
<1>6. ASSUME NEW r \in rooted, GetRoot(r) \/ ReleaseRoot(r) PROVE IInv'
  <2>1. \A q \in Live' : q \in Live
    BY <1>6 DEF GetRoot, ReleaseRoot, Live
  <2> QED BY <1>6, <1>k, <1>i, <2>1, NoNewBlock DEF GetRoot, ReleaseRoot, blocks, views
<1>7. ASSUME Return PROVE IInv'
  <2>1. \A q \in Live' : q \in Live
    BY <1>7 DEF Return, Live
  <2> QED BY <1>7, <1>k, <1>i, <2>1, NoNewBlock DEF Return, blocks, views
<1>8. ASSUME Gc PROVE IInv'
  BY <1>8, <1>k, <1>m, <1>i, GcKept
<1>9. CASE UNCHANGED vars
  <2>1. \A q \in Live' : q \in Live
    BY <1>9 DEF vars, Live
  <2> QED BY <1>9, <1>k, <1>i, <2>1, NoNewBlock DEF vars, blocks, views
<1> QED BY <1>1, <1>2, <1>3, <1>4, <1>5, <1>6, <1>7, <1>8, <1>9 DEF Next

LEMMA Inductive == Spec => []IInv
<1>1. Init => IInv
  BY InitInv
<1>2. TypeOK /\ IInv /\ [Next]_vars => IInv'
  BY NextInv
<1> QED BY <1>1, <1>2, TypeCorrect, PTL DEF Spec

(* Every reference that OCaml code, a call or a copy holds points into     *)
(* allocated memory of its block.                                          *)
THEOREM ReferencesAreValid == Spec => []ReferencesValid
<1>1. IInv => ReferencesValid
  BY DEF IInv, Kept, RefOK, ReferencesValid
<1> QED BY <1>1, Inductive, PTL

(* What manages the memory under a reachable view is reachable.            *)
THEOREM ViewsKeepSources == Spec => []ViewKeepsSource
<1>1. TypeOK /\ IInv => ViewKeepsSource
  <2> SUFFICES ASSUME TypeOK, IInv, NEW v \in Views, Reachable(v)
               PROVE  src[v] # NoOwner /\ Reachable(src[v])
    BY DEF ViewKeepsSource
  <2>1. PICK m \in Maps : Kept(m[1], m[2])
    BY DEF IInv
  <2>2. v \in pending
    <3>1. CASE \E r \in Live : r.owner = v
      BY <2>1, <3>1 DEF Kept, RefOK
    <3>2. ASSUME NEW u \in pending, src[u] = v PROVE v \in pending
      BY <2>1, <3>2 DEF Kept, Chain
    <3> QED BY <3>1, <3>2 DEF Reachable
  <2> QED BY <2>1, <2>2, MemoryConstants DEF Kept, Chain, Owners, Reachable
<1> QED BY <1>1, TypeCorrect, Inductive, PTL
=============================================================================
