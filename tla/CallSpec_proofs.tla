--------------------------- MODULE CallSpec_proofs ---------------------------
(***************************************************************************)
(* The safety of CallSpec for functions of any number of arguments, with   *)
(* types of any size and alignment.                                        *)
(***************************************************************************)
EXTENDS CallSpec, TLAPS

N == spec.nelements

(* Where the first i elements end in the buffer. *)
End(i) == IF i = 0 THEN 0 ELSE fn[spec.args[i].arg].offset + Size[spec.args[i].type]

(* Element i is an argument that is not void, laid out after the element   *)
(* before it.                                                              *)
ElementAt(i) ==
  LET a == spec.args[i].arg IN
  /\ a \in Nat /\ i <= a /\ a <= Len(fn)
  /\ spec.args[i].type = fn[a].type /\ fn[a].type \in Passed
  /\ a = i \/ AfterVoid(a)
  /\ fn[a].offset = aligned_offset(End(i - 1), Align[fn[a].type])

ElementInv ==
  /\ N <= Len(fn)
  /\ N < Len(fn) => \E b \in 1..Len(fn) : fn[b].type = Void
  /\ \A i \in 1..N : ElementAt(i)
  /\ phase = "build" => spec.bytes = End(N)

(* The arguments lie one after the other in the buffer. *)
SpaceInv ==
  \A p \in 1..Len(fn) : fn[p].type # Void =>
    /\ fn[p].offset % Align[fn[p].type] = 0
    /\ phase = "build" => fn[p].offset + Size[fn[p].type] <= spec.bytes
    /\ phase \notin {"build", "refused"} => fn[p].offset + Size[fn[p].type] <= spec.roffset
    /\ \A q \in 1..Len(fn) : p < q /\ fn[q].type # Void => fn[p].offset + Size[fn[p].type] <= fn[q].offset

(* After them the result, and then the pointers. *)
ResultInv ==
  phase \notin {"build", "refused"} =>
    /\ Len(fn) > 0
    /\ spec.rtype \in Types
    /\ spec.roffset % Align[spec.rtype] = 0
    /\ spec.roffset + (IF Size[spec.rtype] < Word THEN Word ELSE Size[spec.rtype]) <= arg_array_offset
    /\ arg_array_offset % Word = 0

(* What has been written of the buffer, and of the OCaml arguments. *)
Written ==
  /\ pos <= Len(fn) /\ Len(mov) = N
  /\ \A i \in 1..N : mov[i] # 0 => mov[i] = i /\ fn[i].type \in OCamls
  /\ \A p \in 1..Len(fn) : p > pos =>
       /\ fn[p].type \in OCamls => p <= N /\ mov[p] = p
       /\ fn[p].type \in Values => [arg |-> p, offset |-> fn[p].offset] \in buffer

(* The pointers that populate_arg_array has made. *)
PopulatedInv == \A i \in 1..Len(slots) : slots[i] = Address(fn[spec.args[i].arg].offset)

LocalInv ==
  /\ \A w \in buffer : w.arg \in 1..Len(fn) /\ fn[w.arg].type # Void /\ w.offset = fn[w.arg].offset
  /\ phase \in {"build", "ready", "apply"} => offset = 0 /\ mov = <<>> /\ buffer = {}
  /\ phase \in {"build", "ready"} => slots = <<>> /\ pos = 0
  /\ phase \in {"populate", "write", "raised", "ffi_call"} => use = "call"
  /\ phase = "populate" => /\ Len(slots) <= N /\ offset = End(Len(slots)) /\ PopulatedInv
                           /\ pos = Len(fn) /\ Written
  /\ phase = "write" => Len(slots) = N /\ PopulatedInv /\ Written
  /\ phase = "apply" => /\ pos = Len(slots) /\ pos <= Len(fn)
                        /\ \A i \in 1..pos : slots[i] = Address(IF N = 0 THEN 0 ELSE i)

(* The functions of which CallbackCompletes speaks. *)
Plain == \A a \in DOMAIN fn : fn[a].type \in Values \/ (fn[a].type = Void /\ Len(fn) = 1)

AbortInv == use = "callback" /\ Plain => phase # "aborted"

IInv ==
  /\ TypeOK /\ ArgsTerminated /\ ElementInv /\ SpaceInv /\ ResultInv
  /\ LocalInv /\ ArgumentsArrive /\ AbortInv

-----------------------------------------------------------------------------
(* aligned_offset rounds up. *)
LEMMA AlignedOffset ==
  ASSUME NEW o \in Nat, NEW a \in Nat \ {0}
  PROVE  /\ aligned_offset(o, a) \in Nat
         /\ aligned_offset(o, a) >= o
         /\ aligned_offset(o, a) % a = 0
<1>1. aligned_offset(o, a) \in Nat /\ aligned_offset(o, a) >= o
  BY DEF aligned_offset
<1>2. (o - (o % a) + a) % a = 0
  BY SMTT(30)
<1>3. CASE o % a = 0
  BY <1>1, <1>3 DEF aligned_offset
<1>4. CASE o % a # 0
  BY <1>1, <1>2, <1>4 DEF aligned_offset
<1> QED BY <1>1, <1>3, <1>4

(* Sequences are functions. *)
LEMMA SeqElement ==
  ASSUME NEW S, NEW s \in Seq(S), NEW i \in 1..Len(s)
  PROVE  s[i] \in S
OBVIOUS

(* What the elements of a longer sequence are. *)
LEMMA Concatenation ==
  ASSUME NEW S, NEW s \in Seq(S), NEW t \in Seq(S)
  PROVE  /\ s \o t \in Seq(S) /\ Len(s \o t) = Len(s) + Len(t)
         /\ \A i \in Nat : 1 <= i /\ i <= Len(s) => (s \o t)[i] = s[i]
<1>1. s \o t \in Seq(S) /\ Len(s \o t) = Len(s) + Len(t)
  OBVIOUS
<1>2. \A i \in Nat : 1 <= i /\ i <= Len(s) => (s \o t)[i] = s[i]
  OBVIOUS
<1> QED BY <1>1, <1>2

(* The array grows in time for an element and the null after it, and keeps *)
(* the elements it has.                                                    *)
LEMMA GrowRoom ==
  ASSUME TypeOK, ArgsTerminated
  PROVE  LET g == Grow(spec) IN
         /\ g.capacity \in Nat /\ N + 2 <= g.capacity
         /\ g.args \in Seq([type : Types \cup {NULL}, arg : Nat]) /\ Len(g.args) = g.capacity
         /\ \A i \in 1..N : g.args[i] = spec.args[i]
         /\ g = [spec EXCEPT !.capacity = g.capacity, !.args = g.args]
<1> USE SpecConstants DEF Types
<1> DEFINE Elems == [type : Types \cup {NULL}, arg : Nat]
           more  == [i \in 1..increment_size |-> Elem(Void)]
<1>1. /\ spec.args \in Seq(Elems) /\ spec.capacity \in Nat /\ N \in Nat
      /\ Len(spec.args) = spec.capacity /\ N <= spec.capacity /\ (N > 0 => N < spec.capacity)
  BY DEF TypeOK, ArgsTerminated, N
<1>2. more \in Seq(Elems) /\ Len(more) = increment_size
  <2>1. Elem(Void) \in Elems
    BY DEF Elem, TypeOK
  <2> QED BY <2>1
<1>3. CASE N + 2 >= spec.capacity
  <2>1. Grow(spec) = [spec EXCEPT !.capacity = spec.capacity + increment_size,
                                  !.args = spec.args \o more]
    BY <1>3 DEF Grow, Extend, N
  <2>2. /\ Grow(spec).capacity = spec.capacity + increment_size
        /\ Grow(spec).args = spec.args \o more
    BY <2>1 DEF TypeOK
  <2>3. /\ spec.args \o more \in Seq(Elems)
        /\ Len(spec.args \o more) = spec.capacity + increment_size
        /\ \A i \in 1..N : (spec.args \o more)[i] = spec.args[i]
    <3> HIDE DEF more, Elems
    <3>0. spec.args \in Seq(Elems) /\ more \in Seq(Elems)
      BY <1>1, <1>2
    <3>1. /\ spec.args \o more \in Seq(Elems)
          /\ Len(spec.args \o more) = Len(spec.args) + Len(more)
          /\ \A i \in Nat : 1 <= i /\ i <= Len(spec.args) => (spec.args \o more)[i] = spec.args[i]
      BY ONLY <3>0, Concatenation, Zenon
    <3>2. \A i \in 1..N : i \in Nat /\ 1 <= i /\ i <= Len(spec.args)
      BY <1>1
    <3> QED BY <1>1, <1>2, <3>1, <3>2
  <2>4. N + 2 <= spec.capacity + increment_size /\ spec.capacity + increment_size \in Nat
    BY <1>1
  <2>5. Grow(spec) = [spec EXCEPT !.capacity = Grow(spec).capacity, !.args = Grow(spec).args]
    BY <2>1, <2>2
  <2> HIDE DEF more
  <2> QED BY <2>2, <2>3, <2>4, <2>5
<1>4. CASE ~(N + 2 >= spec.capacity)
  <2>1. Grow(spec) = spec
    BY <1>4 DEF Grow, N
  <2>2. spec = [spec EXCEPT !.capacity = spec.capacity, !.args = spec.args]
    BY DEF TypeOK
  <2> QED BY <1>1, <1>4, <2>1, <2>2
<1> QED BY <1>3, <1>4

(* ctypes_add_argument appends its element and null-terminates the array.  *)
LEMMA ElementAdded ==
  ASSUME TypeOK, ArgsTerminated, NEW t \in Passed
  PROVE  LET s == WithElement(t) IN
         /\ s.nelements = N + 1
         /\ s.bytes = aligned_offset(spec.bytes, Align[t]) + Size[t]
         /\ s.capacity \in Nat /\ N + 2 <= s.capacity /\ Len(s.args) = s.capacity
         /\ s.args \in Seq([type : Types \cup {NULL}, arg : Nat])
         /\ s.args[N + 1] = Elem(t) /\ s.args[N + 2] = NullElem
         /\ \A i \in 1..N : s.args[i] = spec.args[i]
         /\ s = [spec EXCEPT !.bytes = s.bytes, !.nelements = s.nelements, !.capacity = s.capacity,
                             !.args = s.args]
<1> DEFINE Elems == [type : Types \cup {NULL}, arg : Nat]
           g == Grow(spec)
           args == [g.args EXCEPT ![g.nelements + 1] = Elem(t), ![g.nelements + 2] = NullElem]
           b == aligned_offset(spec.bytes, Align[t]) + Size[t]
<1>1. /\ g.capacity \in Nat /\ N + 2 <= g.capacity
      /\ g.args \in Seq(Elems) /\ Len(g.args) = g.capacity
      /\ \A i \in 1..N : g.args[i] = spec.args[i]
      /\ g = [spec EXCEPT !.capacity = g.capacity, !.args = g.args]
  BY GrowRoom
<1>2. N \in Nat /\ g.nelements = N /\ g.bytes = spec.bytes
  <2> HIDE DEF g
  <2> QED BY <1>1 DEF TypeOK, N
<1>3. Elem(t) \in Elems /\ NullElem \in Elems
  BY DEF Elem, NullElem, TypeOK, Types
<1>4. /\ args \in Seq(Elems) /\ Len(args) = g.capacity
      /\ args[N + 1] = Elem(t) /\ args[N + 2] = NullElem
      /\ \A i \in 1..N : args[i] = spec.args[i]
  <2> HIDE DEF Elems, g
  <2> QED BY <1>1, <1>2, <1>3
<1>5. WithElement(t) = [g EXCEPT !.bytes = b, !.args = args, !.nelements = N + 1]
  BY <1>2 DEF WithElement
<1>6. WithElement(t) = [spec EXCEPT !.bytes = b, !.nelements = N + 1, !.capacity = g.capacity, !.args = args]
  <2> HIDE DEF g, args, b
  <2> QED BY <1>1, <1>5 DEF TypeOK
<1> HIDE DEF g, args, b
<1>7. /\ WithElement(t).bytes = b /\ WithElement(t).nelements = N + 1
      /\ WithElement(t).capacity = g.capacity /\ WithElement(t).args = args
  BY <1>6 DEF TypeOK
<1> QED BY <1>1, <1>2, <1>4, <1>6, <1>7 DEF b

-----------------------------------------------------------------------------
(* Initially there are no arguments. *)
LEMMA Initial == Init => IInv
<1> SUFFICES ASSUME Init PROVE IInv
  OBVIOUS
<1> USE SpecConstants DEF Init
<1>1. TypeOK
  BY DEF TypeOK, Types
<1>2. ArgsTerminated /\ ElementInv /\ SpaceInv
  BY DEF ArgsTerminated, ElementInv, SpaceInv, N, End
<1>3. ResultInv /\ LocalInv
  BY DEF ResultInv, LocalInv
<1>4. ArgumentsArrive /\ AbortInv
  BY DEF ArgumentsArrive, AbortInv
<1> QED BY <1>1, <1>2, <1>3, <1>4 DEF IInv

(* While arguments are added nothing is called. *)
LEMMA BuildingIsQuiet ==
  ASSUME IInv, phase = "build", phase' \in {"build", "refused", "ready"}, UNCHANGED local
  PROVE  LocalInv' /\ ArgumentsArrive' /\ AbortInv'
<1>1. /\ offset = 0 /\ mov = <<>> /\ buffer = {} /\ slots = <<>> /\ pos = 0
      /\ UNCHANGED <<offset, mov, buffer, slots, pos>>
  BY DEF IInv, LocalInv, local
<1> QED BY <1>1 DEF LocalInv, ArgumentsArrive, AbortInv

(* The elements stay where they are when fn and args grow. *)
LEMMA ElementsKept ==
  ASSUME TypeOK, TypeOK', ElementInv, Len(fn) <= Len(fn'),
         \A a \in 1..Len(fn) : fn'[a] = fn[a],
         \A i \in 1..N : spec'.args[i] = spec.args[i]
  PROVE  /\ \A i \in 0..N : End(i)' = End(i)
         /\ \A i \in 1..N : ElementAt(i)'
<1>0. N \in Nat /\ Len(fn) \in Nat /\ Len(fn') \in Nat
  <2>1. fn \in Seq([type : Types, offset : Nat]) /\ fn' \in Seq([type : Types, offset : Nat])
    BY DEF TypeOK
  <2>2. N \in Nat
    BY DEF TypeOK, N
  <2> QED BY <2>1, <2>2
<1>1. ASSUME NEW i \in 1..N
      PROVE  /\ spec.args[i].arg \in 1..Len(fn) /\ spec'.args[i] = spec.args[i]
             /\ fn'[spec.args[i].arg] = fn[spec.args[i].arg]
  <2>1. i \in Nat /\ i >= 1
    BY <1>0
  <2>2. spec.args[i].arg \in 1..Len(fn)
    BY <1>0, <2>1 DEF ElementInv, ElementAt
  <2> QED BY <2>2
<1>2. ASSUME NEW i \in 0..N PROVE End(i)' = End(i)
  <2>1. i = 0 \/ i \in 1..N
    BY <1>0
  <2> QED BY <2>1, <1>1 DEF End
<1>3. ASSUME NEW i \in 1..N PROVE ElementAt(i)'
  <2> DEFINE a == spec.args[i].arg
  <2>1. ElementAt(i) /\ a \in 1..Len(fn) /\ spec'.args[i] = spec.args[i] /\ fn'[a] = fn[a]
    BY <1>1 DEF ElementInv
  <2>2. End(i - 1)' = End(i - 1)
    <3>1. i - 1 \in 0..N
      BY <1>0
    <3> QED BY <3>1, <1>2
  <2>3. ASSUME AfterVoid(a) PROVE \E b \in 1..(a - 1) : fn'[b].type = Void
    <3>1. PICK b \in 1..(a - 1) : fn[b].type = Void
      BY <2>3 DEF AfterVoid
    <3>2. b \in 1..Len(fn)
      BY <1>0, <2>1
    <3> QED BY <3>1, <3>2
  <2>4. a \in Nat /\ i <= a /\ a <= Len(fn')
    BY <1>0, <2>1 DEF ElementAt
  <2> QED BY <2>1, <2>2, <2>3, <2>4 DEF ElementAt, AfterVoid
<1> QED BY <1>2, <1>3

(* An argument of type void changes fn alone. *)
LEMMA AddVoidStep == IInv /\ AddVoid => IInv'
<1> SUFFICES ASSUME IInv, AddVoid PROVE IInv'
  OBVIOUS
<1> DEFINE L == Len(fn)
           e == [type |-> Void, offset |-> 0]
<1>0. /\ TypeOK /\ ArgsTerminated /\ ElementInv /\ SpaceInv
      /\ phase = "build" /\ phase' = "build" /\ use' = use /\ UNCHANGED local
      /\ fn' = Append(fn, e) /\ spec' = spec
  BY DEF IInv, AddVoid
<1>1. /\ L \in Nat /\ Len(fn') = L + 1 /\ fn' \in Seq([type : Types, offset : Nat])
      /\ \A i \in 1..L : fn'[i] = fn[i]
      /\ fn'[L + 1] = e
  <2>1. e \in [type : Types, offset : Nat]
    BY DEF Types
  <2> HIDE DEF e
  <2> QED BY <1>0, <2>1 DEF TypeOK
<1>2. TypeOK'
  BY <1>0, <1>1 DEF TypeOK, local
<1>3. N' = N /\ N \in Nat /\ N <= L
  BY <1>0 DEF N, TypeOK, ElementInv
<1>4. \A i \in 1..N : spec.args[i].arg \in 1..L
  BY <1>0, <1>1, <1>3 DEF ElementInv, ElementAt
<1>5. (\A i \in 0..N : End(i)' = End(i)) /\ \A i \in 1..N : ElementAt(i)'
  <2>1. L <= Len(fn')
    BY <1>1
  <2> QED BY <1>0, <1>1, <1>2, <2>1, ElementsKept
<1>6. ArgsTerminated'
  <2>1. \A i \in 1..N : spec.args[i].arg \in DOMAIN fn' /\ fn'[spec.args[i].arg] = fn[spec.args[i].arg]
    BY <1>1, <1>4
  <2> QED BY <1>0, <2>1 DEF ArgsTerminated, NullElem, N
<1>7. ElementInv'
  <2>1. N' <= Len(fn') /\ \E b \in 1..Len(fn') : fn'[b].type = Void
    BY <1>1, <1>3
  <2>2. spec'.bytes = End(N)'
    <3>1. End(N)' = End(N)
      BY <1>3, <1>5
    <3> QED BY <1>0, <3>1 DEF ElementInv
  <2> QED BY <1>3, <1>5, <2>1, <2>2 DEF ElementInv
<1>8. SpaceInv'
  <2>1. \A p \in 1..Len(fn') : fn'[p].type # Void => p \in 1..L /\ fn'[p] = fn[p]
    BY <1>1
  <2> QED BY <1>0, <2>1 DEF SpaceInv
<1>9. ResultInv' /\ LocalInv' /\ ArgumentsArrive' /\ AbortInv'
  BY <1>0, BuildingIsQuiet DEF ResultInv
<1> QED BY <1>2, <1>6, <1>7, <1>8, <1>9 DEF IInv

(* ctypes_add_argument puts the argument behind those before it. *)
LEMMA AddArgumentStep == ASSUME IInv, NEW t \in Passed, AddArgument(t) PROVE IInv'
<1> DEFINE L == Len(fn)
           e == [type |-> t, offset |-> aligned_offset(spec.bytes, Align[t])]
           b == e.offset + Size[t]
           Elems == Seq([type : Types \cup {NULL}, arg : Nat])
<1>0. /\ TypeOK /\ ArgsTerminated /\ ElementInv /\ SpaceInv
      /\ phase = "build" /\ phase' = "build" /\ use' = use /\ UNCHANGED local
      /\ fn' = Append(fn, e) /\ spec' = WithElement(t)
  BY DEF IInv, AddArgument
<1>1. /\ t \in Types /\ t # Void /\ Size[t] \in Nat \ {0} /\ Align[t] \in Nat \ {0}
      /\ spec.bytes \in Nat
  BY <1>0, SpecConstants DEF Types, TypeOK
<1>2. /\ e.offset \in Nat /\ e.offset >= spec.bytes /\ e.offset % Align[t] = 0
      /\ b \in Nat /\ e.offset <= b /\ e.type = t
  <2>1. e.offset = aligned_offset(spec.bytes, Align[t]) /\ e.type = t
    OBVIOUS
  <2>2. /\ aligned_offset(spec.bytes, Align[t]) \in Nat
        /\ aligned_offset(spec.bytes, Align[t]) >= spec.bytes
        /\ aligned_offset(spec.bytes, Align[t]) % Align[t] = 0
    BY <1>1, AlignedOffset
  <2>3. b = e.offset + Size[t]
    OBVIOUS
  <2> HIDE DEF b, e
  <2> QED BY <1>1, <2>1, <2>2, <2>3
<1>3. /\ L \in Nat /\ Len(fn') = L + 1 /\ fn' \in Seq([type : Types, offset : Nat])
      /\ \A i \in 1..L : fn'[i] = fn[i]
      /\ fn'[L + 1] = e
  <2>1. e \in [type : Types, offset : Nat]
    BY <1>1, <1>2
  <2> HIDE DEF e
  <2> QED BY <1>0, <2>1 DEF TypeOK
<1>4. /\ spec' = [spec EXCEPT !.bytes = spec'.bytes, !.nelements = spec'.nelements,
                              !.capacity = spec'.capacity, !.args = spec'.args]
      /\ spec'.nelements = N + 1 /\ spec'.bytes = b
      /\ spec'.capacity \in Nat /\ N + 2 <= spec'.capacity /\ Len(spec'.args) = spec'.capacity
      /\ spec'.args \in Elems
      /\ spec'.args[N + 1] = [type |-> t, arg |-> L + 1] /\ spec'.args[N + 2] = NullElem
      /\ \A i \in 1..N : spec'.args[i] = spec.args[i]
  BY <1>0, ElementAdded DEF Elem
<1> HIDE DEF e, b, Elems
<1>5. PICK n \in Nat : n = N /\ n + 1 = N' /\ n <= L
  <2>1. N \in Nat /\ N' = N + 1 /\ N <= L
    BY <1>0, <1>4 DEF N, TypeOK, ElementInv
  <2> QED BY <2>1
<1>6. TypeOK'
  <2>1. spec'.bytes \in Nat /\ spec'.nelements \in Nat
    BY <1>2, <1>4, <1>5
  <2> QED BY <1>0, <1>3, <1>4, <2>1 DEF TypeOK, local, Elems
<1>7. (\A i \in 0..n : End(i)' = End(i)) /\ \A i \in 1..n : ElementAt(i)'
  <2>1. L <= Len(fn')
    BY <1>3
  <2> QED BY <1>0, <1>3, <1>4, <1>5, <1>6, <2>1, ElementsKept
<1>8. ElementAt(n + 1)'
  <2>1. spec'.args[n + 1].arg = L + 1 /\ spec'.args[n + 1].type = t /\ fn'[L + 1] = e
    BY <1>3, <1>4, <1>5
  <2>2. L + 1 = n + 1 \/ \E v \in 1..((L + 1) - 1) : fn'[v].type = Void
    <3>1. CASE n < L
      <4>1. PICK v \in 1..L : fn[v].type = Void
        BY <1>0, <1>5, <3>1 DEF ElementInv
      <4>2. v \in 1..((L + 1) - 1) /\ fn'[v].type = Void
        BY <1>3, <4>1
      <4> QED BY <4>2
    <3> QED BY <1>3, <1>5, <3>1
  <2>3. e.offset = aligned_offset(End((n + 1) - 1)', Align[t])
    <3>1. (n + 1) - 1 = n /\ n \in 0..n
      BY <1>5
    <3>2. End((n + 1) - 1)' = spec.bytes
      BY <1>0, <1>5, <1>7, <3>1 DEF ElementInv
    <3> QED BY <3>2 DEF e
  <2>4. L + 1 \in Nat /\ n + 1 <= L + 1 /\ L + 1 <= Len(fn')
    BY <1>3, <1>5
  <2> QED BY <1>2, <2>1, <2>2, <2>3, <2>4 DEF ElementAt, AfterVoid
<1>9. ElementInv'
  <2>1. /\ N' <= Len(fn')
        /\ N' < Len(fn') => \E v \in 1..Len(fn') : fn'[v].type = Void
    <3>1. ASSUME N' < Len(fn') PROVE \E v \in 1..Len(fn') : fn'[v].type = Void
      <4>1. PICK v \in 1..L : fn[v].type = Void
        BY <1>0, <1>3, <1>5, <3>1 DEF ElementInv
      <4>2. v \in 1..Len(fn') /\ fn'[v].type = Void
        BY <1>3, <4>1
      <4> QED BY <4>2
    <3> QED BY <1>3, <1>5, <3>1
  <2>2. spec'.bytes = End(n + 1)'
    <3>1. n + 1 # 0
      BY <1>5
    <3>2. spec'.args[n + 1].arg = L + 1 /\ spec'.args[n + 1].type = t
      BY <1>4, <1>5
    <3>3. End(n + 1)' = fn'[L + 1].offset + Size[t]
      BY <3>1, <3>2 DEF End
    <3> QED BY <1>2, <1>3, <1>4, <3>3 DEF b
  <2>3. \A i \in 1..(n + 1) : ElementAt(i)'
    BY <1>5, <1>7, <1>8
  <2> QED BY <1>0, <1>5, <2>1, <2>2, <2>3 DEF ElementInv
<1>10. ArgsTerminated'
  <2>1. ASSUME NEW i \in 1..(n + 1)
        PROVE  spec'.args[i].arg \in DOMAIN fn' /\ spec'.args[i].type = fn'[spec'.args[i].arg].type
    <3>1. ElementAt(i)'
      BY <1>5, <1>7, <1>8
    <3>2. spec'.args[i].arg \in 1..(L + 1)
      BY <1>3, <1>5, <3>1 DEF ElementAt
    <3> QED BY <1>3, <3>1, <3>2 DEF ElementAt
  <2>2. n + 1 < spec'.capacity /\ (n + 1) + 1 = n + 2
    BY <1>4, <1>5
  <2> QED BY <1>4, <1>5, <2>1, <2>2 DEF ArgsTerminated, NullElem
<1>11. SpaceInv'
  <2>1. ASSUME NEW p \in 1..L, fn[p].type # Void
        PROVE  /\ fn[p].offset % Align[fn[p].type] = 0
               /\ fn[p].offset + Size[fn[p].type] <= b
               /\ fn[p].offset + Size[fn[p].type] <= e.offset
               /\ \A q \in 1..L : p < q /\ fn[q].type # Void => fn[p].offset + Size[fn[p].type] <= fn[q].offset
    <3>1. /\ fn[p].offset % Align[fn[p].type] = 0
          /\ fn[p].offset + Size[fn[p].type] <= spec.bytes
          /\ \A q \in 1..L : p < q /\ fn[q].type # Void => fn[p].offset + Size[fn[p].type] <= fn[q].offset
      BY <1>0, <2>1 DEF SpaceInv
    <3>2. fn[p].offset + Size[fn[p].type] \in Nat
      <4>1. fn[p] \in [type : Types, offset : Nat]
        <5>1. fn \in Seq([type : Types, offset : Nat])
          BY <1>0 DEF TypeOK
        <5> QED BY <2>1, <5>1, SeqElement
      <4> QED BY <4>1, SpecConstants
    <3> QED BY <1>1, <1>2, <3>1, <3>2
  <2>2. \A p \in 1..Len(fn') : p = L + 1 \/ p \in 1..L
    BY <1>3
  <2>3. \A p \in 1..L : fn'[p] = fn[p] /\ p < L + 1
    BY <1>3
  <2>4. ~ (L + 1 < L + 1) /\ \A q \in 1..L : ~ (L + 1 < q)
    BY <1>3
  <2>5. e.offset + Size[t] <= b
    BY <1>1, <1>2 DEF b
  <2>6. fn'[L + 1].type = t /\ fn'[L + 1].offset = e.offset
    BY <1>2, <1>3
  <2>7. ASSUME NEW p \in 1..Len(fn'), fn'[p].type # Void
        PROVE  /\ fn'[p].offset % Align[fn'[p].type] = 0
               /\ fn'[p].offset + Size[fn'[p].type] <= b
               /\ \A q \in 1..Len(fn') : p < q /\ fn'[q].type # Void =>
                    fn'[p].offset + Size[fn'[p].type] <= fn'[q].offset
    <3>1. CASE p = L + 1
      BY <1>2, <2>2, <2>4, <2>5, <2>6, <3>1
    <3>2. CASE p \in 1..L
      BY <2>1, <2>2, <2>3, <2>6, <2>7, <3>2
    <3> QED BY <2>2, <3>1, <3>2
  <2> QED BY <1>0, <1>4, <2>7 DEF SpaceInv
<1>12. ResultInv' /\ LocalInv' /\ ArgumentsArrive' /\ AbortInv'
  BY <1>0, BuildingIsQuiet DEF ResultInv
<1> QED BY <1>6, <1>9, <1>10, <1>11, <1>12 DEF IInv

(* Whatever keeps fn and args keeps the elements. *)
LEMMA LayoutKept ==
  ASSUME TypeOK, TypeOK', ArgsTerminated, ElementInv, fn' = fn, phase' # "build",
         spec'.args = spec.args, spec'.nelements = spec.nelements, spec'.capacity = spec.capacity
  PROVE  ArgsTerminated' /\ ElementInv'
<1>1. ArgsTerminated'
  BY DEF ArgsTerminated, NullElem
<1>2. N' = N
  BY DEF N
<1>3. \A i \in 1..N : ElementAt(i)'
  <2>1. Len(fn) <= Len(fn')
    <3>1. Len(fn) \in Nat
      BY DEF TypeOK
    <3> QED BY <3>1
  <2> QED BY <2>1, ElementsKept
<1> QED BY <1>1, <1>2, <1>3 DEF ElementInv

(* arg_type raises before anything is changed. *)
LEMMA RefuseStep == ASSUME IInv, NEW t \in Unsupported, Refuse(t) PROVE IInv'
<1>0. /\ TypeOK /\ ArgsTerminated /\ ElementInv /\ SpaceInv
      /\ phase = "build" /\ phase' = "refused" /\ use' = use /\ UNCHANGED local
      /\ fn' = fn /\ spec' = spec
  BY DEF IInv, Refuse
<1>1. TypeOK'
  BY <1>0 DEF TypeOK, local
<1>2. ArgsTerminated' /\ ElementInv'
  BY <1>0, <1>1, LayoutKept
<1>3. SpaceInv' /\ ResultInv'
  BY <1>0 DEF SpaceInv, ResultInv
<1>4. LocalInv' /\ ArgumentsArrive' /\ AbortInv'
  BY <1>0, BuildingIsQuiet
<1> QED BY <1>1, <1>2, <1>3, <1>4 DEF IInv

(* There is room for the result, and for the word libffi may write. *)
LEMMA ResultRoom ==
  ASSUME TypeOK, NEW r \in Types
  PROVE  LET s == WithResult(r) IN
         /\ s = [spec EXCEPT !.roffset = s.roffset, !.rtype = r, !.cif = "allocated", !.bytes = s.bytes]
         /\ s.roffset \in Nat /\ s.bytes \in Nat /\ s.rtype = r
         /\ spec.bytes <= s.roffset /\ s.roffset % Align[r] = 0
         /\ s.roffset + (IF Size[r] < Word THEN Word ELSE Size[r]) <= aligned_offset(s.bytes, Word)
         /\ aligned_offset(s.bytes, Word) % Word = 0
<1> DEFINE roffset == aligned_offset(spec.bytes, Align[r])
           end == aligned_offset(roffset + Size[r], Word)
<1>1. Size[r] \in Nat \ {0} /\ Align[r] \in Nat \ {0} /\ Word \in Nat \ {0} /\ spec.bytes \in Nat
  BY SpecConstants DEF TypeOK
<1>2. roffset \in Nat /\ roffset >= spec.bytes /\ roffset % Align[r] = 0
  BY <1>1, AlignedOffset
<1>3. end \in Nat /\ end >= roffset + Size[r]
  <2> HIDE DEF roffset
  <2>1. roffset + Size[r] \in Nat
    BY <1>1, <1>2
  <2> QED BY <1>1, <2>1, AlignedOffset
<1>4. WithResult(r) = [spec EXCEPT !.roffset = roffset, !.rtype = r, !.cif = "allocated",
                                   !.bytes = end + Word]
  BY DEF WithResult
<1> HIDE DEF roffset, end
<1>5. /\ WithResult(r).roffset = roffset /\ WithResult(r).rtype = r
      /\ WithResult(r).bytes = end + Word
  BY <1>4 DEF TypeOK
<1>6. /\ aligned_offset(end + Word, Word) \in Nat
      /\ aligned_offset(end + Word, Word) >= end + Word
      /\ aligned_offset(end + Word, Word) % Word = 0
  <2>1. end + Word \in Nat
    BY <1>1, <1>3
  <2> QED BY <1>1, <2>1, AlignedOffset
<1>7. roffset + (IF Size[r] < Word THEN Word ELSE Size[r]) <= aligned_offset(end + Word, Word)
  BY <1>1, <1>2, <1>3, <1>6
<1> QED BY <1>1, <1>2, <1>3, <1>4, <1>5, <1>6, <1>7

(* What the two ends of ctypes_prep_callspec have in common. *)
LEMMA ResultAdded ==
  ASSUME IInv, NEW r \in Types, phase = "build", fn # <<>>, UNCHANGED <<use, fn, local>>,
         phase' \in {"refused", "ready"},
         NEW state \in {"BUILDING", "CALLSPEC"}, NEW cif \in {"none", "allocated", "prepared"},
         spec' = [WithResult(r) EXCEPT !.state = state, !.cif = cif]
  PROVE  IInv'
<1>0. TypeOK /\ ArgsTerminated /\ ElementInv /\ SpaceInv
  BY DEF IInv
<1>1. /\ WithResult(r) = [spec EXCEPT !.roffset = WithResult(r).roffset, !.rtype = r,
                                      !.cif = "allocated", !.bytes = WithResult(r).bytes]
      /\ WithResult(r).roffset \in Nat /\ WithResult(r).bytes \in Nat
  BY <1>0, ResultRoom
<1>2. spec' = [spec EXCEPT !.roffset = WithResult(r).roffset, !.rtype = r, !.cif = cif,
                           !.bytes = WithResult(r).bytes, !.state = state]
  BY <1>0, <1>1 DEF TypeOK
<1>3. /\ spec'.roffset = WithResult(r).roffset /\ spec'.bytes = WithResult(r).bytes /\ spec'.rtype = r
      /\ spec'.args = spec.args /\ spec'.nelements = spec.nelements /\ spec'.capacity = spec.capacity
  BY <1>0, <1>2 DEF TypeOK
<1>4. /\ spec'.rtype = r /\ spec'.roffset \in Nat
      /\ spec.bytes <= spec'.roffset /\ spec'.roffset % Align[r] = 0
      /\ spec'.roffset + (IF Size[r] < Word THEN Word ELSE Size[r]) <= aligned_offset(spec'.bytes, Word)
      /\ aligned_offset(spec'.bytes, Word) % Word = 0
  BY <1>0, <1>3, ResultRoom
<1>5. TypeOK'
  BY <1>0, <1>1, <1>2 DEF TypeOK, local
<1>6. ArgsTerminated' /\ ElementInv'
  BY <1>0, <1>3, <1>5, LayoutKept
<1>7. SpaceInv'
  <2>1. ASSUME NEW p \in 1..Len(fn), fn[p].type # Void
        PROVE  fn[p].offset + Size[fn[p].type] <= spec'.roffset
    <3>1. fn[p].offset + Size[fn[p].type] <= spec.bytes
      BY <1>0, <2>1 DEF SpaceInv
    <3>2. fn[p] \in [type : Types, offset : Nat]
      <4>1. fn \in Seq([type : Types, offset : Nat])
        BY <1>0 DEF TypeOK
      <4> QED BY <4>1, SeqElement
    <3>3. spec.bytes \in Nat
      BY <1>0 DEF TypeOK
    <3>4. Size[fn[p].type] \in Nat
      BY <3>2, SpecConstants
    <3> QED BY <1>4, <3>1, <3>2, <3>3, <3>4
  <2> QED BY <1>0, <2>1 DEF SpaceInv
<1>8. ResultInv'
  <2>1. Len(fn) > 0
    BY <1>0 DEF TypeOK
  <2> QED BY <1>4, <2>1 DEF ResultInv, arg_array_offset
<1>9. LocalInv' /\ ArgumentsArrive' /\ AbortInv'
  BY BuildingIsQuiet
<1> QED BY <1>5, <1>6, <1>7, <1>8, <1>9 DEF IInv

(* Every step of building preserves the invariant. *)
LEMMA BuildStep == IInv /\ Build => IInv'
<1> SUFFICES ASSUME IInv, Build PROVE IInv'
  OBVIOUS
<1>1. CASE AddVoid
  BY <1>1, AddVoidStep
<1>2. ASSUME NEW t \in Passed, AddArgument(t) PROVE IInv'
  BY <1>2, AddArgumentStep
<1>3. ASSUME NEW t \in Unsupported, Refuse(t) PROVE IInv'
  BY <1>3, RefuseStep
<1>4. ASSUME NEW r \in Values \cup {Void}, Prep(r) PROVE IInv'
  <2>1. r \in Types
    BY DEF Types, Passed
  <2> QED BY <1>4, <2>1, ResultAdded DEF Prep
<1>5. ASSUME NEW r \in Values \cup {Void}, PrepFails(r) PROVE IInv'
  <2>1. r \in Types /\ TypeOK
    BY DEF Types, Passed, IInv
  <2>2. WithResult(r) = [WithResult(r) EXCEPT !.state = spec.state, !.cif = "allocated"]
    <3>1. WithResult(r) = [spec EXCEPT !.roffset = WithResult(r).roffset, !.rtype = r,
                                       !.cif = "allocated", !.bytes = WithResult(r).bytes]
      BY <2>1, ResultRoom
    <3> QED BY <2>1, <3>1 DEF TypeOK
  <2>3. spec.state \in {"BUILDING", "CALLSPEC"}
    BY <2>1 DEF TypeOK
  <2> QED BY <1>5, <2>1, <2>2, <2>3, ResultAdded DEF PrepFails
<1> QED BY <1>1, <1>2, <1>3, <1>4, <1>5 DEF Build

-----------------------------------------------------------------------------
(* Calls and callbacks leave the callspec alone. *)
LEMMA SpecKept ==
  ASSUME IInv, TypeOK', UNCHANGED <<use, fn, spec>>,
         phase \notin {"build", "refused"}, phase' \notin {"build", "refused"}
  PROVE  ArgsTerminated' /\ ElementInv' /\ SpaceInv' /\ ResultInv'
<1>1. ArgsTerminated' /\ ElementInv'
  BY LayoutKept DEF IInv
<1> QED BY <1>1 DEF IInv, SpaceInv, ResultInv, arg_array_offset

(* Facts about the elements in the terms of which the steps speak. *)
LEMMA Elements ==
  ASSUME TypeOK, ElementInv
  PROVE  /\ N \in Nat /\ Len(fn) \in Nat /\ N <= Len(fn)
         /\ \A i \in 1..N : /\ spec.args[i].arg \in 1..Len(fn)
                            /\ spec.args[i].type = fn[spec.args[i].arg].type
                            /\ spec.args[i].type \in Passed
         /\ \A p \in 1..Len(fn) : fn[p].type \in Types /\ fn[p].offset \in Nat
<1>1. N \in Nat /\ Len(fn) \in Nat /\ N <= Len(fn)
  BY DEF TypeOK, ElementInv, N
<1>2. ASSUME NEW i \in 1..N
      PROVE  /\ spec.args[i].arg \in 1..Len(fn)
             /\ spec.args[i].type = fn[spec.args[i].arg].type /\ spec.args[i].type \in Passed
  <2>1. ElementAt(i)
    BY DEF ElementInv
  <2> QED BY <1>1, <2>1 DEF ElementAt
<1>3. ASSUME NEW p \in 1..Len(fn) PROVE fn[p].type \in Types /\ fn[p].offset \in Nat
  <2>1. fn \in Seq([type : Types, offset : Nat])
    BY DEF TypeOK
  <2>2. fn[p] \in [type : Types, offset : Nat]
    BY <2>1, SeqElement
  <2> QED BY <2>2
<1> QED BY <1>1, <1>2, <1>3

(* A call starts with no pointers and no OCaml arguments. *)
LEMMA CallBeginStep == IInv /\ CallBegin => IInv'
<1> SUFFICES ASSUME IInv, CallBegin PROVE IInv'
  OBVIOUS
<1>0. /\ phase = "ready" /\ use = "call" /\ phase' = "populate" /\ pos' = Len(fn)
      /\ mov' = [i \in 1..N |-> 0] /\ UNCHANGED <<use, fn, spec, slots, offset, buffer>>
      /\ TypeOK /\ ElementInv /\ LocalInv
  BY DEF IInv, CallBegin, N
<1>1. /\ N \in Nat /\ Len(fn) \in Nat
  BY <1>0, Elements
<1>2. mov' \in Seq(Nat) /\ Len(mov') = N /\ \A i \in 1..N : mov'[i] = 0
  BY <1>0, <1>1
<1>3. TypeOK'
  BY <1>0, <1>1, <1>2 DEF TypeOK
<1>4. slots' = <<>> /\ offset' = 0 /\ buffer' = {} /\ N' = N /\ End(0)' = 0
  BY <1>0 DEF LocalInv, N, End
<1>5. PopulatedInv' /\ Written'
  BY <1>0, <1>1, <1>2, <1>4 DEF PopulatedInv, Written
<1>6. Len(slots') = 0
  BY <1>4
<1>7. End(Len(slots))' = 0
  BY <1>6 DEF End
<1>8. LocalInv'
  BY <1>0, <1>1, <1>4, <1>5, <1>6, <1>7 DEF LocalInv
<1>9. ArgumentsArrive' /\ AbortInv'
  BY <1>0 DEF ArgumentsArrive, AbortInv
<1> QED BY <1>0, <1>3, <1>8, <1>9, SpecKept DEF IInv

(* populate_arg_array finds the offset that add_argument has found. *)
LEMMA PopulateStep == IInv /\ Populate => IInv'
<1> SUFFICES ASSUME IInv, Populate PROVE IInv'
  OBVIOUS
<1>1. PICK k \in Nat : k = Len(slots)
  BY DEF IInv, TypeOK
<1> DEFINE t == spec.args[k + 1].type
           a == spec.args[k + 1].arg
           o == aligned_offset(offset, Align[t])
<1>0. /\ TypeOK /\ ElementInv /\ LocalInv /\ phase = "populate" /\ phase' = "populate" /\ k < N
      /\ slots' = Append(slots, Address(o)) /\ offset' = o + Size[t]
      /\ UNCHANGED <<use, fn, spec, pos, mov, buffer>>
  BY <1>1 DEF IInv, Populate, N
<1>2. /\ k + 1 \in 1..N /\ t \in Types /\ t \in Passed /\ a \in 1..Len(fn) /\ t = fn[a].type
      /\ N \in Nat /\ N' = N
  BY <1>0, Elements DEF Types, N
<1>3. /\ offset = End(k) /\ offset \in Nat /\ Size[t] \in Nat /\ Align[t] \in Nat \ {0}
  BY <1>0, <1>1, <1>2, SpecConstants DEF LocalInv, TypeOK
<1>4. o \in Nat /\ o = fn[a].offset
  <2>1. o \in Nat
    BY <1>3, AlignedOffset
  <2>2. ElementAt(k + 1) /\ (k + 1) - 1 = k
    <3>1. (k + 1) - 1 = k
      OBVIOUS
    <3>2. \A i \in 1..N : ElementAt(i)
      BY <1>0 DEF ElementInv
    <3> QED BY <1>2, <3>1, <3>2
  <2> QED BY <1>2, <1>3, <2>1, <2>2 DEF ElementAt
<1>5. /\ slots' \in Seq([ref : BOOLEAN, at : Nat]) /\ Len(slots') = k + 1
      /\ \A i \in 1..k : slots'[i] = slots[i]
      /\ slots'[k + 1] = Address(o)
  <2>1. Address(o) \in [ref : BOOLEAN, at : Nat]
    BY <1>4 DEF Address
  <2>2. slots \in Seq([ref : BOOLEAN, at : Nat])
    BY <1>0 DEF TypeOK
  <2> HIDE DEF o
  <2> QED BY <1>0, <1>1, <2>1, <2>2
<1>6. TypeOK'
  <2>1. offset' \in Nat
    <3>1. offset' = o + Size[t]
      BY <1>0
    <3> HIDE DEF o, t
    <3> QED BY <1>3, <1>4, <3>1
  <2> QED BY <1>0, <1>5, <2>1 DEF TypeOK
<1>7. End(k + 1)' = offset'
  <2>1. k + 1 # 0
    OBVIOUS
  <2> QED BY <1>0, <1>4, <2>1 DEF End
<1>8. PopulatedInv'
  <2>1. \A i \in 1..k : slots[i] = Address(fn[spec.args[i].arg].offset)
    BY <1>0, <1>1 DEF LocalInv, PopulatedInv
  <2>2. \A i \in 1..(k + 1) : i \in 1..k \/ i = k + 1
    OBVIOUS
  <2> QED BY <1>0, <1>4, <1>5, <2>1, <2>2 DEF PopulatedInv, Address
<1>9. Written' /\ pos' = Len(fn')
  BY <1>0, <1>2 DEF LocalInv, Written
<1>10. End(Len(slots))' = offset'
  BY <1>5, <1>7 DEF End
<1>11. LocalInv'
  <2>1. Len(slots') <= N' /\ offset' = End(Len(slots))' /\ use' = "call"
    <3>1. Len(slots') <= N'
      BY <1>2, <1>5
    <3>2. offset' = End(Len(slots))'
      BY <1>10
    <3>3. use' = "call"
      BY <1>0 DEF LocalInv
    <3> QED BY <3>1, <3>2, <3>3
  <2>2. \A w \in buffer' : w.arg \in 1..Len(fn') /\ fn'[w.arg].type # Void /\ w.offset = fn'[w.arg].offset
    BY <1>0 DEF LocalInv
  <2> QED BY <1>0, <1>8, <1>9, <2>1, <2>2 DEF LocalInv
<1>12. ArgumentsArrive' /\ AbortInv'
  BY <1>0 DEF ArgumentsArrive, AbortInv
<1> QED BY <1>0, <1>6, <1>11, <1>12, SpecKept DEF IInv

(* The loop of populate_arg_array ends. *)
LEMMA PopulatedStep == IInv /\ Populated => IInv'
<1> SUFFICES ASSUME IInv, Populated PROVE IInv'
  OBVIOUS
<1>0. /\ TypeOK /\ LocalInv /\ phase = "populate" /\ phase' = "write" /\ Len(slots) = N
      /\ UNCHANGED <<use, fn, spec, slots, offset, pos, mov, buffer>>
  BY DEF IInv, Populated, N, local
<1>1. TypeOK'
  BY <1>0 DEF TypeOK
<1>2. LocalInv'
  BY <1>0 DEF LocalInv, PopulatedInv, Written, N
<1>3. ArgumentsArrive' /\ AbortInv'
  BY <1>0 DEF ArgumentsArrive, AbortInv
<1> QED BY <1>0, <1>1, <1>2, <1>3, SpecKept DEF IInv

(* A value goes to its place in the buffer. *)
LEMMA WriteValueStep == IInv /\ WriteValue => IInv'
<1> SUFFICES ASSUME IInv, WriteValue PROVE IInv'
  OBVIOUS
<1>1. PICK p \in Nat : p = pos
  BY DEF IInv, TypeOK
<1> DEFINE w == [arg |-> p, offset |-> fn[p].offset]
<1>0. /\ TypeOK /\ ElementInv /\ LocalInv /\ phase = "write" /\ phase' = "write"
      /\ p > 0 /\ fn[p].type \notin OCamls /\ pos' = p - 1
      /\ buffer' = IF fn[p].type = Void THEN buffer ELSE buffer \cup {w}
      /\ UNCHANGED <<use, fn, spec, slots, offset, mov>>
  BY <1>1 DEF IInv, WriteValue
<1>2. Written /\ N' = N /\ Len(fn) \in Nat /\ p \in 1..Len(fn) /\ fn[p].offset \in Nat
  BY <1>0, <1>1, Elements DEF LocalInv, Written, N
<1>3. TypeOK'
  BY <1>0, <1>2 DEF TypeOK
<1>4. Written'
  <2>1. ASSUME NEW q \in 1..Len(fn), q > p - 1
        PROVE  /\ fn[q].type \in OCamls => q <= N /\ mov[q] = q
               /\ fn[q].type \in Values => [arg |-> q, offset |-> fn[q].offset] \in buffer'
    <3>1. CASE q = p
      BY <1>0, <3>1, SpecConstants DEF Passed
    <3>2. CASE q > p
      BY <1>0, <1>1, <1>2, <3>2 DEF Written
    <3> QED BY <1>2, <2>1, <3>1, <3>2
  <2>2. pos' <= Len(fn')
    BY <1>0, <1>1, <1>2
  <2> QED BY <1>0, <1>2, <2>1, <2>2 DEF Written
<1>5. \A v \in buffer' : v.arg \in 1..Len(fn) /\ fn[v.arg].type # Void /\ v.offset = fn[v.arg].offset
  BY <1>0, <1>2 DEF LocalInv
<1>6. LocalInv'
  BY <1>0, <1>2, <1>4, <1>5 DEF LocalInv, PopulatedInv
<1>7. ArgumentsArrive' /\ AbortInv'
  BY <1>0 DEF ArgumentsArrive, AbortInv
<1> QED BY <1>0, <1>3, <1>6, <1>7, SpecKept DEF IInv

(* An OCaml argument goes to the place of its number. *)
LEMMA WriteOcamlStep == IInv /\ WriteOcaml => IInv'
<1> SUFFICES ASSUME IInv, WriteOcaml PROVE IInv'
  OBVIOUS
<1>1. PICK p \in Nat : p = pos
  BY DEF IInv, TypeOK
<1>0. /\ TypeOK /\ ElementInv /\ LocalInv /\ phase = "write" /\ phase' = "write"
      /\ p > 0 /\ fn[p].type \in OCamls /\ p \in DOMAIN mov /\ pos' = p - 1
      /\ mov' = [mov EXCEPT ![p] = p]
      /\ UNCHANGED <<use, fn, spec, slots, offset, buffer>>
  BY <1>1 DEF IInv, WriteOcaml
<1>2. /\ Written /\ N' = N /\ Len(fn) \in Nat /\ p \in 1..Len(fn) /\ N \in Nat
      /\ mov \in Seq(Nat) /\ Len(mov) = N /\ p \in 1..N
  BY <1>0, <1>1, Elements DEF LocalInv, Written, N, TypeOK
<1>3. /\ mov' \in Seq(Nat) /\ Len(mov') = N /\ mov'[p] = p
      /\ \A i \in 1..N : i # p => mov'[i] = mov[i]
  BY <1>0, <1>2
<1>4. TypeOK'
  BY <1>0, <1>1, <1>3 DEF TypeOK
<1>5. Written'
  <2>1. ASSUME NEW q \in 1..Len(fn), q > p - 1
        PROVE  /\ fn[q].type \in OCamls => q <= N /\ mov'[q] = q
               /\ fn[q].type \in Values => [arg |-> q, offset |-> fn[q].offset] \in buffer
    <3>1. CASE q = p
      BY <1>0, <1>2, <1>3, <3>1, SpecConstants
    <3>2. CASE q > p
      <4>1. fn[q].type \in OCamls => q <= N /\ mov[q] = q
        BY <1>1, <1>2, <3>2 DEF Written
      <4>2. q <= N => mov'[q] = mov[q]
        BY <1>2, <1>3, <3>2
      <4> QED BY <1>1, <1>2, <3>2, <4>1, <4>2 DEF Written
    <3> QED BY <1>2, <2>1, <3>1, <3>2
  <2>2. pos' <= Len(fn')
    BY <1>0, <1>1, <1>2
  <2>3. \A i \in 1..N : mov'[i] # 0 => mov'[i] = i /\ fn[i].type \in OCamls
    BY <1>0, <1>2, <1>3 DEF Written
  <2> QED BY <1>0, <1>2, <1>3, <2>1, <2>2, <2>3 DEF Written
<1>6. LocalInv'
  BY <1>0, <1>2, <1>5 DEF LocalInv, PopulatedInv
<1>7. ArgumentsArrive' /\ AbortInv'
  BY <1>0 DEF ArgumentsArrive, AbortInv
<1> QED BY <1>0, <1>4, <1>6, <1>7, SpecKept DEF IInv

(* The step at which the arguments are in place. *)
LEMMA ReferStep == IInv /\ Refer => IInv'
<1> SUFFICES ASSUME IInv, Refer PROVE IInv'
  OBVIOUS
<1>0. /\ TypeOK /\ ElementInv /\ SpaceInv /\ LocalInv /\ phase = "write" /\ phase' = "ffi_call" /\ pos = 0
      /\ slots' = [i \in DOMAIN slots |-> IF mov[i] # 0 THEN Ref(mov[i]) ELSE slots[i]]
      /\ UNCHANGED <<use, fn, spec, offset, pos, mov, buffer>>
  BY DEF IInv, Refer
<1>1. /\ Written /\ PopulatedInv /\ N' = N /\ N \in Nat /\ Len(slots) = N
      /\ slots \in Seq([ref : BOOLEAN, at : Nat]) /\ DOMAIN slots = 1..N
      /\ Len(fn) \in Nat /\ N <= Len(fn) /\ mov \in Seq(Nat) /\ Len(mov) = N
  BY <1>0, Elements DEF LocalInv, Written, N, TypeOK
<1>2. \A i \in 1..N : slots'[i] = IF mov[i] # 0 THEN Ref(i) ELSE Address(fn[spec.args[i].arg].offset)
  BY <1>0, <1>1 DEF Written, PopulatedInv
<1>3. slots' \in Seq([ref : BOOLEAN, at : Nat])
  <2>1. \A i \in 1..N : (IF mov[i] # 0 THEN Ref(mov[i]) ELSE slots[i]) \in [ref : BOOLEAN, at : Nat]
    BY <1>1, SeqElement DEF Ref
  <2> QED BY <1>0, <1>1, <2>1
<1>4. TypeOK'
  BY <1>0, <1>3 DEF TypeOK
<1>5. ArgumentsArrive'
  <2>1. ASSUME NEW i \in 1..N
        PROVE  LET a == spec.args[i].arg IN
               IF fn[a].type \in OCamls THEN AfterVoid(a) \/ slots'[i] = Ref(a)
               ELSE \/ AfterVoid(a) /\ slots'[i].ref
                    \/ /\ ~slots'[i].ref /\ [arg |-> a, offset |-> slots'[i].at] \in buffer
                       /\ slots'[i].at % Align[fn[a].type] = 0
    <3> DEFINE a == spec.args[i].arg
    <3>1. a \in 1..Len(fn) /\ fn[a].type \in Passed /\ (a = i \/ AfterVoid(a)) /\ a > 0
      <4>1. ElementAt(i)
        BY <1>0 DEF ElementInv
      <4>2. /\ a \in Nat /\ i <= a /\ a <= Len(fn) /\ fn[a].type \in Passed
            /\ a = i \/ AfterVoid(a)
        BY <4>1 DEF ElementAt
      <4> HIDE DEF a
      <4> QED BY <1>1, <4>2
    <3> HIDE DEF a
    <3>2. CASE fn[a].type \in OCamls
      <4>1. ASSUME a = i PROVE mov[i] = i /\ i # 0
        <5>1. i \in 1..Len(fn) /\ i > pos /\ i # 0
          BY <1>0, <1>1
        <5>2. fn[i].type \in OCamls
          BY <3>2, <4>1
        <5> QED BY <1>1, <5>1, <5>2 DEF Written
      <4> QED BY <1>2, <3>1, <3>2, <4>1 DEF a
    <3>3. CASE fn[a].type \notin OCamls
      <4>1. fn[a].type \in Values /\ fn[a].type # Void
        BY <3>1, <3>3, SpecConstants DEF Passed
      <4>2. CASE mov[i] # 0
        <5>1. a # i /\ slots'[i].ref
          <6>1. fn[i].type \in OCamls
            BY <1>1, <4>2 DEF Written
          <6>2. slots'[i] = Ref(i)
            BY <1>2, <4>2
          <6> QED BY <3>3, <6>1, <6>2 DEF Ref
        <5> QED BY <3>1, <3>3, <5>1 DEF a
      <4>3. CASE mov[i] = 0
        <5>1. ~slots'[i].ref /\ slots'[i].at = fn[a].offset
          <6>1. slots'[i] = Address(fn[a].offset)
            BY <1>2, <4>3 DEF a
          <6> QED BY <6>1 DEF Address
        <5>2. [arg |-> a, offset |-> fn[a].offset] \in buffer
          BY <1>0, <1>1, <3>1, <4>1 DEF Written
        <5>3. fn[a].offset % Align[fn[a].type] = 0
          BY <1>0, <3>1, <4>1 DEF SpaceInv
        <5> QED BY <3>3, <5>1, <5>2, <5>3 DEF a
      <4> QED BY <4>2, <4>3
    <3> QED BY <3>2, <3>3 DEF a
  <2>2. \A a \in Nat : AfterVoid(a)' = AfterVoid(a)
    BY <1>0 DEF AfterVoid
  <2>3. \A i \in 1..N : spec.args[i].arg \in Nat
    BY <1>0, <1>1, Elements
  <2>4. spec'.nelements = N
    BY <1>0 DEF N
  <2> QED BY <1>0, <2>1, <2>2, <2>3, <2>4 DEF ArgumentsArrive, Ref
<1>6. LocalInv' /\ AbortInv'
  BY <1>0 DEF LocalInv, AbortInv
<1> QED BY <1>0, <1>4, <1>5, <1>6, SpecKept DEF IInv

(* The steps that change only the phase. *)
LEMMA CallRaises == IInv /\ (WriteOutOfBounds \/ ReferFails) => IInv'
<1> SUFFICES ASSUME IInv, WriteOutOfBounds \/ ReferFails PROVE IInv'
  OBVIOUS
<1>0. /\ TypeOK /\ LocalInv /\ phase = "write" /\ phase' \in {"raised", "aborted"}
      /\ UNCHANGED <<use, fn, spec, slots, offset, pos, mov, buffer>>
  BY DEF IInv, WriteOutOfBounds, ReferFails, local
<1>1. TypeOK'
  BY <1>0 DEF TypeOK
<1>2. LocalInv' /\ ArgumentsArrive' /\ AbortInv'
  BY <1>0 DEF LocalInv, ArgumentsArrive, AbortInv
<1> QED BY <1>0, <1>1, <1>2, SpecKept DEF IInv

(* The next call starts afresh. *)
LEMMA CallEndStep == IInv /\ CallEnd => IInv'
<1> SUFFICES ASSUME IInv, CallEnd PROVE IInv'
  OBVIOUS
<1>0. /\ TypeOK /\ phase \in {"ffi_call", "raised"} /\ phase' = "ready"
      /\ slots' = <<>> /\ offset' = 0 /\ pos' = 0 /\ mov' = <<>> /\ buffer' = {}
      /\ UNCHANGED <<use, fn, spec>>
  BY DEF IInv, CallEnd
<1>1. TypeOK'
  BY <1>0 DEF TypeOK
<1>2. LocalInv' /\ ArgumentsArrive' /\ AbortInv'
  BY <1>0 DEF LocalInv, ArgumentsArrive, AbortInv
<1> QED BY <1>0, <1>1, <1>2, SpecKept DEF IInv

(* Every step of a call preserves the invariant. *)
LEMMA CallStep == IInv /\ Call => IInv'
BY CallBeginStep, PopulateStep, PopulatedStep, WriteValueStep, WriteOcamlStep, CallRaises, ReferStep,
   CallEndStep DEF Call

-----------------------------------------------------------------------------
(* An element of a function without void has the argument's own number;    *)
(* a function of void alone has no element.                                *)
LEMMA PlainElements ==
  ASSUME TypeOK, ElementInv, Plain
  PROVE  \/ N = Len(fn) /\ \A i \in 1..N : spec.args[i].arg = i /\ fn[i].type \in Values
         \/ N = 0 /\ Len(fn) = 1 /\ fn[1].type = Void
<1>0. /\ N \in Nat /\ Len(fn) \in Nat /\ N <= Len(fn) /\ DOMAIN fn = 1..Len(fn)
      /\ \A i \in 1..N : /\ spec.args[i].arg \in 1..Len(fn)
                         /\ spec.args[i].type = fn[spec.args[i].arg].type
                         /\ spec.args[i].type \in Passed
  <2>1. DOMAIN fn = 1..Len(fn)
    BY DEF TypeOK
  <2> QED BY <2>1, Elements
<1>1. Void \notin Values /\ Void \notin Passed
  BY SpecConstants DEF Passed
<1>2. CASE \A a \in 1..Len(fn) : fn[a].type \in Values
  <2>1. N = Len(fn)
    BY <1>0, <1>1, <1>2 DEF ElementInv
  <2>2. ASSUME NEW i \in 1..N PROVE spec.args[i].arg = i
    <3>1. ElementAt(i) /\ spec.args[i].arg \in 1..Len(fn)
      BY <1>0 DEF ElementInv
    <3>2. ASSUME AfterVoid(spec.args[i].arg) PROVE FALSE
      <4>1. PICK b \in 1..(spec.args[i].arg - 1) : fn[b].type = Void
        BY <3>2 DEF AfterVoid
      <4>2. b \in 1..Len(fn)
        BY <1>0, <3>1
      <4> QED BY <1>1, <1>2, <4>1, <4>2
    <3> QED BY <3>1, <3>2 DEF ElementAt
  <2> QED BY <1>2, <2>1, <2>2
<1>3. CASE \E a \in 1..Len(fn) : fn[a].type \notin Values
  <2>1. Len(fn) = 1 /\ fn[1].type = Void
    <3>1. PICK a \in 1..Len(fn) : fn[a].type \notin Values
      BY <1>3
    <3>2. fn[a].type = Void /\ Len(fn) = 1
      BY <1>0, <3>1 DEF Plain
    <3>3. a = 1
      BY <3>2
    <3> QED BY <3>2, <3>3
  <2>2. ASSUME N # 0 PROVE FALSE
    <3>1. 1 \in 1..N
      BY <1>0, <2>2
    <3>2. spec.args[1].arg = 1
      BY <1>0, <2>1, <3>1
    <3> QED BY <1>0, <1>1, <2>1, <3>1, <3>2
  <2> QED BY <2>1, <2>2
<1> QED BY <1>2, <1>3

(* No boxed function has been applied yet. *)
LEMMA CallbackBeginStep == IInv /\ CallbackBegin => IInv'
<1> SUFFICES ASSUME IInv, CallbackBegin PROVE IInv'
  OBVIOUS
<1>0. /\ TypeOK /\ ElementInv /\ LocalInv /\ phase = "ready" /\ use = "callback" /\ phase' = "apply"
      /\ UNCHANGED <<use, fn, spec, slots, offset, pos, mov, buffer>>
  BY DEF IInv, CallbackBegin, local
<1>1. TypeOK'
  BY <1>0 DEF TypeOK
<1>2. slots' = <<>> /\ pos' = 0 /\ offset' = 0 /\ mov' = <<>> /\ buffer' = {} /\ Len(fn') \in Nat
  BY <1>0, Elements DEF LocalInv
<1>3. LocalInv'
  BY <1>0, <1>2 DEF LocalInv
<1>4. ArgumentsArrive' /\ AbortInv'
  BY <1>0 DEF ArgumentsArrive, AbortInv
<1> QED BY <1>0, <1>1, <1>3, <1>4, SpecKept DEF IInv

(* A boxed function is applied to the argument of its number. *)
LEMMA ApplyStep == IInv /\ Apply => IInv'
<1> SUFFICES ASSUME IInv, Apply PROVE IInv'
  OBVIOUS
<1>1. PICK k \in Nat : k = pos
  BY DEF IInv, TypeOK
<1> DEFINE a == Address(IF N = 0 THEN 0 ELSE k + 1)
<1>0. /\ TypeOK /\ ElementInv /\ LocalInv /\ phase = "apply" /\ phase' = "apply" /\ k < Len(fn)
      /\ slots' = Append(slots, a) /\ pos' = k + 1
      /\ UNCHANGED <<use, fn, spec, offset, mov, buffer>>
  BY <1>1 DEF IInv, Apply, Tag, Arity, N
<1>2. /\ slots \in Seq([ref : BOOLEAN, at : Nat]) /\ Len(slots) = k /\ Len(fn) \in Nat /\ N' = N
      /\ \A i \in 1..k : slots[i] = Address(IF N = 0 THEN 0 ELSE i)
  BY <1>0, <1>1, Elements DEF LocalInv, TypeOK, N
<1>3. /\ slots' \in Seq([ref : BOOLEAN, at : Nat]) /\ Len(slots') = k + 1
      /\ \A i \in 1..k : slots'[i] = slots[i]
      /\ slots'[k + 1] = a
  <2>1. a \in [ref : BOOLEAN, at : Nat]
    BY DEF Address
  <2> HIDE DEF a
  <2> QED BY <1>0, <1>2, <2>1
<1>4. TypeOK'
  BY <1>0, <1>3 DEF TypeOK
<1>5. \A i \in 1..(k + 1) : slots'[i] = Address(IF N' = 0 THEN 0 ELSE i)
  <2>1. \A i \in 1..(k + 1) : i \in 1..k \/ i = k + 1
    OBVIOUS
  <2> QED BY <1>2, <1>3, <2>1
<1>6. LocalInv'
  <2>1. pos' = Len(slots') /\ pos' <= Len(fn')
    BY <1>0, <1>2, <1>3
  <2>2. \A i \in 1..pos' : slots'[i] = Address(IF N' = 0 THEN 0 ELSE i)
    BY <1>0, <1>5
  <2>3. offset' = 0 /\ mov' = <<>> /\ buffer' = {}
    BY <1>0 DEF LocalInv
  <2> QED BY <1>0, <2>1, <2>2, <2>3 DEF LocalInv, Address
<1>7. ArgumentsArrive' /\ AbortInv'
  BY <1>0 DEF ArgumentsArrive, AbortInv
<1> QED BY <1>0, <1>4, <1>6, <1>7, SpecKept DEF IInv

(* The next callback starts afresh. *)
LEMMA CallbackEndStep == IInv /\ CallbackEnd => IInv'
<1> SUFFICES ASSUME IInv, CallbackEnd PROVE IInv'
  OBVIOUS
<1>0. /\ TypeOK /\ LocalInv /\ phase = "apply" /\ phase' = "ready" /\ slots' = <<>> /\ pos' = 0
      /\ UNCHANGED <<use, fn, spec, offset, mov, buffer>>
  BY DEF IInv, CallbackEnd, Applied
<1>1. TypeOK'
  BY <1>0 DEF TypeOK
<1>2. LocalInv' /\ ArgumentsArrive' /\ AbortInv'
  BY <1>0 DEF LocalInv, ArgumentsArrive, AbortInv
<1> QED BY <1>0, <1>1, <1>2, SpecKept DEF IInv

(* When all arguments have been applied, in a callback of a plain function, *)
(* the boxed functions have been, too.                                      *)
LEMMA AppliedIsDone ==
  ASSUME IInv, Plain, Applied
  PROVE  Tag = "Done" /\ pos = Len(fn) /\ \A i \in 1..pos : slots[i] = Address(IF N = 0 THEN 0 ELSE i)
<1>0. /\ TypeOK /\ ElementInv /\ LocalInv /\ phase = "apply" /\ pos \in Nat /\ pos > 0 /\ pos >= N
  BY DEF IInv, Applied, Arity, N, TypeOK
<1>1. pos <= Len(fn) /\ \A i \in 1..pos : slots[i] = Address(IF N = 0 THEN 0 ELSE i)
  BY <1>0 DEF LocalInv
<1>2. N = Len(fn) \/ Len(fn) = 1
  BY <1>0, PlainElements
<1>3. Len(fn) \in Nat /\ N \in Nat
  BY <1>0, Elements
<1>4. pos = Len(fn)
  BY <1>0, <1>1, <1>2, <1>3
<1> QED BY <1>1, <1>3, <1>4 DEF Tag

(* No assertion fails in a callback of a plain function. *)
LEMMA AssertFailsStep == IInv /\ AssertFails => IInv'
<1> SUFFICES ASSUME IInv, AssertFails PROVE IInv'
  OBVIOUS
<1>0. /\ TypeOK /\ ElementInv /\ LocalInv /\ ResultInv /\ phase = "apply" /\ phase' = "aborted"
      /\ UNCHANGED <<use, fn, spec, slots, offset, pos, mov, buffer>>
  BY DEF IInv, AssertFails, Applied, local
<1>1. TypeOK'
  BY <1>0 DEF TypeOK
<1>2. LocalInv' /\ ArgumentsArrive'
  BY <1>0 DEF LocalInv, ArgumentsArrive
<1>3. ASSUME Plain PROVE FALSE
  <2>1. ~Applied /\ (Tag # "Fn" \/ fn[pos + 1].type \in OCamls)
    BY <1>3, AppliedIsDone DEF AssertFails
  <2>2. /\ Len(fn) \in Nat /\ N \in Nat /\ pos \in Nat /\ Len(fn) > 0 /\ N <= Len(fn)
        /\ DOMAIN fn = 1..Len(fn)
    BY <1>0, Elements DEF TypeOK, ResultInv
  <2>3. pos = 0 \/ pos < N
    BY <1>0, <2>1, <2>2 DEF Applied, Arity, N
  <2>4. pos < Len(fn)
    BY <2>2, <2>3
  <2>5. Tag = "Fn" /\ pos + 1 \in DOMAIN fn
    BY <2>2, <2>4 DEF Tag
  <2>6. fn[pos + 1].type \in Values \/ fn[pos + 1].type = Void
    BY <1>3, <2>5 DEF Plain
  <2> QED BY <2>1, <2>5, <2>6, SpecConstants DEF Passed
<1>4. AbortInv'
  BY <1>0, <1>3 DEF AbortInv, Plain
<1> QED BY <1>0, <1>1, <1>2, <1>4, SpecKept DEF IInv

(* Every step of a callback preserves the invariant. *)
LEMMA CallbackStep == IInv /\ Callback => IInv'
BY CallbackBeginStep, ApplyStep, CallbackEndStep, AssertFailsStep DEF Callback

(* Steps of the rest of the program preserve the invariant. *)
LEMMA Stutter == IInv /\ UNCHANGED vars => IInv'
<1> SUFFICES ASSUME IInv, UNCHANGED vars PROVE IInv'
  OBVIOUS
<1>0. UNCHANGED <<use, phase, fn, spec, slots, offset, pos, mov, buffer>>
  BY DEF vars, local
<1>1. TypeOK'
  BY <1>0 DEF IInv, TypeOK
<1>2. ArgsTerminated'
  BY <1>0 DEF IInv, ArgsTerminated, NullElem
<1>3. ElementInv'
  <2>1. N' = N /\ \A i \in 1..N : ElementAt(i)' = ElementAt(i)
    BY <1>0 DEF N, ElementAt, AfterVoid, End
  <2>2. End(N)' = End(N)
    BY <1>0, <2>1 DEF End
  <2> QED BY <1>0, <2>1, <2>2 DEF IInv, ElementInv
<1>4. SpaceInv' /\ ResultInv'
  BY <1>0 DEF IInv, SpaceInv, ResultInv, arg_array_offset
<1>5. LocalInv'
  <2>1. N' = N /\ End(Len(slots))' = End(Len(slots)) /\ Written' = Written /\ PopulatedInv' = PopulatedInv
    BY <1>0 DEF N, End, Written, PopulatedInv
  <2> QED BY <1>0, <2>1 DEF IInv, LocalInv
<1>6. ArgumentsArrive' /\ AbortInv'
  BY <1>0 DEF IInv, ArgumentsArrive, AfterVoid, AbortInv, Plain
<1> QED BY <1>1, <1>2, <1>3, <1>4, <1>5, <1>6 DEF IInv

-----------------------------------------------------------------------------
(* The inductive invariant of building, calling and being called.          *)
THEOREM Invariance == Spec => []IInv
<1>1. IInv /\ [Next]_vars => IInv'
  BY BuildStep, CallStep, CallbackStep, Stutter DEF Next
<1> QED BY Initial, <1>1, PTL DEF Spec

(* The state has its type: the building of a callspec leaves no field      *)
(* without a value it can be used with.                                    *)
THEOREM TypeCorrect == Spec => []TypeOK
<1>1. IInv => TypeOK
  BY DEF IInv
<1> QED BY <1>1, Invariance, PTL

(* ctypes_add_argument keeps the array of types null-terminated, and       *)
(* within its allocation, whatever the increment.                          *)
THEOREM ArrayTerminated == Spec => []ArgsTerminated
<1>1. IInv => ArgsTerminated
  BY DEF IInv
<1> QED BY <1>1, Invariance, PTL

(* What the writers put into the buffer libffi finds, at the offsets that  *)
(* populate_arg_array computed without add_argument's.                     *)
THEOREM ArgumentsFound == Spec => []ArgumentsArrive
<1>1. IInv => ArgumentsArrive
  BY DEF IInv
<1> QED BY <1>1, Invariance, PTL

(* The parts of the call buffer that ctypes_call allocates do not overlap. *)
THEOREM BufferDisjoint == Spec => []BufferApart
<1>1. IInv => BufferApart
  <2> SUFFICES ASSUME IInv, phase = "ffi_call" PROVE BufferApart
    BY DEF BufferApart
  <2>0. SpaceInv /\ ResultInv /\ LocalInv
    BY DEF IInv
  <2>1. \A w \in buffer : w.arg \in 1..Len(fn) /\ fn[w.arg].type # Void /\ w.offset = fn[w.arg].offset
    BY <2>0 DEF LocalInv
  <2>2. ASSUME NEW w \in buffer
        PROVE  /\ w.offset + Size[fn[w.arg].type] <= spec.roffset
               /\ \A v \in buffer : w.arg < v.arg => w.offset + Size[fn[w.arg].type] <= v.offset
    BY <2>0, <2>1 DEF SpaceInv
  <2> QED BY <2>0, <2>2 DEF BufferApart, ResultInv
<1> QED BY <1>1, Invariance, PTL

(* The assertions of callback_handler_with_lock hold, and each argument is *)
(* given to the boxed function that was made for it.                       *)
THEOREM CallbacksComplete == Spec => []CallbackCompletes
<1>1. IInv => CallbackCompletes
  <2> SUFFICES ASSUME IInv, use = "callback", Plain
               PROVE  /\ phase # "aborted"
                      /\ Applied => /\ Tag = "Done"
                                    /\ \A a \in DOMAIN fn :
                                         IF fn[a].type = Void THEN slots[a].at = 0
                                         ELSE spec.args[slots[a].at].arg = a
    BY DEF CallbackCompletes, Plain
  <2>1. phase # "aborted"
    BY DEF IInv, AbortInv
  <2>2. ASSUME Applied, NEW a \in DOMAIN fn
        PROVE  IF fn[a].type = Void THEN slots[a].at = 0 ELSE spec.args[slots[a].at].arg = a
    <3>1. a \in 1..Len(fn)
      BY DEF IInv, TypeOK
    <3>2. slots[a].at = IF N = 0 THEN 0 ELSE a
      <4>1. slots[a] = Address(IF N = 0 THEN 0 ELSE a)
        BY <2>2, <3>1, AppliedIsDone
      <4> QED BY <4>1 DEF Address
    <3>3. Void \notin Values
      BY SpecConstants DEF Passed
    <3>4. TypeOK /\ ElementInv
      BY DEF IInv
    <3>5. CASE N = Len(fn) /\ \A i \in 1..N : spec.args[i].arg = i /\ fn[i].type \in Values
      <4>1. N # 0
        BY <3>1, <3>5
      <4> QED BY <3>1, <3>2, <3>3, <3>5, <4>1
    <3>6. CASE N = 0 /\ Len(fn) = 1 /\ fn[1].type = Void
      <4>1. a = 1
        BY <3>1, <3>6
      <4> QED BY <3>2, <3>6, <4>1
    <3> QED BY <3>4, <3>5, <3>6, PlainElements
  <2> QED BY <2>1, <2>2, AppliedIsDone
<1> QED BY <1>1, Invariance, PTL
=============================================================================
