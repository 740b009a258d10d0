----------------------- MODULE FunptrLifetime_proofs -----------------------
(***************************************************************************)
(* The safety of FunptrLifetime for any number of closures, top-level      *)
(* functions, views and pointers.                                          *)
(***************************************************************************)
EXTENDS FunptrLifetime, TLAPS

Made(p) == mem[p] # "none"

(* The pointers that were made: what their objects have in common.         *)
PtrInv ==
  \A p \in Ptrs :
    /\ ~Made(p) => /\ fn[p] = NoFn /\ entry[p] = NoView /\ clean[p] = "none"
                   /\ keep[p] = "none" /\ handle[p] = "none" /\ p \notin frames
    /\ Made(p) /\ fn[p] \in Closures => key[p] = p
    /\ Made(p) /\ handle[p] = "none" /\ fn[p] \in Statics => keep[p] = "forever"
    /\ mem[p] = "freed" => ~MemReachable(p)
    /\ entry[p] # NoView => entry[p] = view[p]
    /\ clean[p] # "none" => entry[p] = view[p]
    /\ p \in frames => handle[p] = "none"

(* A reachable closure has its finalisers attached, and is not collected:  *)
(* none of what they hold back has happened yet.                           *)
ReachInv ==
  /\ \A p \in Ptrs : fn[p] \in Closures /\ FnReachable(fn[p]) =>
       clean[p] = "attached" /\ (handle[p] = "none" => keep[p] = "attached")
  /\ \A c \in collected : ~FnReachable(c)

SpecInv == \A v \in freed : ~SpecReachable(v)

(* A callback in progress holds the boxed function of its pointer's view.  *)
CallbackInv ==
  /\ callback.stage \in {"boxed", "partial", "done"} =>
       /\ callback.ptr \in Ptrs /\ Made(callback.ptr)
       /\ fn[callback.ptr] \in Closures => callback.box = view[callback.ptr]
  /\ callback.stage = "partial" => callback.partial = "tied"

IInv == TypeOK /\ PtrInv /\ ReachInv /\ SpecInv /\ CallbackInv

(* The invariant implies every safety property of the module.              *)
LEMMA InvariantSuffices ==
  IInv => LiveClosureUsable /\ PassedUsable /\ StaticMemoryKept /\ CallbackHasCif
          /\ StartedCallbackCompletes
<1> SUFFICES ASSUME IInv
             PROVE LiveClosureUsable /\ PassedUsable /\ StaticMemoryKept /\ CallbackHasCif
                   /\ StartedCallbackCompletes
  OBVIOUS
<1> USE LifetimeConstants DEF IInv, Made, Functions
<1>1. ASSUME NEW p \in Ptrs, fn[p] \in Closures, FnReachable(fn[p]), handle[p] # "freed"
      PROVE  Usable(p)
  <2>1. Made(p) /\ mem[p] \in {"allocated", "freed"} /\ view[p] \in Views /\ key[p] = p
    BY <1>1 DEF PtrInv, TypeOK
  <2>2. clean[p] = "attached" /\ entry[p] = view[p] /\ fn[p] \notin collected
    BY <1>1, <2>1 DEF PtrInv, ReachInv
  <2>3. MemReachable(p)
    BY <1>1 DEF ReachInv, MemReachable, TypeOK
  <2>4. mem[p] = "allocated"
    BY <2>1, <2>3 DEF PtrInv
  <2>5. view[p] \notin freed
    BY <2>2, <2>1 DEF SpecInv, SpecReachable
  <2> QED BY <2>1, <2>2, <2>4, <2>5 DEF Usable
<1>2. LiveClosureUsable
  BY <1>1 DEF LiveClosureUsable
<1>3. PassedUsable
  <2> SUFFICES ASSUME NEW p \in frames, fn[p] \in Closures PROVE Usable(p)
    BY DEF PassedUsable
  <2>1. p \in Ptrs /\ handle[p] = "none"
    BY DEF TypeOK, PtrInv
  <2>2. FnReachable(fn[p])
    BY <2>1 DEF FnReachable
  <2> QED BY <1>1, <2>1, <2>2
<1>4. StaticMemoryKept
  BY DEF StaticMemoryKept, PtrInv, MemReachable, TypeOK
<1>5. CallbackHasCif
  BY DEF CallbackHasCif, CallbackInv, SpecInv, SpecReachable
<1>6. StartedCallbackCompletes
  BY DEF CallbackInv, StartedCallbackCompletes
<1> QED BY <1>2, <1>3, <1>4, <1>5, <1>6

(* Initially there are no pointers and no callback.                        *)
LEMMA InitIInv == Init => IInv
BY LifetimeConstants DEF Init, IInv, TypeOK, PtrInv, ReachInv, SpecInv, CallbackInv, Made,
  Functions, Pending, FnReachable, MemReachable, NoCallback

(* What Pass and OfFun have in common: the new pointer's objects, and its  *)
(* holders, which differ.                                                  *)
LEMMA MakeKeepsIInv ==
  ASSUME IInv, NEW p \in Ptrs, NEW v \in Views, NEW f \in Functions, Pass(p, v, f) \/ OfFun(p, v, f)
  PROVE  IInv'
<1> USE LifetimeConstants DEF IInv, Made, Functions, NewPtr
<1> DEFINE k == key'[p]
<1>1. /\ ~Made(p) /\ v \in views /\ (f \in Closures => f \in rooted)
      /\ fn' = [fn EXCEPT ![p] = f] /\ view' = [view EXCEPT ![p] = v]
      /\ mem' = [mem EXCEPT ![p] = "allocated"]
      /\ clean' = IF f \in Closures THEN [clean EXCEPT ![p] = "attached"] ELSE clean
      /\ rooted' = rooted /\ views' = views /\ collected' = collected /\ freed' = freed
      /\ callback' = callback
  BY DEF Pass, OfFun
<1>2. /\ k \in Ptrs /\ key' = [key EXCEPT ![p] = k] /\ (f \in Closures => k = p)
      /\ entry' = IF k = p THEN [entry EXCEPT ![p] = v] ELSE entry
  <2> DEFINE known == {q \in Ptrs : fn[q] = f /\ key[q] = q}
             j     == IF f \in Statics /\ known # {} THEN CHOOSE q \in known : TRUE ELSE p
  <2>1. j \in Ptrs /\ (f \in Closures => j = p)
    OBVIOUS
  <2>2. /\ key' = [key EXCEPT ![p] = j]
        /\ entry' = IF j = p THEN [entry EXCEPT ![p] = v] ELSE entry
    BY DEF Pass, OfFun
  <2>3. k = j
    BY <2>2 DEF TypeOK
  <2> HIDE DEF j, k
  <2> QED BY <2>1, <2>2, <2>3
<1>3. \/ /\ keep' = [keep EXCEPT ![p] = IF f \in Closures THEN "attached" ELSE "forever"]
         /\ frames' = frames \cup {p} /\ handle' = handle /\ handles' = handles
      \/ /\ handle' = [handle EXCEPT ![p] = "open"] /\ handles' = handles \cup {p}
         /\ keep' = keep /\ frames' = frames
  BY DEF Pass, OfFun
<1>4. TypeOK'
  BY <1>1, <1>2, <1>3 DEF TypeOK, Pending
<1>5. PtrInv'
  BY <1>1, <1>2, <1>3 DEF PtrInv, TypeOK, Pending, MemReachable
<1>6. ASSUME NEW c \in Closures, FnReachable(c)' PROVE FnReachable(c)
  BY <1>1, <1>3, <1>6 DEF FnReachable, PtrInv, TypeOK
<1>7. ReachInv'
  BY <1>1, <1>3, <1>6 DEF ReachInv, TypeOK, PtrInv, Pending
<1>8. SpecInv'
  BY <1>1, <1>2 DEF SpecInv, SpecReachable, TypeOK
<1>9. CallbackInv'
  BY <1>1 DEF CallbackInv, TypeOK
<1> QED BY <1>4, <1>5, <1>7, <1>8, <1>9

(* The collector takes nothing that is reachable.                          *)
LEMMA GcKeepsIInv == IInv /\ Gc => IInv'
<1> SUFFICES ASSUME IInv, Gc PROVE IInv'
  OBVIOUS
<1> USE LifetimeConstants DEF IInv, Made, Functions, objects, program, gcs, Pending
<1>1. CASE \E c \in Closures : Schedule(c)
  BY <1>1 DEF Schedule, TypeOK, PtrInv, ReachInv, SpecInv, CallbackInv, FnReachable, MemReachable,
    SpecReachable, Attached, Due
<1>2. CASE \E c \in Closures : Collect(c)
  BY <1>2 DEF Collect, TypeOK, PtrInv, ReachInv, SpecInv, CallbackInv, FnReachable, MemReachable,
    SpecReachable
<1>3. ASSUME NEW p \in Ptrs, Cleanup(p) \/ CleanupLater(p) \/ Release(p) PROVE IInv'
  BY <1>3 DEF Cleanup, CleanupLater, Release, TypeOK, PtrInv, ReachInv, SpecInv, CallbackInv,
    FnReachable, MemReachable, SpecReachable
<1>4. ASSUME NEW p \in Ptrs, FreeMem(p) \/ Leak(p) PROVE IInv'
  BY <1>4 DEF FreeMem, Leak, TypeOK, PtrInv, ReachInv, SpecInv, CallbackInv,
    FnReachable, MemReachable, SpecReachable
<1>5. CASE \E v \in Views : FreeSpec(v)
  BY <1>5 DEF FreeSpec, TypeOK, PtrInv, ReachInv, SpecInv, CallbackInv,
    FnReachable, MemReachable, SpecReachable
<1>6. CASE CollectPartial
  BY <1>6 DEF CollectPartial, TypeOK, PtrInv, ReachInv, SpecInv, CallbackInv,
    FnReachable, MemReachable, SpecReachable
<1> QED BY <1>1, <1>2, <1>3, <1>4, <1>5, <1>6 DEF Gc

(* The types of the callback in progress, and what an argument does to it. *)
Callbacks == [ptr : Ptrs \cup {NoPtr}, box : Views \cup {NoView},
              stage : {"none", "boxed", "partial", "done", "expired"},
              partial : {"none", "tied", "loose", "collected"}]

CallbackStep ==
  /\ callback'.ptr = callback.ptr
  /\ \/ callback'.stage = "expired" /\ callback'.box = NoView
     \/ callback.stage = "boxed" /\ callback'.stage = "partial"
        /\ callback'.partial = "tied" /\ callback'.box = callback.box
     \/ callback.stage = "partial" /\ callback'.stage = "done" /\ callback'.box = callback.box

(* A step of the callback alone keeps the types when it keeps its own.     *)
LEMMA TypeOfCallback ==
  ASSUME TypeOK, callback' \in Callbacks,
         UNCHANGED <<objects, entry, mem, gcs, handle, program, collected, freed>>
  PROVE  TypeOK'
BY DEF TypeOK, Callbacks, objects, gcs, program, Functions, Pending

(* The callback applies the function to an argument, or finds it expired   *)
(* (callback_handler_with_lock).                                           *)
LEMMA ArgumentStep ==
  ASSUME TypeOK, FirstArgument \/ FirstArgumentExpired \/ SecondArgument
  PROVE  CallbackStep /\ callback' \in Callbacks
<1>1. PICK c \in Callbacks : c = callback
  BY DEF TypeOK, Callbacks
<1>2. CASE FirstArgument
  <2>1. c.stage = "boxed" /\ callback' = [c EXCEPT !.stage = "partial", !.partial = "tied"]
    BY <1>1, <1>2 DEF FirstArgument
  <2> QED BY <1>1, <2>1 DEF Callbacks, CallbackStep
<1>3. CASE FirstArgumentExpired
  <2>1. callback' = [c EXCEPT !.stage = "expired", !.box = NoView]
    BY <1>1, <1>3 DEF FirstArgumentExpired
  <2> QED BY <1>1, <2>1 DEF Callbacks, CallbackStep
<1>4. CASE SecondArgument
  <2>1. c.stage = "partial" /\ callback' = [c EXCEPT !.stage = "done", !.partial = "loose"]
    BY <1>1, <1>4 DEF SecondArgument
  <2> QED BY <1>1, <2>1 DEF Callbacks, CallbackStep
<1> QED BY <1>2, <1>3, <1>4

(* A callback changes nothing but itself, and holds its boxed function.    *)
LEMMA CallbackKeepsIInv == IInv /\ Callback => IInv'
<1> SUFFICES ASSUME IInv, Callback PROVE IInv'
  OBVIOUS
<1> USE LifetimeConstants DEF IInv, Made, Functions, objects, program, gcs, Pending
<1>1. UNCHANGED <<objects, entry, mem, gcs, handle, program, collected, freed>>
  BY DEF Callback, CallbackBegin, FirstArgument, FirstArgumentExpired, SecondArgument, CallbackEnd
<1>2. TypeOK' /\ CallbackInv' /\ (callback'.box # callback.box =>
        callback'.box = NoView \/ \E p \in Ptrs : callback'.box = entry[p])
  <2>1. CASE \E p \in Ptrs : CallbackBegin(p)
    <3>1. PICK p \in Ptrs : CallbackBegin(p)
      BY <2>1
    <3>2. Made(p) /\ key[p] \in Ptrs /\ view[p] \in Views /\ entry[key[p]] \in Views \cup {NoView}
      BY <3>1 DEF CallbackBegin, TypeOK
    <3>3. CASE entry[key[p]] = NoView
      <4>1. callback' = [ptr |-> p, stage |-> "expired", box |-> NoView, partial |-> "none"]
        BY <3>1, <3>3 DEF CallbackBegin, NoCallback
      <4>2. callback' \in Callbacks
        BY <4>1 DEF Callbacks
      <4>3. TypeOK'
        BY <1>1, <4>2, TypeOfCallback
      <4> QED BY <4>1, <4>3 DEF CallbackInv
    <3>4. CASE entry[key[p]] # NoView
      <4>1. callback' = [ptr |-> p, stage |-> "boxed", box |-> entry[key[p]],
                         partial |-> "none"]
        BY <3>1, <3>4 DEF CallbackBegin, NoCallback
      <4>2. fn[p] \in Closures => entry[key[p]] = view[p]
        BY <3>2, <3>4 DEF PtrInv
      <4>3. callback' \in Callbacks
        BY <3>2, <4>1 DEF Callbacks
      <4>4. TypeOK'
        BY <1>1, <4>3, TypeOfCallback
      <4>5. CallbackInv'
        BY <1>1, <3>2, <4>1, <4>2 DEF CallbackInv
      <4>6. key[p] \in Ptrs /\ callback'.box = entry[key[p]]
        BY <3>2, <4>1
      <4> QED BY <4>4, <4>5, <4>6
    <3> QED BY <3>3, <3>4
  <2>2. CASE FirstArgument \/ FirstArgumentExpired \/ SecondArgument
    <3>1. CallbackStep /\ callback' \in Callbacks
      BY <2>2, ArgumentStep
    <3>2. TypeOK'
      BY <1>1, <3>1, TypeOfCallback
    <3>3. CallbackInv'
      BY <1>1, <3>1 DEF CallbackInv, CallbackStep
    <3>4. callback'.box \in {callback.box, NoView}
      BY <3>1 DEF CallbackStep
    <3> QED BY <3>2, <3>3, <3>4
  <2>3. CASE CallbackEnd
    <3>1. callback' = NoCallback
      BY <2>3 DEF CallbackEnd
    <3>2. NoCallback \in Callbacks
      BY DEF NoCallback, Callbacks
    <3>3. TypeOK'
      BY <1>1, <3>1, <3>2, TypeOfCallback
    <3> QED BY <3>1, <3>3 DEF NoCallback, CallbackInv
  <2> QED BY <2>1, <2>2, <2>3 DEF Callback
<1>3. PtrInv' /\ ReachInv'
  BY <1>1 DEF PtrInv, ReachInv, MemReachable, FnReachable
<1>4. SpecInv'
  BY <1>1, <1>2 DEF SpecInv, SpecReachable, TypeOK
<1> QED BY <1>2, <1>3, <1>4

(* Every step preserves the invariant.                                     *)
LEMMA StepIInv == IInv /\ [Next]_vars => IInv'
<1> SUFFICES ASSUME IInv, [Next]_vars PROVE IInv'
  OBVIOUS
<1> USE LifetimeConstants DEF IInv, Made, Functions, objects, program, gcs, Pending
<1>1. CASE Make
  BY <1>1, MakeKeepsIInv DEF Make
<1>2. CASE Drop
  BY <1>2 DEF Drop, Forget, TypeOK, PtrInv, ReachInv, SpecInv, CallbackInv, FnReachable,
    MemReachable, SpecReachable
<1>3. CASE Gc
  BY <1>3, GcKeepsIInv
<1>4. CASE Callback
  BY <1>4, CallbackKeepsIInv
<1>5. ASSUME NEW p \in Ptrs, CallReturns(p) \/ Free(p) PROVE IInv'
  BY <1>5 DEF CallReturns, Free, TypeOK, PtrInv, ReachInv, SpecInv, CallbackInv, FnReachable,
    MemReachable, SpecReachable
<1>6. CASE UNCHANGED vars
  BY <1>6 DEF vars, TypeOK, PtrInv, ReachInv, SpecInv, CallbackInv, FnReachable,
    MemReachable, SpecReachable
<1> QED BY <1>1, <1>2, <1>3, <1>4, <1>5, <1>6 DEF Next

(* The invariant holds of every behaviour.                                 *)
THEOREM Invariance == Spec => []IInv
BY InitIInv, StepIInv, PTL DEF Spec

(* Every variable keeps its type.                                          *)
THEOREM TypeCorrect == Spec => []TypeOK
<1>1. IInv => TypeOK
  BY DEF IInv
<1> QED BY <1>1, Invariance, PTL

(* Every pointer made of a live closure is usable, for any number of       *)
(* pointers, views and functions.                                          *)
THEOREM ClosuresUsable == Spec => []LiveClosureUsable
BY InvariantSuffices, Invariance, PTL

(* So is the pointer of a closure that only the call under way holds.      *)
THEOREM ArgumentsUsable == Spec => []PassedUsable
BY InvariantSuffices, Invariance, PTL

(* The libffi closures of top-level functions are never freed.             *)
THEOREM StaticsKept == Spec => []StaticMemoryKept
BY InvariantSuffices, Invariance, PTL

(* The cif a callback in progress reads is never that of a freed           *)
(* specification (closure_box, ffi_call_stubs.c).                          *)
THEOREM CallbacksKeepCif == Spec => []CallbackHasCif
BY InvariantSuffices, Invariance, PTL

(* A callback that started is never cut short by the collection of the     *)
(* partial application it is made of.                                      *)
THEOREM CallbacksComplete == Spec => []StartedCallbackCompletes
BY InvariantSuffices, Invariance, PTL
=============================================================================
