--------------------------- MODULE FunptrLifetime ---------------------------
(***************************************************************************)
(* What keeps an OCaml function callable from C: ctypes_ffi.ml and         *)
(* ffi_call_stubs.c.  A function pointer is made of four objects with      *)
(* lifetimes of their own: the OCaml function, the libffi closure C jumps  *)
(* to, the callspec whose cif the closure points to, and the entry of the  *)
(* closure table (ClosureRegistry) that leads to the boxed function, which *)
(* refers to the OCaml function weakly and to the callspec strongly.  The  *)
(* collector, which may run between any two steps, knows only the OCaml    *)
(* references among them; C sees the libffi closure and the cif.           *)
(*                                                                         *)
(* Functions take two arguments: the callback applies a boxed function to  *)
(* the first, gets a second boxed function for the partial application,    *)
(* and applies that.                                                       *)
(***************************************************************************)
EXTENDS Naturals, FiniteSets

CONSTANTS
  Closures,  (* heap-allocated OCaml functions                             *)
  Statics,   (* top-level ones, which no finaliser can be attached to      *)
  Views,     (* applications of Foreign.funptr: each has a callspec        *)
  Ptrs,      (* bound: the function pointers that can be made              *)
  NoFn, NoView, NoPtr

Functions == Closures \cup Statics

ASSUME LifetimeConstants ==
  /\ Closures \cap Statics = {}
  /\ NoFn \notin Functions /\ NoView \notin Views /\ NoPtr \notin Ptrs

VARIABLES
  fn, view,   (* the function and the view each pointer was made of        *)
  key,        (* pointer -> the pointer whose record made the key it holds *)
  entry,      (* key -> the view whose callspec its boxed function holds   *)
  mem,        (* the libffi closure: "none", "allocated" or "freed"        *)
  clean,      (* record's finaliser on fn: "none", "attached" or "due"     *)
  keep,       (* keep_alive's: those, or "forever" for a static function   *)
  handle,     (* dynamic pointers: "none", "open", "freed" or "leaked"     *)
  handles,    (* the dynamic pointers whose handle the program can reach   *)
  rooted,     (* the closures the program can reach                        *)
  views,      (* the views it can reach                                    *)
  frames,     (* the pointers it is passing in a call not returned from    *)
  collected,  (* the closures the collector freed: weak references empty   *)
  freed,      (* the views whose callspec was finalised, its cif freed     *)
  callback    (* the callback in progress                                  *)

objects == <<fn, view, key>>
program == <<handles, rooted, views, frames>>
gcs     == <<clean, keep>>
vars    == <<objects, entry, mem, gcs, handle, program, collected, freed, callback>>

NoCallback == [ptr |-> NoPtr, stage |-> "none", box |-> NoView, partial |-> "none"]

Init ==
  /\ fn = [p \in Ptrs |-> NoFn] /\ view = [p \in Ptrs |-> NoView] /\ key = [p \in Ptrs |-> NoPtr]
  /\ entry = [p \in Ptrs |-> NoView]
  /\ mem = [p \in Ptrs |-> "none"]
  /\ clean = [p \in Ptrs |-> "none"] /\ keep = [p \in Ptrs |-> "none"]
  /\ handle = [p \in Ptrs |-> "none"]
  /\ handles = {} /\ rooted = Closures /\ views = Views /\ frames = {}
  /\ collected = {} /\ freed = {}
  /\ callback = NoCallback

-----------------------------------------------------------------------------
(* What the collector finds reachable *)

(* Slip: ctypes_call does not register its argument writer as a root. *)
FnReachableUnframed(c) ==
  \/ c \in rooted
  \/ \E p \in Ptrs : fn[p] = c /\ handle[p] \in {"open", "leaked"}

(* The argument writer of a call under way holds the arguments; the root   *)
(* of a dynamic pointer holds the function.                                *)
FnReachable(c) ==
  \/ c \in rooted
  \/ \E p \in Ptrs : fn[p] = c /\ (p \in frames \/ handle[p] \in {"open", "leaked"})

(* Slip: the collector of a handle that was not freed does not retain its  *)
(* root.                                                                   *)
MemReachableOpen(p) == keep[p] # "none" \/ handle[p] = "open"

(* Slip: free leaves the root registered. *)
MemReachableFreed(p) == keep[p] # "none" \/ handle[p] # "none"

(* The finaliser of keep_alive, and the root of a dynamic pointer, hold    *)
(* the libffi closure.                                                     *)
MemReachable(p) == keep[p] # "none" \/ handle[p] \in {"open", "leaked"}

(* Slip: Done does not carry the callspec. *)
SpecReachableUntilDone(v) ==
  \/ v \in views
  \/ \E k \in Ptrs : entry[k] = v
  \/ callback.box = v /\ callback.stage # "done"

(* A view holds its callspec, and so does each boxed function made by it,  *)
(* up to Done.                                                             *)
SpecReachable(v) ==
  \/ v \in views
  \/ \E k \in Ptrs : entry[k] = v
  \/ callback.box = v

-----------------------------------------------------------------------------
(* The OCaml program *)

(* Closure_properties.record and make_function_pointer, up to what keeps   *)
(* the libffi closure alive.                                               *)
NewPtr(p, v, f) ==
  LET known == {q \in Ptrs : fn[q] = f /\ key[q] = q}
      k     == IF f \in Statics /\ known # {} THEN CHOOSE q \in known : TRUE ELSE p IN
  /\ mem[p] = "none" /\ v \in views /\ (f \in Closures => f \in rooted)
  /\ fn' = [fn EXCEPT ![p] = f]
  /\ view' = [view EXCEPT ![p] = v]
  /\ key' = [key EXCEPT ![p] = k]
  /\ entry' = IF k = p THEN [entry EXCEPT ![p] = v] ELSE entry
  /\ clean' = IF f \in Closures THEN [clean EXCEPT ![p] = "attached"] ELSE clean
  /\ mem' = [mem EXCEPT ![p] = "allocated"]

(* Slip: keep_alive drops the pointers of static functions. *)
PassForgetStatic(p, v, f) ==
  /\ NewPtr(p, v, f)
  /\ keep' = IF f \in Closures THEN [keep EXCEPT ![p] = "attached"] ELSE keep
  /\ frames' = frames \cup {p}
  /\ UNCHANGED <<handle, handles, rooted, views, collected, freed, callback>>

(* A function is passed to C: pointer_of_function in the argument writer.  *)
Pass(p, v, f) ==
  /\ NewPtr(p, v, f)
  /\ keep' = [keep EXCEPT ![p] = IF f \in Closures THEN "attached" ELSE "forever"]
  /\ frames' = frames \cup {p}
  /\ UNCHANGED <<handle, handles, rooted, views, collected, freed, callback>>

(* The C function returns, having kept the pointer perhaps. *)
CallReturns(p) ==
  /\ p \in frames
  /\ frames' = frames \ {p}
  /\ UNCHANGED <<objects, entry, mem, gcs, handle, handles, rooted, views, collected, freed, callback>>

(* of_fun of a dynamic_funptr: funptr_of_fun and create_funptr. *)
OfFun(p, v, f) ==
  /\ NewPtr(p, v, f)
  /\ handle' = [handle EXCEPT ![p] = "open"]
  /\ handles' = handles \cup {p}
  /\ UNCHANGED <<keep, rooted, views, frames, collected, freed, callback>>

(* free, the first time; a second call raises. *)
Free(p) ==
  /\ p \in handles /\ handle[p] = "open"
  /\ handle' = [handle EXCEPT ![p] = "freed"]
  /\ UNCHANGED <<objects, entry, mem, gcs, program, collected, freed, callback>>

Forget ==
  \/ \E c \in rooted : rooted' = rooted \ {c} /\ UNCHANGED <<views, handles>>
  \/ \E v \in views : views' = views \ {v} /\ UNCHANGED <<rooted, handles>>
  \/ \E p \in handles : handles' = handles \ {p} /\ UNCHANGED <<rooted, views>>

(* The program drops a reference. *)
Drop ==
  /\ Forget
  /\ UNCHANGED <<objects, entry, mem, gcs, handle, frames, collected, freed, callback>>

-----------------------------------------------------------------------------
(* The collector *)

Attached(c) == {p \in Ptrs : fn[p] = c /\ "attached" \in {clean[p], keep[p]}}
Due(c)      == {p \in Ptrs : fn[p] = c /\ "due" \in {clean[p], keep[p]}}

(* An unreachable closure's finalisers become due; they still hold it. *)
Schedule(c) ==
  LET due(s) == [p \in Ptrs |-> IF fn[p] = c /\ s[p] = "attached" THEN "due" ELSE s[p]] IN
  /\ ~FnReachable(c) /\ Attached(c) # {} /\ Due(c) = {}
  /\ clean' = due(clean) /\ keep' = due(keep)
  /\ UNCHANGED <<objects, entry, mem, handle, program, collected, freed, callback>>

(* The finaliser of record removes the entry ... *)
Cleanup(p) ==
  /\ clean[p] = "due"
  /\ clean' = [clean EXCEPT ![p] = "none"]
  /\ entry' = [entry EXCEPT ![p] = NoView]
  /\ UNCHANGED <<objects, mem, keep, handle, program, collected, freed, callback>>

(* Slip: ... or finds the tables locked and gives up. *)
CleanupNever(p) ==
  /\ clean[p] = "due"
  /\ clean' = [clean EXCEPT ![p] = "none"]
  /\ UNCHANGED <<objects, entry, mem, keep, handle, program, collected, freed, callback>>

(* ... or finds the tables locked and attaches itself again. *)
CleanupLater(p) ==
  /\ clean[p] = "due"
  /\ clean' = [clean EXCEPT ![p] = "attached"]
  /\ UNCHANGED <<objects, entry, mem, keep, handle, program, collected, freed, callback>>

(* The finaliser of keep_alive, which only uses the value. *)
Release(p) ==
  /\ keep[p] = "due"
  /\ keep' = [keep EXCEPT ![p] = "none"]
  /\ UNCHANGED <<objects, entry, mem, clean, handle, program, collected, freed, callback>>

Collect(c) ==
  /\ c \notin collected /\ ~FnReachable(c) /\ Attached(c) = {} /\ Due(c) = {}
  /\ collected' = collected \cup {c}
  /\ UNCHANGED <<objects, entry, mem, gcs, handle, program, freed, callback>>

(* finalize_closure *)
FreeMem(p) ==
  /\ mem[p] = "allocated" /\ ~MemReachable(p)
  /\ mem' = [mem EXCEPT ![p] = "freed"]
  /\ UNCHANGED <<objects, entry, gcs, handle, program, collected, freed, callback>>

(* finalize_callspec *)
FreeSpec(v) ==
  /\ v \notin freed /\ ~SpecReachable(v)
  /\ freed' = freed \cup {v}
  /\ UNCHANGED <<objects, entry, mem, gcs, handle, program, collected, callback>>

(* The finaliser of create_funptr on a handle that was not freed. *)
Leak(p) ==
  /\ handle[p] = "open" /\ p \notin handles
  /\ handle' = [handle EXCEPT ![p] = "leaked"]
  /\ UNCHANGED <<objects, entry, mem, gcs, program, collected, freed, callback>>

(* The partial application of a callback, which nothing refers to but the  *)
(* finaliser on the second boxed function, once the third replaced that.   *)
CollectPartial ==
  /\ callback.partial = "loose"
  /\ callback' = [callback EXCEPT !.partial = "collected"]
  /\ UNCHANGED <<objects, entry, mem, gcs, handle, program, collected, freed>>

-----------------------------------------------------------------------------
(* C calls back: callback_handler_with_lock *)

(* C's side of the contract: "the C function may be used only while the    *)
(* closure is still live" (foreign.mli), and not after free.               *)
MayCall(p) ==
  /\ fn[p] \in Closures => FnReachable(fn[p])
  /\ handle[p] # "freed"

(* retrieve_closure: no boxed function means CallToExpiredClosure. *)
CallbackBegin(p) ==
  /\ callback = NoCallback /\ mem[p] # "none" /\ MayCall(p)
  /\ callback' = IF entry[key[p]] = NoView THEN [NoCallback EXCEPT !.ptr = p, !.stage = "expired"]
                 ELSE [NoCallback EXCEPT !.ptr = p, !.stage = "boxed", !.box = entry[key[p]]]
  /\ UNCHANGED <<objects, entry, mem, gcs, handle, program, collected, freed>>

(* Slip: no finaliser ties the partial application to the boxed function.  *)
FirstArgumentUntied ==
  /\ callback.stage = "boxed" /\ fn[callback.ptr] \notin collected
  /\ callback' = [callback EXCEPT !.stage = "partial", !.partial = "loose"]
  /\ UNCHANGED <<objects, entry, mem, gcs, handle, program, collected, freed>>

(* The function is applied to the first argument; the result is boxed,     *)
(* referred to weakly, and kept while the boxed function is.               *)
FirstArgument ==
  /\ callback.stage = "boxed" /\ fn[callback.ptr] \notin collected
  /\ callback' = [callback EXCEPT !.stage = "partial", !.partial = "tied"]
  /\ UNCHANGED <<objects, entry, mem, gcs, handle, program, collected, freed>>

(* The program dropped the function after the call began. *)
FirstArgumentExpired ==
  /\ callback.stage = "boxed" /\ fn[callback.ptr] \in collected
  /\ callback' = [callback EXCEPT !.stage = "expired", !.box = NoView]
  /\ UNCHANGED <<objects, entry, mem, gcs, handle, program, collected, freed>>

(* The second boxed function is replaced by Done. *)
SecondArgument ==
  /\ callback.stage = "partial" /\ callback.partial # "collected"
  /\ callback' = [callback EXCEPT !.stage = "done", !.partial = "loose"]
  /\ UNCHANGED <<objects, entry, mem, gcs, handle, program, collected, freed>>

(* The result is written and widened as cif->rtype says, or the exception  *)
(* leaves the callback.                                                    *)
CallbackEnd ==
  /\ callback.stage \in {"done", "expired"}
  /\ callback' = NoCallback
  /\ UNCHANGED <<objects, entry, mem, gcs, handle, program, collected, freed>>

-----------------------------------------------------------------------------
Make == \E p \in Ptrs, v \in Views, f \in Functions : Pass(p, v, f) \/ OfFun(p, v, f)
Gc   == \/ \E c \in Closures : Schedule(c) \/ Collect(c)
        \/ \E p \in Ptrs : Cleanup(p) \/ CleanupLater(p) \/ Release(p) \/ FreeMem(p) \/ Leak(p)
        \/ \E v \in Views : FreeSpec(v)
        \/ CollectPartial
Callback == \/ \E p \in Ptrs : CallbackBegin(p)
            \/ FirstArgument \/ FirstArgumentExpired \/ SecondArgument \/ CallbackEnd

Next == \/ Make \/ Drop \/ Gc \/ Callback
        \/ \E p \in Ptrs : CallReturns(p) \/ Free(p)

Spec == Init /\ [][Next]_vars

(* The program goes on allocating, so collections happen and finalisers    *)
(* run; a cleanup does not find the tables locked every time; a callback   *)
(* that was begun goes on, C calls return.                                 *)
Fairness ==
  /\ \A c \in Closures : WF_vars(Schedule(c)) /\ WF_vars(Collect(c))
  /\ \A p \in Ptrs : SF_vars(Cleanup(p)) /\ WF_vars(Release(p)) /\ WF_vars(FreeMem(p))
  /\ \A v \in Views : WF_vars(FreeSpec(v))
  /\ WF_vars(FirstArgument \/ FirstArgumentExpired \/ SecondArgument \/ CallbackEnd)

FairSpec == Spec /\ Fairness

-----------------------------------------------------------------------------
(* Properties *)

Pending == {"none", "attached", "due"}

TypeOK ==
  /\ fn \in [Ptrs -> Functions \cup {NoFn}] /\ view \in [Ptrs -> Views \cup {NoView}]
  /\ key \in [Ptrs -> Ptrs \cup {NoPtr}] /\ entry \in [Ptrs -> Views \cup {NoView}]
  /\ mem \in [Ptrs -> {"none", "allocated", "freed"}]
  /\ \A p \in Ptrs : mem[p] # "none" => fn[p] # NoFn /\ view[p] # NoView /\ key[p] # NoPtr
  /\ clean \in [Ptrs -> Pending] /\ keep \in [Ptrs -> Pending \cup {"forever"}]
  /\ handle \in [Ptrs -> {"none", "open", "freed", "leaked"}]
  /\ handles \subseteq Ptrs /\ frames \subseteq Ptrs
  /\ rooted \subseteq Closures /\ views \subseteq Views
  /\ collected \subseteq Closures /\ freed \subseteq Views
  /\ callback \in [ptr : Ptrs \cup {NoPtr}, box : Views \cup {NoView},
                   stage : {"none", "boxed", "partial", "done", "expired"},
                   partial : {"none", "tied", "loose", "collected"}]

(* Every object a call from C goes through: the libffi closure, the cif it *)
(* points to, the boxed function for its type, and the function itself.    *)
Usable(p) ==
  /\ mem[p] = "allocated" /\ view[p] \notin freed
  /\ entry[key[p]] = view[p] /\ fn[p] \notin collected

(* While an OCaml closure is live, be it only as the argument of a call    *)
(* under way or because its dynamic pointer was not freed, every pointer   *)
(* made of it can be called ("this function ties the lifetime of the C     *)
(* function to the associated OCaml closure", foreign.mli:80-82).          *)
LiveClosureUsable ==
  \A p \in Ptrs :
    fn[p] \in Closures /\ FnReachable(fn[p]) /\ handle[p] # "freed" => Usable(p)

(* A closure that nothing but the call under way refers to stays callable  *)
(* until the call returns: the argument writer is the only reference.      *)
PassedUsable == \A p \in frames : fn[p] \in Closures => Usable(p)

(* The pointers of a top-level function are allocated for ever             *)
(* ("[w] should be kept alive indefinitely", ctypes_ffi.ml:41-45).         *)
StaticMemoryKept ==
  \A p \in Ptrs : fn[p] \in Statics /\ handle[p] = "none" => mem[p] = "allocated"

(* A callback in progress reads its cif to the end, even if the program    *)
(* dropped the closure and the view meanwhile: Done carries the callspec.  *)
CallbackHasCif ==
  callback.stage \in {"boxed", "partial", "done"} /\ fn[callback.ptr] \in Closures
    => view[callback.ptr] \notin freed

(* A callback that has taken its first argument can take the second: the   *)
(* partial application, which is referred to weakly, is not lost between.  *)
StartedCallbackCompletes == callback.stage = "partial" => callback.partial # "collected"

(* Nothing of a dead closure stays allocated, however often its cleanup    *)
(* found the tables locked: neither the libffi closures ...                *)
DeadMemReleased ==
  \A p \in Ptrs : fn[p] \in Closures /\ ~FnReachable(fn[p]) ~> mem[p] = "freed"

(* ... nor the callspec of a view whose functions are all dead.            *)
DeadSpecReleased ==
  \A v \in Views :
    /\ v \notin views
    /\ \A p \in Ptrs : view[p] = v => fn[p] \in Closures /\ ~FnReachable(fn[p])
    ~> v \in freed

(* A top-level function is always live, so its pointers may always be used *)
(* ("the C function may be used only while the closure is still live",     *)
(* foreign.mli:81-82).                                                     *)
StaticUsable ==
  \A p \in Ptrs : fn[p] \in Statics /\ handle[p] # "freed" => view[p] \notin freed
=============================================================================
