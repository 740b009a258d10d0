---------------------------- MODULE ForeignCalls ----------------------------
(***************************************************************************)
(* Calls from OCaml into C and back: ctypes_call and callback_handler of   *)
(* ffi_call_stubs.c, the runtime lock they release and acquire, errno, the *)
(* registration of C threads (foreign_threaded_stubs.c), and the           *)
(* exceptions that leave a callback over the C frames below it.            *)
(*                                                                         *)
(* Each thread has a stack of frames; the program is what the top frames   *)
(* do.  C functions set errno, call back, and return when they please.     *)
(***************************************************************************)
EXTENDS Naturals, Sequences, SequencesExt

CONSTANTS
  OcamlThreads,  (* threads made by OCaml: known to the runtime throughout *)
  CThreads,      (* threads made by C                                      *)
  Errnos,        (* the values of errno                                    *)
  MaxOcamlFrames, MaxCFrames,  (* bounds: how deep calls and callbacks nest *)
  MaxFrames,                   (* and the frames of all threads together   *)
  MaxKeys,       (* the TLS keys the system has left                       *)
  NoThread

Threads == OcamlThreads \cup CThreads
Keys    == 1..MaxKeys

ASSUME CallConstants ==
  /\ NoThread \notin Threads /\ OcamlThreads \cap CThreads = {}
  /\ Errnos \subseteq Nat /\ 0 \in Errnos
  /\ MaxOcamlFrames \in Nat /\ MaxCFrames \in Nat /\ MaxFrames \in Nat
  /\ MaxKeys \in Nat \ {0}

VARIABLES
  stack,        (* thread -> its frames, the innermost last; <<>>: exited  *)
  master,       (* the thread that holds the runtime lock, or NoThread     *)
  errno,        (* thread -> errno                                         *)
  registered,   (* the threads the OCaml runtime knows                     *)
  keys,         (* how many TLS keys were created                          *)
  cleanup_key,  (* the variable of that name; 0 before the first key       *)
  specific      (* thread -> the keys it has a value for                   *)

registration == <<registered, keys, cleanup_key, specific>>
vars         == <<stack, master, errno, registration>>

(* left is what a call's C function has set errno to since the call        *)
(* cleared it; saved is saved_errno.                                       *)
Frame(k, at, lock, chk) == [k |-> k, at |-> at, lock |-> lock, chk |-> chk, saved |-> 0, left |-> 0]

Ocaml    == Frame("ocaml", "run", FALSE, FALSE)
Waiting  == [Ocaml EXCEPT !.at = "wait"]
CThread  == Frame("thread", "C", FALSE, FALSE)

Init ==
  /\ stack = [t \in Threads |-> IF t \in OcamlThreads THEN <<Waiting>> ELSE <<CThread>>]
  /\ master = NoThread
  /\ errno = [t \in Threads |-> 0]
  /\ registered = OcamlThreads
  /\ keys = 0 /\ cleanup_key = 0
  /\ specific = [t \in Threads |-> {}]

Top(t)         == Last(stack[t])
At(t, k, at)   == stack[t] # <<>> /\ Top(t).k = k /\ Top(t).at = at
Become(t, f)   == stack' = [stack EXCEPT ![t] = Append(Front(@), f)]
Goto(t, at)    == Become(t, [Top(t) EXCEPT !.at = at])
Push(t, b, f)  == stack' = [stack EXCEPT ![t] = Append(Front(@), [Top(t) EXCEPT !.at = b]) \o <<f>>]
InC(t)         == stack[t] # <<>> /\ Top(t).at = "C"
Room(t, n)     ==
  /\ Len(stack[t]) + n <= (IF t \in OcamlThreads THEN MaxOcamlFrames ELSE MaxCFrames)
  /\ MapThenSumSet(LAMBDA u : Len(stack[u]), Threads) + n <= MaxFrames

Acquire(t) == master = NoThread /\ master' = t
SetErrno(t, e) == errno' = [errno EXCEPT ![t] = e]

(* caml_release_runtime_system first runs pending signal handlers and      *)
(* finalisers on the thread: errno may be anything afterwards.             *)
Release(t) == master' = NoThread /\ \E e \in Errnos : SetErrno(t, e)

ReleaseIf(t, lock) == IF lock THEN Release(t) ELSE UNCHANGED <<master, errno>>
AcquireIf(t, lock) == IF lock THEN Acquire(t) ELSE UNCHANGED master

-----------------------------------------------------------------------------
(* OCaml code *)

(* The runtime switches threads at an allocation or a poll. *)
Yield(t) ==
  /\ At(t, "ocaml", "run")
  /\ master' = NoThread
  /\ Goto(t, "wait")
  /\ UNCHANGED <<errno, registration>>

Resume(t) ==
  /\ At(t, "ocaml", "wait")
  /\ Acquire(t)
  /\ Goto(t, "run")
  /\ UNCHANGED <<errno, registration>>

OcamlErrno(t, e) ==
  /\ At(t, "ocaml", "run") /\ errno[t] # e
  /\ SetErrno(t, e)
  /\ UNCHANGED <<stack, master, registration>>

(* ctypes_call, up to the argument writer. *)
Call(t, lock, chk) ==
  /\ At(t, "ocaml", "run") /\ Room(t, 1)
  /\ Push(t, "run", Frame("call", "release", lock, chk))
  /\ UNCHANGED <<master, errno, registration>>

(* The closure of a callback returns to callback_handler_with_lock. *)
OcamlReturns(t) ==
  /\ At(t, "ocaml", "run") /\ Len(stack[t]) > 1
  /\ stack' = [stack EXCEPT ![t] = Append(Front(Front(@)), [Last(Front(@)) EXCEPT !.at = "release"])]
  /\ UNCHANGED <<master, errno, registration>>

(* The innermost OCaml frame below the top one, 0 if there is none. *)
OcamlBelow(t) ==
  LET below == {i \in 1..(Len(stack[t]) - 1) : stack[t][i].k = "ocaml"} IN
  IF below = {} THEN 0 ELSE CHOOSE i \in below : \A j \in below : j <= i

(* Slip: the handler unlocks when an exception passes it. *)
RaiseUnlocks(t) ==
  /\ At(t, "ocaml", "run") /\ OcamlBelow(t) # 0
  /\ stack' = [stack EXCEPT ![t] = SubSeq(@, 1, OcamlBelow(t))]
  /\ master' = IF Last(Front(stack[t])).lock THEN NoThread ELSE master
  /\ UNCHANGED <<errno, registration>>

(* An exception leaves the closure, or retrieve_closure finds it expired:  *)
(* the runtime jumps to the handler in the OCaml code below, over the      *)
(* rest of callback_handler and ctypes_call.  With no OCaml code below it  *)
(* ends the program.                                                       *)
Raise(t) ==
  /\ At(t, "ocaml", "run") /\ OcamlBelow(t) # 0
  /\ stack' = [stack EXCEPT ![t] = SubSeq(@, 1, OcamlBelow(t))]
  /\ UNCHANGED <<master, errno, registration>>

-----------------------------------------------------------------------------
(* ctypes_call *)

CallRelease(t) ==
  /\ At(t, "call", "release")
  /\ ReleaseIf(t, Top(t).lock)
  /\ Goto(t, "clear")
  /\ UNCHANGED registration

(* Slip: errno is cleared only when the lock is kept. *)
ClearIfHeld(t) ==
  /\ At(t, "call", "clear")
  /\ errno' = IF Top(t).chk /\ ~Top(t).lock THEN [errno EXCEPT ![t] = 0] ELSE errno
  /\ Goto(t, "C")
  /\ UNCHANGED <<master, registration>>

Clear(t) ==
  /\ At(t, "call", "clear")
  /\ errno' = IF Top(t).chk THEN [errno EXCEPT ![t] = 0] ELSE errno
  /\ Goto(t, "C")
  /\ UNCHANGED <<master, registration>>

Save(t) ==
  /\ At(t, "call", "save")
  /\ Become(t, [Top(t) EXCEPT !.at = "acquire", !.saved = IF Top(t).chk THEN errno[t] ELSE 0])
  /\ UNCHANGED <<master, errno, registration>>

CallAcquire(t) ==
  /\ At(t, "call", "acquire")
  /\ AcquireIf(t, Top(t).lock)
  /\ Goto(t, "finish")
  /\ UNCHANGED <<errno, registration>>

(* The result is read, or Unix_error raised: back in OCaml either way. *)
Finish(t) ==
  /\ At(t, "call", "finish")
  /\ stack' = [stack EXCEPT ![t] = Front(@)]
  /\ UNCHANGED <<master, errno, registration>>

-----------------------------------------------------------------------------
(* C code: a function that was called, or a thread's own *)

CErrno(t, e) ==
  /\ InC(t) /\ errno[t] # e
  /\ SetErrno(t, e)
  /\ Become(t, [Top(t) EXCEPT !.left = e])
  /\ UNCHANGED <<master, registration>>

CReturns(t) ==
  /\ At(t, "call", "C")
  /\ Goto(t, "save")
  /\ UNCHANGED <<master, errno, registration>>

(* C calls a function pointer made with ~runtime_lock:lock and             *)
(* ~thread_registration:reg, on C's side of the contract: it acquires the  *)
(* lock iff the thread does not hold it ("the [?runtime_lock] argument     *)
(* indicates whether the lock should be acquired and held during the       *)
(* call", foreign.mli), and a thread the runtime does not know registers.  *)
CallBack(t, lock, reg) ==
  /\ InC(t) /\ Room(t, 2)
  /\ lock = (master # t)
  /\ reg \/ t \in registered
  /\ Push(t, "C", Frame("handler", IF reg THEN "register" ELSE "acquire", lock, FALSE))
  /\ UNCHANGED <<master, errno, registration>>

(* A C thread exits: the system calls ctypes_thread_unregister for every   *)
(* key the thread has a value for; caml_c_thread_unregister takes the lock *)
(* and does nothing the second time.                                       *)
Exit(t) ==
  /\ At(t, "thread", "C")
  /\ specific[t] # {} /\ t \in registered => master = NoThread
  /\ registered' = IF specific[t] # {} THEN registered \ {t} ELSE registered
  /\ specific' = [specific EXCEPT ![t] = {}]
  /\ stack' = [stack EXCEPT ![t] = <<>>]
  /\ UNCHANGED <<master, errno, keys, cleanup_key>>

-----------------------------------------------------------------------------
(* callback_handler *)

(* Slip: that a thread is registered is noted for all threads at once. *)
RegisterOnce(t) ==
  /\ At(t, "handler", "register")
  /\ IF keys > 0 THEN Goto(t, "acquire") /\ UNCHANGED registered
     ELSE master = NoThread /\ registered' = registered \cup {t} /\ Goto(t, "create")
  /\ UNCHANGED <<master, errno, keys, cleanup_key, specific>>

(* caml_c_thread_register: 0 if the runtime knows the thread; otherwise it *)
(* takes the lock and gives it back.                                       *)
Register(t) ==
  /\ At(t, "handler", "register")
  /\ IF t \in registered THEN Goto(t, "acquire") /\ UNCHANGED registered
     ELSE master = NoThread /\ registered' = registered \cup {t} /\ Goto(t, "create")
  /\ UNCHANGED <<master, errno, keys, cleanup_key, specific>>

(* Slip: the new key is kept in a local variable. *)
CreateKeyLocal(t) ==
  /\ At(t, "handler", "create")
  /\ keys < MaxKeys /\ keys' = keys + 1
  /\ Goto(t, "set")
  /\ UNCHANGED <<master, errno, registered, cleanup_key, specific>>

(* Slip: only the thread that creates the key sets a value for it. *)
CreateKeyOnce(t) ==
  /\ At(t, "handler", "create")
  /\ IF keys = 0 THEN keys' = 1 /\ cleanup_key' = 1 /\ Goto(t, "set")
     ELSE Goto(t, "acquire") /\ UNCHANGED <<keys, cleanup_key>>
  /\ UNCHANGED <<master, errno, registered, specific>>

(* pthread_key_create, whose failure is ignored. *)
CreateKey(t) ==
  /\ At(t, "handler", "create")
  /\ IF keys < MaxKeys THEN keys' = keys + 1 /\ cleanup_key' = keys + 1
     ELSE UNCHANGED <<keys, cleanup_key>>
  /\ Goto(t, "set")
  /\ UNCHANGED <<master, errno, registered, specific>>

(* pthread_setspecific reads cleanup_key again: perhaps another thread's. *)
SetSpecific(t) ==
  /\ At(t, "handler", "set")
  /\ specific' = [specific EXCEPT ![t] = @ \cup {cleanup_key}]
  /\ Goto(t, "acquire")
  /\ UNCHANGED <<master, errno, registered, keys, cleanup_key>>

(* callback_handler_with_lock begins: the closure runs on top of it. *)
HandlerAcquire(t) ==
  /\ At(t, "handler", "acquire")
  /\ AcquireIf(t, Top(t).lock)
  /\ Push(t, "locked", Ocaml)
  /\ UNCHANGED <<errno, registration>>

(* Slip: the lock is kept. *)
HandlerReleaseKeep(t) ==
  /\ At(t, "handler", "release")
  /\ stack' = [stack EXCEPT ![t] =
       Append(Front(Front(@)), [Last(Front(@)) EXCEPT !.left = errno[t]])]
  /\ UNCHANGED <<master, errno, registration>>

(* The lock is given back and C goes on; what the callback did to errno is *)
(* the C function's doing.                                                 *)
HandlerRelease(t) ==
  /\ At(t, "handler", "release")
  /\ ReleaseIf(t, Top(t).lock)
  /\ stack' = [stack EXCEPT ![t] =
       Append(Front(Front(@)), [Last(Front(@)) EXCEPT !.left = errno'[t]])]
  /\ UNCHANGED registration

-----------------------------------------------------------------------------
OcamlStep(t) == \/ Yield(t) \/ Resume(t) \/ OcamlReturns(t) \/ Raise(t)
                \/ \E e \in Errnos : OcamlErrno(t, e)
                \/ \E lock, chk \in BOOLEAN : Call(t, lock, chk)
CallStep(t)  == CallRelease(t) \/ Clear(t) \/ Save(t) \/ CallAcquire(t) \/ Finish(t)
CStep(t)     == \/ CReturns(t) \/ Exit(t)
                \/ \E e \in Errnos : CErrno(t, e)
                \/ \E lock, reg \in BOOLEAN : CallBack(t, lock, reg)
HandlerStep(t) == \/ Register(t) \/ CreateKey(t) \/ SetSpecific(t)
                  \/ HandlerAcquire(t) \/ HandlerRelease(t)

Next == \E t \in Threads : OcamlStep(t) \/ CallStep(t) \/ CStep(t) \/ HandlerStep(t)

Spec == Init /\ [][Next]_vars

(* A thread running OCaml code yields now and then; elsewhere it goes on,  *)
(* the runtime lock being handed to those that wait for it.  But a C       *)
(* function called with the lock released, and a C thread, may go on for   *)
(* ever.                                                                   *)
GoesOn(t) == Resume(t) \/ CallStep(t) \/ HandlerStep(t) \/ (CReturns(t) /\ master = t)

Fairness == \A t \in Threads : SF_vars(Yield(t)) /\ SF_vars(GoesOn(t))

FairSpec == Spec /\ Fairness

-----------------------------------------------------------------------------
(* Properties *)

Points == {"run", "wait", "release", "clear", "C", "save", "acquire", "finish",
           "register", "create", "set", "locked"}

TypeOK ==
  /\ stack \in [Threads ->
       Seq([k : {"ocaml", "call", "thread", "handler"}, at : Points, lock : BOOLEAN,
            chk : BOOLEAN, saved : Errnos, left : Errnos])]
  /\ master \in Threads \cup {NoThread}
  /\ errno \in [Threads -> Errnos]
  /\ registered \subseteq Threads
  /\ keys \in 0..MaxKeys /\ cleanup_key \in 0..keys
  /\ specific \in [Threads -> SUBSET Keys]

(* Whether a thread at this point must have the runtime lock: in OCaml     *)
(* code, in what ctypes_call and the callback do with OCaml values, and in *)
(* C code called without releasing it.                                     *)
Holds(f) ==
  CASE f.k = "ocaml"   -> f.at = "run"
    [] f.k = "call"    -> f.at \in {"release", "finish"} \/ ~f.lock
    [] f.k = "handler" -> f.at = "release" \/ ~f.lock
    [] f.k = "thread"  -> FALSE

(* A thread holds the runtime lock exactly when its innermost frame needs  *)
(* it, through any nest of calls and callbacks with the lock released and  *)
(* not, and after an exception that skipped both the callback's release    *)
(* and the call's acquisition (ffi_call_stubs.c:394-416, 536-551).         *)
LockBalanced ==
  \A t \in Threads : master = t <=> stack[t] # <<>> /\ Holds(Top(t))

(* OCaml code runs on threads the runtime knows, those of C included, as   *)
(* long as the callback goes on ("Ensure that threads created by external  *)
(* code are registered", test_threads.ml).                                 *)
OcamlIsRegistered ==
  \A t \in Threads :
    stack[t] # <<>> /\ (Top(t).k = "ocaml" \/ At(t, "handler", "release")) => t \in registered

(* The errno a call reports is the one its C function left, 0 if it left   *)
(* none: neither what the runtime did to errno when the lock was released, *)
(* nor a call nested in a callback ("if the C function modifies [errno]",  *)
(* foreign.mli).                                                           *)
ErrnoIsCallees ==
  \A t \in Threads :
    stack[t] # <<>> /\ Top(t).k = "call" /\ Top(t).chk /\ Top(t).at \in {"acquire", "finish"}
      => Top(t).saved = Top(t).left

(* A C thread that registered is unregistered when it exits, though every  *)
(* thread that registers overwrites cleanup_key and the keys may run out.  *)
ExitedUnregistered == \A t \in Threads : stack[t] = <<>> => t \notin registered

WaitsForLock(t) ==
  \/ At(t, "ocaml", "wait")
  \/ (At(t, "call", "acquire") \/ At(t, "handler", "acquire")) /\ Top(t).lock
  \/ At(t, "handler", "register") /\ t \notin registered

(* A C function called with the lock released holds up no other thread,    *)
(* even if it never returns (test_release_runtime_lock).                   *)
LockGranted == \A t \in Threads : WaitsForLock(t) ~> ~WaitsForLock(t)
=============================================================================
