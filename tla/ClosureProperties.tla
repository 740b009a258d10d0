------------------------- MODULE ClosureProperties -------------------------
(***************************************************************************)
(* The table that ties an OCaml closure passed to C to the integer key     *)
(* stored in its libffi closure: ctypes_closure_properties.ml, run by      *)
(* several OCaml threads and by the finalisers the GC runs on top of them. *)
(*                                                                         *)
(* One step is the code between two points where the runtime may switch    *)
(* threads or run a finaliser.  A finaliser runs on the stack of some      *)
(* thread, which makes no step of its own until the finaliser returns, and *)
(* finalisers do not nest.                                                 *)
(***************************************************************************)
EXTENDS Naturals

CONSTANTS
  Threads,        (* OCaml threads, each of which C may call back on       *)
  Closures,       (* heap-allocated functions: Gc.finalise accepts them    *)
  Statics,        (* top-level functions: Gc.finalise raises               *)
  Boxes,          (* the boxed functions handed to record                  *)
  MaxKey,         (* bound: the keys fresh can return are 1..MaxKey        *)
  MaxRetrievals,  (* bound: how often C calls back                         *)
  NoThread, NoBox, NoFn

Functions == Closures \cup Statics
Keys      == 1..MaxKey
NoKey     == 0

ASSUME ConstantsAssumption ==
  /\ MaxKey \in Nat
  /\ MaxRetrievals \in Nat
  /\ NoThread \notin Threads
  /\ NoBox \notin Boxes
  /\ NoFn \notin Functions
  /\ Closures \cap Statics = {}

VARIABLES
  lock,            (* tables_lock: its holder, or NoThread                 *)
  function_by_id,  (* key -> box, NoBox where the table has no entry       *)
  id_by_function,  (* static function -> key, NoKey where there is none    *)
  next_key,        (* the object id fresh returns next                     *)
  owner,           (* key -> the function record was called with           *)
  attached,        (* keys whose cleanup is attached to their function     *)
  todo,            (* keys whose cleanup the GC has scheduled              *)
  fin,             (* the cleanup now running, and on which thread         *)
  pc, key, box,    (* each thread's place in record or retrieve, its data  *)
  rooted,          (* closures the OCaml program can still reach           *)
  issued,          (* the calls of record that returned: [key, box]        *)
  retrievals       (* how many calls of retrieve were begun                *)

tables == <<function_by_id, id_by_function>>
gc     == <<attached, todo, fin>>
local  == <<pc, key, box>>
vars   == <<lock, tables, next_key, owner, gc, local, rooted, issued, retrievals>>

RecordPcs   == {"lock", "store", "add", "unlock"}
RetrievePcs == {"rlock", "find", "runlock"}
CriticalPcs == {"store", "add", "unlock", "find", "runlock"}
FinCritical == {"remove", "funlock"}
NoFin       == [thr |-> NoThread, stage |-> "none", key |-> NoKey]

(* A closure is reachable from the program's roots, or from the frame of a *)
(* caller of record: both callers in ctypes_ffi.ml use it afterwards.      *)
Reachable(c) ==
  \/ c \in rooted
  \/ \E t \in Threads : pc[t] \in RecordPcs /\ owner[key[t]] = c

Init ==
  /\ lock = NoThread
  /\ function_by_id = [k \in Keys |-> NoBox]
  /\ id_by_function = [s \in Statics |-> NoKey]
  /\ next_key = 1
  /\ owner = [k \in Keys |-> NoFn]
  /\ attached = {}
  /\ todo = {}
  /\ fin = NoFin
  /\ pc = [t \in Threads |-> "idle"]
  /\ key = [t \in Threads |-> NoKey]
  /\ box = [t \in Threads |-> NoBox]
  /\ rooted = Closures
  /\ issued = {}
  /\ retrievals = 0

-----------------------------------------------------------------------------
(* Threads *)

(* A thread with a finaliser on top of its stack is suspended. *)
At(t, l)   == pc[t] = l /\ fin.thr # t
Goto(t, l) == pc' = [pc EXCEPT ![t] = l]

(* The caller is back in its own code, its frame is gone. *)
Return(t) ==
  /\ Goto(t, "idle")
  /\ key' = [key EXCEPT ![t] = NoKey]
  /\ box' = [box EXCEPT ![t] = NoBox]

(* Mutex.lock by an ordinary call: waits until the mutex is free. *)
Lock(t, from, to) ==
  /\ At(t, from)
  /\ lock = NoThread
  /\ lock' = t
  /\ Goto(t, to)
  /\ UNCHANGED <<tables, next_key, owner, gc, key, box, rooted, issued, retrievals>>

(* Slip: the finaliser is not installed. *)
RecordBeginUnfinalised(t, f, b) ==
  /\ At(t, "idle")
  /\ f \in Closures => f \in rooted
  /\ next_key <= MaxKey
  /\ next_key' = next_key + 1
  /\ owner' = [owner EXCEPT ![next_key] = f]
  /\ Goto(t, "lock")
  /\ key' = [key EXCEPT ![t] = next_key]
  /\ box' = [box EXCEPT ![t] = b]
  /\ UNCHANGED <<lock, tables, gc, rooted, issued, retrievals>>

(* fresh, then Gc.finalise, which only a static function refuses. *)
RecordBegin(t, f, b) ==
  /\ At(t, "idle")
  /\ f \in Closures => f \in rooted
  /\ next_key <= MaxKey
  /\ next_key' = next_key + 1
  /\ owner' = [owner EXCEPT ![next_key] = f]
  /\ attached' = IF f \in Closures THEN attached \cup {next_key} ELSE attached
  /\ Goto(t, "lock")
  /\ key' = [key EXCEPT ![t] = next_key]
  /\ box' = [box EXCEPT ![t] = b]
  /\ UNCHANGED <<lock, tables, todo, fin, rooted, issued, retrievals>>

(* Slip: a closure's entry is forgotten. *)
RecordLockNoEntry(t) == Lock(t, "lock", IF owner[key[t]] \in Closures THEN "unlock" ELSE "store")

RecordLock(t) == Lock(t, "lock", IF owner[key[t]] \in Closures THEN "add" ELSE "store")

(* store_non_closure_function finds the function already recorded. *)
StoreExisting(t) ==
  LET s == owner[key[t]] IN
  /\ At(t, "store")
  /\ id_by_function[s] # NoKey
  /\ key' = [key EXCEPT ![t] = id_by_function[s]]
  /\ Goto(t, "unlock")
  /\ UNCHANGED <<lock, tables, next_key, owner, gc, box, rooted, issued, retrievals>>

(* Slip: only id_by_function is updated. *)
StoreNewOneTable(t) ==
  LET s == owner[key[t]] IN
  /\ At(t, "store")
  /\ id_by_function[s] = NoKey
  /\ id_by_function' = [id_by_function EXCEPT ![s] = key[t]]
  /\ Goto(t, "unlock")
  /\ UNCHANGED <<lock, function_by_id, next_key, owner, gc, key, box, rooted, issued, retrievals>>

(* ... or adds the first of its two entries; AddEntry adds the second. *)
StoreNew(t) ==
  LET s == owner[key[t]] IN
  /\ At(t, "store")
  /\ id_by_function[s] = NoKey
  /\ id_by_function' = [id_by_function EXCEPT ![s] = key[t]]
  /\ Goto(t, "add")
  /\ UNCHANGED <<lock, function_by_id, next_key, owner, gc, key, box, rooted, issued, retrievals>>

(* Slip: the key is read from the counter again, after waiting for the lock. *)
AddEntryLatest(t) ==
  /\ At(t, "add")
  /\ function_by_id' = [function_by_id EXCEPT ![next_key - 1] = box[t]]
  /\ Goto(t, "unlock")
  /\ UNCHANGED <<lock, id_by_function, next_key, owner, gc, key, box, rooted, issued, retrievals>>

(* Hashtbl.add with the key made before. *)
AddEntry(t) ==
  /\ At(t, "add")
  /\ function_by_id' = [function_by_id EXCEPT ![key[t]] = box[t]]
  /\ Goto(t, "unlock")
  /\ UNCHANGED <<lock, id_by_function, next_key, owner, gc, key, box, rooted, issued, retrievals>>

RecordUnlock(t) ==
  /\ At(t, "unlock")
  /\ lock' = NoThread
  /\ issued' = issued \cup {[key |-> key[t], box |-> box[t]]}
  /\ Return(t)
  /\ UNCHANGED <<tables, next_key, owner, gc, rooted, retrievals>>

(* C calls a function pointer: the key it holds is one record returned. *)
RetrieveBegin(t, k) ==
  /\ At(t, "idle")
  /\ retrievals < MaxRetrievals
  /\ \E i \in issued : i.key = k
  /\ retrievals' = retrievals + 1
  /\ Goto(t, "rlock")
  /\ key' = [key EXCEPT ![t] = k]
  /\ UNCHANGED <<lock, tables, next_key, owner, gc, box, rooted, issued>>

RetrieveLock(t) == Lock(t, "rlock", "find")

(* Hashtbl.find, NoBox where it raises Not_found. *)
Find(t) ==
  /\ At(t, "find")
  /\ box' = [box EXCEPT ![t] = function_by_id[key[t]]]
  /\ Goto(t, "runlock")
  /\ UNCHANGED <<lock, tables, next_key, owner, gc, key, rooted, issued, retrievals>>

(* Slip: the mutex stays locked when retrieve raises Not_found. *)
RetrieveUnlockIfFound(t) ==
  /\ At(t, "runlock")
  /\ lock' = IF box[t] = NoBox THEN lock ELSE NoThread
  /\ Return(t)
  /\ UNCHANGED <<tables, next_key, owner, gc, rooted, issued, retrievals>>

RetrieveUnlock(t) ==
  /\ At(t, "runlock")
  /\ lock' = NoThread
  /\ Return(t)
  /\ UNCHANGED <<tables, next_key, owner, gc, rooted, issued, retrievals>>

(* The program forgets its last reference to a closure. *)
Drop(c) ==
  /\ c \in rooted
  /\ rooted' = rooted \ {c}
  /\ UNCHANGED <<lock, tables, next_key, owner, gc, local, issued, retrievals>>

-----------------------------------------------------------------------------
(* The garbage collector and the finaliser of record *)

(* A collection finds c unreachable and schedules every finaliser attached *)
(* to it; a scheduled or running finaliser keeps c alive meanwhile.        *)
GcFinalise(c) ==
  LET mine == {k \in attached : owner[k] = c} IN
  /\ mine # {}
  /\ ~Reachable(c)
  /\ \A k \in todo : owner[k] # c
  /\ fin.stage # "none" => owner[fin.key] # c
  /\ attached' = attached \ mine
  /\ todo' = todo \cup mine
  /\ UNCHANGED <<lock, tables, next_key, owner, fin, local, rooted, issued, retrievals>>

(* A thread reaches an allocation point and the runtime runs a finaliser   *)
(* on it, in the middle of a critical section perhaps.                     *)
CleanupBegin(t, k) ==
  /\ fin.stage = "none"
  /\ k \in todo
  /\ todo' = todo \ {k}
  /\ fin' = [thr |-> t, stage |-> "try", key |-> k]
  /\ UNCHANGED <<lock, tables, next_key, owner, attached, local, rooted, issued, retrievals>>

(* Slip: a reentrant mutex, which its holder may lock again. *)
CleanupTryLockReentrant ==
  /\ fin.stage = "try"
  /\ lock \in {NoThread, fin.thr}
  /\ lock' = fin.thr
  /\ fin' = [fin EXCEPT !.stage = "remove"]
  /\ UNCHANGED <<tables, next_key, owner, attached, todo, local, rooted, issued, retrievals>>

(* Mutex.try_lock, which fails on any held mutex, one's own included. *)
CleanupTryLock ==
  /\ fin.stage = "try"
  /\ lock = NoThread
  /\ lock' = fin.thr
  /\ fin' = [fin EXCEPT !.stage = "remove"]
  /\ UNCHANGED <<tables, next_key, owner, attached, todo, local, rooted, issued, retrievals>>

(* Slip: the attempt is abandoned for good. *)
CleanupAbandon ==
  /\ fin.stage = "try"
  /\ lock # NoThread
  /\ fin' = NoFin
  /\ UNCHANGED <<lock, tables, next_key, owner, attached, todo, local, rooted, issued, retrievals>>

CleanupReinstall ==
  /\ fin.stage = "try"
  /\ lock # NoThread
  /\ attached' = attached \cup {fin.key}
  /\ fin' = NoFin
  /\ UNCHANGED <<lock, tables, next_key, owner, todo, local, rooted, issued, retrievals>>

(* Slip: Hashtbl.reset in place of Hashtbl.remove. *)
CleanupRemoveAll ==
  /\ fin.stage = "remove"
  /\ function_by_id' = [k \in Keys |-> NoBox]
  /\ fin' = [fin EXCEPT !.stage = "funlock"]
  /\ UNCHANGED <<lock, id_by_function, next_key, owner, attached, todo, local, rooted, issued, retrievals>>

CleanupRemove ==
  /\ fin.stage = "remove"
  /\ function_by_id' = [function_by_id EXCEPT ![fin.key] = NoBox]
  /\ fin' = [fin EXCEPT !.stage = "funlock"]
  /\ UNCHANGED <<lock, id_by_function, next_key, owner, attached, todo, local, rooted, issued, retrievals>>

CleanupUnlock ==
  /\ fin.stage = "funlock"
  /\ lock' = NoThread
  /\ fin' = NoFin
  /\ UNCHANGED <<tables, next_key, owner, attached, todo, local, rooted, issued, retrievals>>

-----------------------------------------------------------------------------
Record(t)   == \/ \E f \in Functions, b \in Boxes : RecordBegin(t, f, b)
               \/ RecordLock(t) \/ StoreExisting(t) \/ StoreNew(t)
               \/ AddEntry(t) \/ RecordUnlock(t)
Retrieve(t) == \/ \E k \in Keys : RetrieveBegin(t, k)
               \/ RetrieveLock(t) \/ Find(t) \/ RetrieveUnlock(t)
Cleanup     == \/ \E t \in Threads, k \in Keys : CleanupBegin(t, k)
               \/ CleanupTryLock \/ CleanupReinstall
               \/ CleanupRemove \/ CleanupUnlock

Next ==
  \/ \E t \in Threads : Record(t) \/ Retrieve(t)
  \/ \E c \in Closures : Drop(c) \/ GcFinalise(c)
  \/ Cleanup

Spec == Init /\ [][Next]_vars

(* The program goes on allocating, so that collections happen and          *)
(* scheduled finalisers run.  A finaliser returns to the code it           *)
(* interrupted, which then runs at least up to its next allocation: a call *)
(* that was begun is enabled again after each finaliser and gets its step, *)
(* hence strong fairness.  It says nothing about a contended mutex: the    *)
(* calls are finitely many, so no thread is overtaken for ever.  Nothing   *)
(* makes the program call record or C call back.                           *)
Continue(t) ==
  \/ RecordLock(t) \/ StoreExisting(t) \/ StoreNew(t) \/ AddEntry(t)
  \/ RecordUnlock(t) \/ RetrieveLock(t) \/ Find(t) \/ RetrieveUnlock(t)

Fairness ==
  /\ \A t \in Threads : SF_vars(Continue(t))
  /\ \A c \in Closures : WF_vars(GcFinalise(c))
  /\ WF_vars(Cleanup)

FairSpec == Spec /\ Fairness

-----------------------------------------------------------------------------
(* Properties *)

TypeOK ==
  /\ lock \in Threads \cup {NoThread}
  /\ function_by_id \in [Keys -> Boxes \cup {NoBox}]
  /\ id_by_function \in [Statics -> Keys \cup {NoKey}]
  /\ next_key \in 1..(MaxKey + 1)
  /\ owner \in [Keys -> Functions \cup {NoFn}]
  /\ attached \subseteq Keys
  /\ todo \subseteq Keys
  /\ \/ fin = NoFin
     \/ fin \in [thr : Threads, stage : {"try"} \cup FinCritical, key : Keys]
  /\ pc \in [Threads -> {"idle"} \cup RecordPcs \cup RetrievePcs]
  /\ key \in [Threads -> Keys \cup {NoKey}]
  /\ \A t \in Threads : pc[t] # "idle" => key[t] \in Keys
  /\ box \in [Threads -> Boxes \cup {NoBox}]
  /\ rooted \subseteq Closures
  /\ issued \subseteq [key : Keys, box : Boxes]
  /\ retrievals \in Nat

(* At most one activity is between lock and unlock, counting a finaliser   *)
(* apart from the thread it interrupted: both have the same thread id, so  *)
(* only try_lock's failing on one's own mutex keeps cleanup out of the     *)
(* Hashtbl.add it interrupted (ctypes_closure_properties.ml:48-59).        *)
TablesExclusive ==
  /\ \A t, u \in Threads : pc[t] \in CriticalPcs /\ pc[u] \in CriticalPcs => t = u
  /\ \A t \in Threads : ~(pc[t] \in CriticalPcs /\ fin.stage \in FinCritical)

(* While the program can reach a closure, every key record returned for it *)
(* is still bound to the box it was recorded with: neither a finaliser nor *)
(* another call of record has removed or replaced the entry                *)
(* ("links the lifetimes of [c] and [v]", ctypes_closure_properties.mli).  *)
LiveClosureIsBound ==
  \A i \in issued :
    owner[i.key] \in Closures /\ Reachable(owner[i.key]) => function_by_id[i.key] = i.box

(* A call of retrieve that C makes with the key of a reachable closure has *)
(* found its box by the time it releases the lock.                         *)
RetrieveFindsLive ==
  \A t \in Threads, i \in issued :
    /\ pc[t] = "runlock" /\ key[t] = i.key
    /\ owner[i.key] \in Closures /\ Reachable(owner[i.key])
    => box[t] = i.box

(* An entry of a closure never outlives the finaliser that will remove it: *)
(* abandoning the attempt when the lock is held loses nothing.             *)
NoOrphanEntry ==
  \A k \in Keys :
    owner[k] \in Closures /\ function_by_id[k] # NoBox
    => \/ k \in attached \cup todo
       \/ fin.stage \in {"try", "remove"} /\ fin.key = k

(* When nobody is inside, the two tables agree on the static functions: a  *)
(* recorded one has an entry, which nothing removes.                       *)
StaticTablesAgree ==
  lock = NoThread =>
    \A s \in Statics : id_by_function[s] # NoKey =>
      /\ owner[id_by_function[s]] = s
      /\ function_by_id[id_by_function[s]] # NoBox

(* record returns one key for each static function, whichever thread asks. *)
StaticHasOneKey ==
  \A i, j \in issued :
    owner[i.key] \in Statics /\ owner[i.key] = owner[j.key] => i.key = j.key

(* The tables implement the registry.  record takes effect when its entry  *)
(* is in place, retrieve when it reads the table, the finaliser when it    *)
(* removes the entry.                                                      *)
Decided == issued \cup {[key |-> key[t], box |-> box[t]] : t \in {u \in Threads : pc[u] = "unlock"}}
Live    == {c \in Closures : Reachable(c)}
Query   ==
  [t \in Threads |->
     IF pc[t] \in {"rlock", "find"} THEN [at |-> "asked", key |-> key[t], box |-> NoBox]
     ELSE IF pc[t] = "runlock" THEN [at |-> "answered", key |-> key[t], box |-> box[t]]
     ELSE [at |-> "idle", key |-> NoKey, box |-> NoBox]]

Registry == INSTANCE ClosureRegistry WITH
  bind <- function_by_id, made_for <- owner, granted <- Decided, live <- Live, query <- Query

(* Each step of the threads and of the finalisers is one step of the       *)
(* registry that ctypes_closure_properties.mli describes, or none.         *)
ImplementsRegistry == Registry!Spec

(* Every call of record or retrieve that was begun returns. *)
CallsReturn == \A t \in Threads : pc[t] # "idle" ~> pc[t] = "idle"

(* The entry of a closure that has become unreachable is removed, even if  *)
(* its finaliser first ran while the tables were locked.                   *)
DeadEntryRemoved ==
  \A k \in Keys :
    (owner[k] \in Closures /\ ~Reachable(owner[k])) ~> function_by_id[k] = NoBox

=============================================================================
