---------------------- MODULE ClosureProperties_proofs ----------------------
(***************************************************************************)
(* Machine-checked proofs about ClosureProperties, for every number of     *)
(* threads, functions, boxed functions and keys.                           *)
(***************************************************************************)
EXTENDS ClosureProperties, TLAPS

(* The mutex is held by whoever is between lock and unlock. *)
LockInv ==
  /\ \A t \in Threads : pc[t] \in CriticalPcs => lock = t
  /\ fin.stage \in FinCritical => lock = fin.thr
  /\ \A t \in Threads : ~(pc[t] \in CriticalPcs /\ fin.stage \in FinCritical)

(* Keys are handed out in order, and every key in use was handed out to a  *)
(* function of the right kind.                                             *)
KeyInv ==
  /\ \A k \in Keys : owner[k] # NoFn <=> k < next_key
  /\ \A k \in attached \cup todo : owner[k] \in Closures
  /\ fin.stage # "none" => owner[fin.key] \in Closures
  /\ \A t \in Threads : pc[t] # "idle" => owner[key[t]] # NoFn
  /\ \A i \in issued : owner[i.key] # NoFn
  /\ \A k \in Keys : function_by_id[k] # NoBox => owner[k] # NoFn
  /\ \A s \in Statics : id_by_function[s] # NoKey => owner[id_by_function[s]] = s

(* Until record stores its entry, its key is nobody else's. *)
Storing(t) == pc[t] \in {"lock", "store", "add"}

FreshInv ==
  \A t \in Threads : Storing(t) =>
    /\ \A i \in issued : i.key # key[t]
    /\ function_by_id[key[t]] = NoBox
    /\ \A u \in Threads \ {t} : pc[u] \in RecordPcs => key[u] # key[t]
    /\ pc[t] # "add" => \A s \in Statics : id_by_function[s] # key[t]

(* What a thread inside record knows of its function and box. *)
RecordInv ==
  \A t \in Threads :
    /\ pc[t] = "store" => owner[key[t]] \in Statics
    /\ pc[t] \in RecordPcs => box[t] \in Boxes
    /\ pc[t] \in RecordPcs /\ owner[key[t]] \in Closures => key[t] \in attached
    /\ pc[t] = "unlock" /\ owner[key[t]] \in Closures => function_by_id[key[t]] = box[t]
    /\ pc[t] = "add" /\ owner[key[t]] \in Statics => id_by_function[owner[key[t]]] = key[t]
    /\ pc[t] = "unlock" /\ owner[key[t]] \in Statics =>
         /\ id_by_function[owner[key[t]]] = key[t]
         /\ function_by_id[key[t]] # NoBox

(* The static functions: their one key, and their entry. *)
StaticInv ==
  /\ \A i \in issued : owner[i.key] \in Statics => id_by_function[owner[i.key]] = i.key
  /\ \A s \in Statics : id_by_function[s] # NoKey =>
       \/ function_by_id[id_by_function[s]] # NoBox
       \/ \E t \in Threads : pc[t] = "add" /\ key[t] = id_by_function[s]

(* A scheduled or running finaliser belongs to an unreachable closure. *)
GcInv ==
  /\ \A k \in todo : ~Reachable(owner[k])
  /\ fin.stage # "none" => ~Reachable(owner[fin.key])

IInv ==
  /\ TypeOK /\ LockInv /\ KeyInv /\ FreshInv /\ RecordInv /\ StaticInv /\ GcInv
  /\ NoOrphanEntry /\ LiveClosureIsBound /\ RetrieveFindsLive

-----------------------------------------------------------------------------
(* A finaliser that runs has a thread and a key. *)
LEMMA FinFacts ==
  ASSUME TypeOK, fin.stage # "none"
  PROVE  /\ fin \in [thr : Threads, stage : {"try"} \cup FinCritical, key : Keys]
         /\ fin.thr \in Threads
         /\ fin.key \in Keys
<1>1. fin # NoFin
  BY DEF NoFin
<1>2. QED
  BY <1>1 DEF TypeOK

(* record, retrieve and the finaliser keep the state well typed. *)
LEMMA TypeStep == TypeOK /\ RecordInv /\ [Next]_vars => TypeOK'
<1> SUFFICES ASSUME TypeOK, RecordInv, [Next]_vars PROVE TypeOK'
  OBVIOUS
<1> USE ConstantsAssumption DEF TypeOK, Keys, NoKey, tables, gc, local, At, Goto, RecordPcs, RetrievePcs, FinCritical
<1>1. ASSUME NEW t \in Threads, NEW f \in Functions, NEW b \in Boxes, RecordBegin(t, f, b)
      PROVE  TypeOK'
  BY <1>1 DEF RecordBegin
<1>2. ASSUME NEW t \in Threads, RecordLock(t) PROVE TypeOK'
  BY <1>2 DEF RecordLock, Lock
<1>3. ASSUME NEW t \in Threads, StoreExisting(t) PROVE TypeOK'
  BY <1>3 DEF StoreExisting, RecordInv
<1>4. ASSUME NEW t \in Threads, StoreNew(t) PROVE TypeOK'
  BY <1>4 DEF StoreNew
<1>5. ASSUME NEW t \in Threads, AddEntry(t) PROVE TypeOK'
  BY <1>5 DEF AddEntry
<1>6. ASSUME NEW t \in Threads, RecordUnlock(t) PROVE TypeOK'
  <2>1. /\ key[t] \in Keys
        /\ box[t] \in Boxes
    BY <1>6 DEF RecordUnlock, RecordInv
  <2>2. issued' \subseteq [key : Keys, box : Boxes]
    BY <1>6, <2>1 DEF RecordUnlock
  <2>3. QED
    BY <1>6, <2>2 DEF RecordUnlock, Return
<1>7. ASSUME NEW t \in Threads, NEW k \in Keys, RetrieveBegin(t, k) PROVE TypeOK'
  BY <1>7 DEF RetrieveBegin
<1>8. ASSUME NEW t \in Threads, RetrieveLock(t) PROVE TypeOK'
  BY <1>8 DEF RetrieveLock, Lock
<1>9. ASSUME NEW t \in Threads, Find(t) PROVE TypeOK'
  BY <1>9 DEF Find
<1>10. ASSUME NEW t \in Threads, RetrieveUnlock(t) PROVE TypeOK'
  BY <1>10 DEF RetrieveUnlock, Return
<1>11. ASSUME NEW c \in Closures, Drop(c) \/ GcFinalise(c) PROVE TypeOK'
  BY <1>11 DEF Drop, GcFinalise
<1>12. ASSUME Cleanup PROVE TypeOK'
  <2>1. ASSUME NEW t \in Threads, NEW k \in Keys, CleanupBegin(t, k) PROVE TypeOK'
    BY <2>1 DEF CleanupBegin
  <2>2. CASE CleanupTryLock
    BY <2>2, FinFacts DEF CleanupTryLock
  <2>3. CASE CleanupReinstall
    BY <2>3, FinFacts DEF CleanupReinstall
  <2>4. CASE CleanupRemove
    BY <2>4, FinFacts DEF CleanupRemove
  <2>5. CASE CleanupUnlock
    BY <2>5 DEF CleanupUnlock, NoFin
  <2>6. QED
    BY <1>12, <2>1, <2>2, <2>3, <2>4, <2>5 DEF Cleanup
<1>13. CASE UNCHANGED vars
  BY <1>13 DEF vars
<1>14. QED
  BY <1>1, <1>2, <1>3, <1>4, <1>5, <1>6, <1>7, <1>8, <1>9, <1>10, <1>11, <1>12, <1>13
  DEF Next, Record, Retrieve

(* Mutual exclusion, with the thread a finaliser runs on counted twice. *)
LEMMA LockStep == TypeOK /\ LockInv /\ [Next]_vars => LockInv'
<1> SUFFICES ASSUME TypeOK, LockInv, [Next]_vars PROVE LockInv'
  OBVIOUS
<1> USE ConstantsAssumption DEF TypeOK, LockInv, At, Goto, CriticalPcs, FinCritical, tables, gc, local
<1>1. ASSUME NEW t \in Threads, NEW f \in Functions, NEW b \in Boxes, RecordBegin(t, f, b)
      PROVE  LockInv'
  BY <1>1 DEF RecordBegin
<1>2. ASSUME NEW t \in Threads, NEW from, NEW to \in CriticalPcs, Lock(t, from, to)
      PROVE  LockInv'
  <2>1. fin.stage \notin FinCritical
    BY <1>2, FinFacts DEF Lock
  <2>2. QED
    BY <1>2, <2>1 DEF Lock
<1>3. ASSUME NEW t \in Threads, StoreExisting(t) \/ StoreNew(t) \/ AddEntry(t) \/ Find(t)
      PROVE  LockInv'
  BY <1>3 DEF StoreExisting, StoreNew, AddEntry, Find
<1>4. ASSUME NEW t \in Threads, RecordUnlock(t) \/ RetrieveUnlock(t) PROVE LockInv'
  <2>1. fin.stage \notin FinCritical
    BY <1>4 DEF RecordUnlock, RetrieveUnlock
  <2>2. QED
    BY <1>4, <2>1 DEF RecordUnlock, RetrieveUnlock, Return
<1>5. ASSUME NEW t \in Threads, NEW k \in Keys, RetrieveBegin(t, k) PROVE LockInv'
  BY <1>5 DEF RetrieveBegin
<1>6. ASSUME NEW c \in Closures, Drop(c) \/ GcFinalise(c) PROVE LockInv'
  BY <1>6 DEF Drop, GcFinalise
<1>7. ASSUME NEW t \in Threads, NEW k \in Keys, CleanupBegin(t, k) PROVE LockInv'
  BY <1>7 DEF CleanupBegin
<1>8. CASE CleanupTryLock
  <2>1. fin' = [fin EXCEPT !.stage = "remove"] /\ fin.thr \in Threads
    BY <1>8, FinFacts DEF CleanupTryLock
  <2>2. \A t \in Threads : pc[t] \notin CriticalPcs
    BY <1>8 DEF CleanupTryLock
  <2>3. fin'.thr = fin.thr
    BY <2>1, FinFacts, <1>8 DEF CleanupTryLock
  <2>4. QED
    BY <1>8, <2>2, <2>3 DEF CleanupTryLock
<1>9. CASE CleanupReinstall \/ CleanupUnlock
  BY <1>9 DEF CleanupReinstall, CleanupUnlock, NoFin
<1>10. CASE CleanupRemove
  <2>1. fin'.thr = fin.thr
    BY <1>10, FinFacts DEF CleanupRemove
  <2>2. QED
    BY <1>10, <2>1 DEF CleanupRemove
<1>11. CASE UNCHANGED vars
  BY <1>11 DEF vars
<1>12. QED
  BY <1>1, <1>2, <1>3, <1>4, <1>5, <1>6, <1>7, <1>8, <1>9, <1>10, <1>11
  DEF Next, Record, Retrieve, Cleanup, RecordLock, RetrieveLock

(* The function a key was made for never changes, so the functions that    *)
(* are reachable through a frame are among those that were.                *)
LEMMA OwnerStable ==
  ASSUME TypeOK, KeyInv, RecordInv, [Next]_vars
  PROVE  /\ \A k \in Keys : owner[k] # NoFn => owner'[k] = owner[k]
         /\ \A c \in Closures : Reachable(c)' => Reachable(c)
<1> USE ConstantsAssumption DEF TypeOK, KeyInv, At, Goto, tables, gc, local, Keys
<1>1. ASSUME NEW t \in Threads, NEW f \in Functions, NEW b \in Boxes, RecordBegin(t, f, b)
      PROVE  /\ \A k \in Keys : owner[k] # NoFn => owner'[k] = owner[k]
             /\ \A c \in Closures : Reachable(c)' => Reachable(c)
  <2>1. next_key \in Keys /\ owner[next_key] = NoFn
    BY <1>1 DEF RecordBegin
  <2>2. \A k \in Keys : owner[k] # NoFn => owner'[k] = owner[k]
    BY <1>1, <2>1 DEF RecordBegin
  <2>3. ASSUME NEW c \in Closures, NEW u \in Threads, pc'[u] \in RecordPcs, owner'[key'[u]] = c
        PROVE  Reachable(c)
    <3>1. CASE u = t
      BY <1>1, <2>1, <2>3, <3>1 DEF RecordBegin, Reachable
    <3>2. CASE u # t
      BY <1>1, <2>2, <2>3, <3>2 DEF RecordBegin, Reachable, RecordPcs
    <3>3. QED
      BY <3>1, <3>2
  <2>4. QED
    BY <1>1, <2>2, <2>3 DEF RecordBegin, Reachable
<1>2. ASSUME NEW t \in Threads, RecordLock(t) \/ RetrieveLock(t)
      PROVE  owner' = owner /\ \A c \in Closures : Reachable(c)' => Reachable(c)
  BY <1>2 DEF RecordLock, RetrieveLock, Lock, Reachable, RecordPcs
<1>3. ASSUME NEW t \in Threads, StoreExisting(t)
      PROVE  owner' = owner /\ \A c \in Closures : Reachable(c)' => Reachable(c)
  <2>1. owner[key[t]] \in Statics
    BY <1>3 DEF StoreExisting, RecordInv
  <2>2. QED
    BY <1>3, <2>1 DEF StoreExisting, Reachable, RecordPcs, NoKey
<1>4. ASSUME NEW t \in Threads, StoreNew(t) \/ AddEntry(t) \/ Find(t)
      PROVE  owner' = owner /\ \A c \in Closures : Reachable(c)' => Reachable(c)
  BY <1>4 DEF StoreNew, AddEntry, Find, Reachable, RecordPcs
<1>5. ASSUME NEW t \in Threads, RecordUnlock(t) \/ RetrieveUnlock(t)
      PROVE  owner' = owner /\ \A c \in Closures : Reachable(c)' => Reachable(c)
  BY <1>5 DEF RecordUnlock, RetrieveUnlock, Return, Reachable, RecordPcs
<1>6. ASSUME NEW t \in Threads, NEW k \in Keys, RetrieveBegin(t, k)
      PROVE  owner' = owner /\ \A c \in Closures : Reachable(c)' => Reachable(c)
  BY <1>6 DEF RetrieveBegin, Reachable, RecordPcs
<1>7. ASSUME NEW c \in Closures, Drop(c) \/ GcFinalise(c)
      PROVE  owner' = owner /\ \A d \in Closures : Reachable(d)' => Reachable(d)
  BY <1>7 DEF Drop, GcFinalise, Reachable
<1>8. ASSUME Cleanup \/ UNCHANGED vars
      PROVE  owner' = owner /\ \A c \in Closures : Reachable(c)' => Reachable(c)
  BY <1>8 DEF Cleanup, CleanupBegin, CleanupTryLock, CleanupReinstall, CleanupRemove, CleanupUnlock,
     Reachable, vars
<1>9. QED
  BY <1>1, <1>2, <1>3, <1>4, <1>5, <1>6, <1>7, <1>8 DEF Next, Record, Retrieve

(* A step that only moves threads, from one key handed out to another. *)
LEMMA KeysKept ==
  ASSUME KeyInv, UNCHANGED <<tables, next_key, owner, gc>>,
         \A u \in Threads : pc'[u] # "idle" => owner[key'[u]] # NoFn,
         \A i \in issued' : owner[i.key] # NoFn
  PROVE  KeyInv'
<1>1. /\ function_by_id' = function_by_id /\ id_by_function' = id_by_function
      /\ next_key' = next_key /\ owner' = owner
      /\ attached' = attached /\ todo' = todo /\ fin' = fin
  BY DEF tables, gc
<1>2. /\ \A u \in Threads : pc'[u] # "idle" => owner'[key'[u]] # NoFn
      /\ \A i \in issued' : owner'[i.key] # NoFn
  BY <1>1
<1> QED BY <1>1, <1>2 DEF KeyInv, Keys, NoKey

(* A thread that waits for tables_lock and gets it changes nothing else. *)
LEMMA LockMoves ==
  ASSUME TypeOK, NEW t \in Threads, RecordLock(t) \/ RetrieveLock(t)
  PROVE  /\ UNCHANGED <<tables, next_key, owner, gc, key, box, rooted, issued, retrievals>>
         /\ pc[t] \in {"lock", "rlock"} /\ pc' = [pc EXCEPT ![t] = pc'[t]]
         /\ \A u \in Threads \ {t} : pc'[u] = pc[u]
<1>1. pc \in [Threads -> {"idle"} \cup RecordPcs \cup RetrievePcs]
  BY DEF TypeOK
<1>2. CASE RecordLock(t)
  BY <1>1, <1>2 DEF RecordLock, Lock, At, Goto
<1>3. CASE RetrieveLock(t)
  BY <1>1, <1>3 DEF RetrieveLock, Lock, At, Goto
<1> QED BY <1>2, <1>3

(* Keys in use stay keys that were handed out. *)
LEMMA KeyStep == TypeOK /\ KeyInv /\ RecordInv /\ [Next]_vars => KeyInv'
<1> SUFFICES ASSUME TypeOK, KeyInv, RecordInv, [Next]_vars PROVE KeyInv'
  OBVIOUS
<1> USE ConstantsAssumption DEF TypeOK, KeyInv, At, Goto, tables, gc, local, Keys, NoKey
<1>1. ASSUME NEW t \in Threads, NEW f \in Functions, NEW b \in Boxes, RecordBegin(t, f, b)
      PROVE  KeyInv'
  <2>1. /\ next_key \in Keys
        /\ owner[next_key] = NoFn
        /\ owner' = [owner EXCEPT ![next_key] = f]
        /\ next_key' = next_key + 1
    BY <1>1 DEF RecordBegin
  <2>2. /\ \A k \in Keys : owner'[k] # NoFn <=> k < next_key'
        /\ \A k \in Keys : owner[k] \in Closures => owner'[k] \in Closures
    BY <2>1 DEF Functions
  <2>3. \A k \in attached' \cup todo' : owner'[k] \in Closures
    BY <1>1, <2>1, <2>2 DEF RecordBegin
  <2>4. fin'.stage # "none" => owner'[fin'.key] \in Closures
    BY <1>1, <2>2, FinFacts DEF RecordBegin
  <2>5. \A u \in Threads : pc'[u] # "idle" => owner'[key'[u]] # NoFn
    BY <1>1, <2>1 DEF RecordBegin
  <2>6. /\ \A i \in issued' : owner'[i.key] # NoFn
        /\ \A k \in Keys : function_by_id'[k] # NoBox => owner'[k] # NoFn
    BY <1>1, <2>1 DEF RecordBegin
  <2>7. \A s \in Statics : id_by_function'[s] # NoKey => owner'[id_by_function'[s]] = s
    BY <1>1, <2>1 DEF RecordBegin, Functions
  <2>8. QED
    BY <2>2, <2>3, <2>4, <2>5, <2>6, <2>7
<1>2. ASSUME NEW t \in Threads, RecordLock(t) \/ RetrieveLock(t) PROVE KeyInv'
  <2>1. UNCHANGED <<tables, next_key, owner, gc, key, issued>>
    BY <1>2, LockMoves
  <2>2. \A u \in Threads : pc'[u] # "idle" => pc[u] # "idle"
    BY <1>2, LockMoves
  <2>3. \A u \in Threads : pc'[u] # "idle" => owner[key'[u]] # NoFn
    BY <2>1, <2>2
  <2>4. \A i \in issued' : owner[i.key] # NoFn
    BY <2>1
  <2>5. QED
    BY <2>1, <2>3, <2>4, KeysKept
<1>3. ASSUME NEW t \in Threads, StoreExisting(t) PROVE KeyInv'
  <2>1. owner[key[t]] \in Statics
    BY <1>3 DEF StoreExisting, RecordInv
  <2>2. QED
    BY <1>3, <2>1 DEF StoreExisting
<1>4. ASSUME NEW t \in Threads, StoreNew(t) PROVE KeyInv'
  <2>1. owner[key[t]] \in Statics
    BY <1>4 DEF StoreNew, RecordInv
  <2>2. QED
    BY <1>4, <2>1 DEF StoreNew
<1>5. ASSUME NEW t \in Threads, AddEntry(t) \/ Find(t) PROVE KeyInv'
  <2>1. CASE AddEntry(t)
    BY <2>1 DEF AddEntry
  <2>2. CASE Find(t)
    BY <2>2 DEF Find
  <2>3. QED
    BY <1>5, <2>1, <2>2
<1>6. ASSUME NEW t \in Threads, RecordUnlock(t) \/ RetrieveUnlock(t) PROVE KeyInv'
  <2>1. \A i \in issued' : owner[i.key] # NoFn
    BY <1>6 DEF RecordUnlock, RetrieveUnlock
  <2>2. \A u \in Threads : pc'[u] # "idle" => pc'[u] = pc[u] /\ key'[u] = key[u]
    BY <1>6 DEF RecordUnlock, RetrieveUnlock, Return
  <2>3. \A u \in Threads : pc'[u] # "idle" => owner[key'[u]] # NoFn
    BY <2>2
  <2>4. UNCHANGED <<tables, next_key, owner, gc>>
    BY <1>6 DEF RecordUnlock, RetrieveUnlock
  <2>5. QED
    BY <2>1, <2>3, <2>4, KeysKept
<1>7. ASSUME NEW t \in Threads, NEW k \in Keys, RetrieveBegin(t, k) PROVE KeyInv'
  BY <1>7 DEF RetrieveBegin
<1>8. ASSUME NEW c \in Closures, Drop(c) \/ GcFinalise(c) PROVE KeyInv'
  <2>1. CASE Drop(c)
    <3>1. UNCHANGED <<tables, next_key, owner, gc, local, issued>>
      BY <2>1 DEF Drop
    <3>2. QED
      BY <3>1, KeysKept
  <2>2. CASE GcFinalise(c)
    <3>1. /\ UNCHANGED <<tables, next_key, owner, fin, local, issued>>
          /\ attached' \subseteq attached /\ todo' \subseteq todo \cup attached
      BY <2>2 DEF GcFinalise
    <3>2. \A k \in attached' \cup todo' : owner[k] \in Closures
      BY <3>1
    <3>3. QED
      BY <3>1, <3>2
  <2>3. QED
    BY <1>8, <2>1, <2>2
<1>9. ASSUME NEW t \in Threads, NEW k \in Keys, CleanupBegin(t, k) PROVE KeyInv'
  BY <1>9 DEF CleanupBegin
<1>10. CASE CleanupTryLock \/ CleanupRemove
  <2>1. fin'.key = fin.key /\ fin.stage # "none"
    BY <1>10, FinFacts DEF CleanupTryLock, CleanupRemove
  <2>2. QED
    BY <1>10, <2>1, FinFacts DEF CleanupTryLock, CleanupRemove
<1>11. CASE CleanupReinstall \/ CleanupUnlock
  <2>1. /\ fin' = NoFin
        /\ attached' \subseteq attached \cup {fin.key}
        /\ fin.stage # "none"
    BY <1>11 DEF CleanupReinstall, CleanupUnlock, FinCritical
  <2>2. \A k \in attached' \cup todo : owner[k] \in Closures
    BY <2>1
  <2>3. fin'.stage = "none"
    BY <2>1 DEF NoFin
  <2>4. QED
    BY <1>11, <2>2, <2>3 DEF CleanupReinstall, CleanupUnlock
<1>12. CASE UNCHANGED vars
  BY <1>12 DEF vars
<1>13. QED
  BY <1>1, <1>2, <1>3, <1>4, <1>5, <1>6, <1>7, <1>8, <1>9, <1>10, <1>11, <1>12
  DEF Next, Record, Retrieve, Cleanup

(* A key whose entry is not stored yet belongs to one call of record. *)
LEMMA FreshStep == TypeOK /\ LockInv /\ KeyInv /\ FreshInv /\ RecordInv /\ [Next]_vars => FreshInv'
<1> SUFFICES ASSUME TypeOK, LockInv, KeyInv, FreshInv, RecordInv, [Next]_vars PROVE FreshInv'
  OBVIOUS
<1> USE ConstantsAssumption
    DEF TypeOK, FreshInv, Storing, At, Goto, tables, gc, local, Keys, NoKey, RecordPcs
<1>1. ASSUME NEW t \in Threads, NEW f \in Functions, NEW b \in Boxes, RecordBegin(t, f, b)
      PROVE  FreshInv'
  <2>1. /\ next_key \in Keys
        /\ owner[next_key] = NoFn
    BY <1>1 DEF RecordBegin, KeyInv
  <2>2. /\ \A i \in issued : i.key # next_key
        /\ function_by_id[next_key] = NoBox
        /\ \A u \in Threads : pc[u] # "idle" => key[u] # next_key
    BY <2>1 DEF KeyInv
  <2>3. \A s \in Statics : id_by_function[s] # next_key
    BY <2>1 DEF KeyInv, Functions
  <2>4. QED
    BY <1>1, <2>1, <2>2, <2>3 DEF RecordBegin
<1>2. ASSUME NEW t \in Threads, RecordLock(t) \/ RetrieveLock(t) PROVE FreshInv'
  BY <1>2 DEF RecordLock, RetrieveLock, Lock
<1>3. ASSUME NEW t \in Threads, StoreExisting(t) PROVE FreshInv'
  <2>1. owner[key[t]] \in Statics
    BY <1>3 DEF StoreExisting, RecordInv
  <2>2. \A u \in Threads \ {t} : pc[u] # "add"
    BY <1>3 DEF StoreExisting, LockInv, CriticalPcs
  <2>3. \A u \in Threads \ {t} : Storing(u) => id_by_function[owner[key[t]]] # key[u]
    BY <2>1, <2>2
  <2>4. QED
    BY <1>3, <2>1, <2>3 DEF StoreExisting
<1>4. ASSUME NEW t \in Threads, StoreNew(t) PROVE FreshInv'
  <2>1. \A u \in Threads \ {t} : Storing(u) => key[t] # key[u]
    BY <1>4 DEF StoreNew
  <2>2. QED
    BY <1>4, <2>1 DEF StoreNew
<1>5. ASSUME NEW t \in Threads, AddEntry(t) PROVE FreshInv'
  BY <1>5 DEF AddEntry
<1>6. ASSUME NEW t \in Threads, RecordUnlock(t) PROVE FreshInv'
  <2>1. \A u \in Threads \ {t} : Storing(u) => key[t] # key[u]
    BY <1>6 DEF RecordUnlock
  <2>2. QED
    BY <1>6, <2>1 DEF RecordUnlock, Return
<1>7. ASSUME NEW t \in Threads, NEW k \in Keys, RetrieveBegin(t, k) PROVE FreshInv'
  BY <1>7 DEF RetrieveBegin
<1>8. ASSUME NEW t \in Threads, Find(t) PROVE FreshInv'
  BY <1>8 DEF Find
<1>9. ASSUME NEW t \in Threads, RetrieveUnlock(t) PROVE FreshInv'
  BY <1>9 DEF RetrieveUnlock, Return
<1>10. ASSUME NEW c \in Closures, Drop(c) \/ GcFinalise(c) PROVE FreshInv'
  BY <1>10 DEF Drop, GcFinalise
<1>11. CASE Cleanup
  <2>1. \A k \in Keys : function_by_id[k] = NoBox => function_by_id'[k] = NoBox
    BY <1>11 DEF Cleanup, CleanupBegin, CleanupTryLock, CleanupReinstall, CleanupRemove, CleanupUnlock
  <2>2. UNCHANGED <<local, issued, id_by_function>>
    BY <1>11 DEF Cleanup, CleanupBegin, CleanupTryLock, CleanupReinstall, CleanupRemove, CleanupUnlock
  <2>3. QED
    BY <2>1, <2>2
<1>12. CASE UNCHANGED vars
  BY <1>12 DEF vars
<1>13. QED
  BY <1>1, <1>2, <1>3, <1>4, <1>5, <1>6, <1>7, <1>8, <1>9, <1>10, <1>11, <1>12
  DEF Next, Record, Retrieve

(* The finaliser that runs is not for a function some thread is recording. *)
LEMMA CleanupElsewhere ==
  ASSUME TypeOK, KeyInv, GcInv, fin.stage # "none",
         NEW t \in Threads, pc[t] \in RecordPcs
  PROVE  key[t] # fin.key
<1>1. ~Reachable(owner[fin.key])
  BY DEF GcInv
<1>2. QED
  BY <1>1 DEF Reachable

(* What a thread inside record knows of its key and box stays true.        *)
LEMMA RecordStep ==
  TypeOK /\ LockInv /\ KeyInv /\ RecordInv /\ StaticInv /\ GcInv /\ [Next]_vars => RecordInv'
<1> SUFFICES ASSUME TypeOK, LockInv, KeyInv, RecordInv, StaticInv, GcInv, [Next]_vars
             PROVE  RecordInv'
  OBVIOUS
<1> USE ConstantsAssumption
    DEF TypeOK, RecordInv, At, Goto, tables, gc, local, Keys, NoKey, RecordPcs
<1>1. ASSUME NEW t \in Threads, NEW f \in Functions, NEW b \in Boxes, RecordBegin(t, f, b)
      PROVE  RecordInv'
  <2>1. /\ next_key \in Keys
        /\ owner[next_key] = NoFn
        /\ attached \subseteq attached'
    BY <1>1 DEF RecordBegin, KeyInv
  <2>2. \A u \in Threads : pc[u] # "idle" => owner'[key[u]] = owner[key[u]]
    BY <1>1, <2>1 DEF RecordBegin, KeyInv
  <2>3. QED
    BY <1>1, <2>1, <2>2 DEF RecordBegin
<1>2. ASSUME NEW t \in Threads, RecordLock(t) PROVE RecordInv'
  <2>1. owner[key[t]] \in Functions
    BY <1>2 DEF RecordLock, Lock, KeyInv
  <2>2. \A u \in Threads : pc[u] \notin CriticalPcs
    BY <1>2 DEF RecordLock, Lock, LockInv
  <2>3. QED
    BY <1>2, <2>1, <2>2 DEF RecordLock, Lock, Functions, CriticalPcs
<1>3. ASSUME NEW t \in Threads, RetrieveLock(t) PROVE RecordInv'
  BY <1>3 DEF RetrieveLock, Lock
<1>4. ASSUME NEW t \in Threads, StoreExisting(t) PROVE RecordInv'
  <2>1. /\ owner[key[t]] \in Statics
        /\ key'[t] = id_by_function[owner[key[t]]]
        /\ owner[key'[t]] = owner[key[t]]
    BY <1>4 DEF StoreExisting, KeyInv
  <2>2. \A u \in Threads : pc[u] # "add"
    BY <1>4 DEF StoreExisting, LockInv, CriticalPcs
  <2>3. function_by_id[key'[t]] # NoBox
    BY <1>4, <2>1, <2>2 DEF StoreExisting, StaticInv
  <2>4. \A u \in Threads \ {t} : pc'[u] = pc[u] /\ key'[u] = key[u]
    BY <1>4 DEF StoreExisting
  <2>5. pc'[t] = "unlock" /\ box'[t] \in Boxes /\ owner'[key'[t]] \notin Closures
    BY <1>4, <2>1 DEF StoreExisting
  <2>6. UNCHANGED <<owner, tables, attached, box>>
    BY <1>4 DEF StoreExisting
  <2>7. QED
    BY <2>1, <2>3, <2>4, <2>5, <2>6
<1>5. ASSUME NEW t \in Threads, StoreNew(t) PROVE RecordInv'
  <2>1. owner[key[t]] \in Statics
    BY <1>5 DEF StoreNew
  <2>2. \A u \in Threads \ {t} : pc[u] \notin CriticalPcs
    BY <1>5 DEF StoreNew, LockInv, CriticalPcs
  <2>3. /\ \A u \in Threads \ {t} : pc'[u] = pc[u]
        /\ pc'[t] = "add" /\ pc[t] = "store"
        /\ UNCHANGED <<owner, key, box, attached, function_by_id>>
        /\ id_by_function' = [id_by_function EXCEPT ![owner[key[t]]] = key[t]]
    BY <1>5 DEF StoreNew
  <2>4. id_by_function'[owner[key[t]]] = key[t]
    BY <2>1, <2>3
  <2>5. \A u \in Threads \ {t} : pc'[u] \notin CriticalPcs
    BY <2>2, <2>3
  <2>6. QED
    BY <2>1, <2>3, <2>4, <2>5 DEF CriticalPcs
<1>6. ASSUME NEW t \in Threads, AddEntry(t) PROVE RecordInv'
  <2>1. \A u \in Threads \ {t} : pc[u] \notin CriticalPcs
    BY <1>6 DEF AddEntry, LockInv, CriticalPcs
  <2>2. /\ \A u \in Threads \ {t} : pc'[u] = pc[u]
        /\ pc'[t] = "unlock" /\ pc[t] = "add" /\ box[t] # NoBox
        /\ UNCHANGED <<owner, key, box, attached, id_by_function>>
        /\ function_by_id' = [function_by_id EXCEPT ![key[t]] = box[t]]
    BY <1>6 DEF AddEntry
  <2>3. function_by_id'[key[t]] = box[t]
    BY <2>2
  <2>4. \A u \in Threads \ {t} : pc'[u] \notin CriticalPcs
    BY <2>1, <2>2
  <2>5. QED
    BY <2>2, <2>3, <2>4 DEF CriticalPcs
<1>7. ASSUME NEW t \in Threads, RecordUnlock(t) \/ RetrieveUnlock(t) PROVE RecordInv'
  <2>1. pc'[t] = "idle" /\ UNCHANGED <<owner, attached, function_by_id, id_by_function>>
    BY <1>7 DEF RecordUnlock, RetrieveUnlock, Return
  <2>2. \A u \in Threads \ {t} : pc'[u] = pc[u] /\ key'[u] = key[u] /\ box'[u] = box[u]
    BY <1>7 DEF RecordUnlock, RetrieveUnlock, Return
  <2>3. QED
    BY <2>1, <2>2
<1>8. ASSUME NEW t \in Threads, NEW k \in Keys, RetrieveBegin(t, k) PROVE RecordInv'
  BY <1>8 DEF RetrieveBegin
<1>9. ASSUME NEW t \in Threads, Find(t) PROVE RecordInv'
  BY <1>9 DEF Find
<1>10. ASSUME NEW c \in Closures, Drop(c) PROVE RecordInv'
  BY <1>10 DEF Drop
<1>11. ASSUME NEW c \in Closures, GcFinalise(c) PROVE RecordInv'
  BY <1>11 DEF GcFinalise, Reachable
<1>12. ASSUME NEW t \in Threads, NEW k \in Keys, CleanupBegin(t, k) PROVE RecordInv'
  BY <1>12 DEF CleanupBegin
<1>13. CASE CleanupTryLock \/ CleanupReinstall \/ CleanupUnlock
  BY <1>13 DEF CleanupTryLock, CleanupReinstall, CleanupUnlock
<1>14. CASE CleanupRemove
  <2>1. \A u \in Threads : pc[u] \in RecordPcs => key[u] # fin.key
    BY <1>14, CleanupElsewhere DEF CleanupRemove
  <2>2. QED
    BY <1>14, <2>1 DEF CleanupRemove
<1>15. CASE UNCHANGED vars
  BY <1>15 DEF vars
<1>16. QED
  BY <1>1, <1>2, <1>3, <1>4, <1>5, <1>6, <1>7, <1>8, <1>9, <1>10, <1>11, <1>12, <1>13, <1>14, <1>15
  DEF Next, Record, Retrieve, Cleanup

(* Static functions keep their key, and an entry once it is stored. *)
LEMMA StaticStep ==
  TypeOK /\ LockInv /\ KeyInv /\ RecordInv /\ StaticInv /\ [Next]_vars => StaticInv'
<1> SUFFICES ASSUME TypeOK, LockInv, KeyInv, RecordInv, StaticInv, [Next]_vars PROVE StaticInv'
  OBVIOUS
<1> USE ConstantsAssumption DEF TypeOK, StaticInv, At, Goto, tables, gc, local, Keys, NoKey
<1>1. ASSUME NEW t \in Threads, NEW f \in Functions, NEW b \in Boxes, RecordBegin(t, f, b)
      PROVE  StaticInv'
  <2>1. \A i \in issued : owner'[i.key] = owner[i.key]
    BY <1>1, OwnerStable DEF KeyInv, Next, Record
  <2>2. QED
    BY <1>1, <2>1 DEF RecordBegin
<1>2. ASSUME NEW t \in Threads, RecordLock(t) \/ RetrieveLock(t) PROVE StaticInv'
  <2>1. /\ UNCHANGED <<function_by_id, id_by_function, owner, key, issued>>
        /\ pc[t] # "add" /\ \A u \in Threads \ {t} : pc'[u] = pc[u]
    BY <1>2, LockMoves
  <2>2. \A u \in Threads : pc[u] = "add" => pc'[u] = "add" /\ key'[u] = key[u]
    BY <2>1
  <2>3. QED
    BY <2>1, <2>2
<1>3. ASSUME NEW t \in Threads, StoreExisting(t) \/ Find(t) PROVE StaticInv'
  BY <1>3 DEF StoreExisting, Find
<1>4. ASSUME NEW t \in Threads, StoreNew(t) PROVE StaticInv'
  <2>1. owner[key[t]] \in Statics
    BY <1>4 DEF StoreNew, RecordInv
  <2>2. QED
    BY <1>4, <2>1 DEF StoreNew
<1>5. ASSUME NEW t \in Threads, AddEntry(t) PROVE StaticInv'
  <2>1. box[t] \in Boxes
    BY <1>5 DEF AddEntry, RecordInv, RecordPcs
  <2>2. QED
    BY <1>5, <2>1 DEF AddEntry
<1>6. ASSUME NEW t \in Threads, RecordUnlock(t) PROVE StaticInv'
  BY <1>6 DEF RecordUnlock, Return, RecordInv, RecordPcs
<1>7. ASSUME NEW t \in Threads, RetrieveUnlock(t) PROVE StaticInv'
  BY <1>7 DEF RetrieveUnlock, Return
<1>8. ASSUME NEW t \in Threads, NEW k \in Keys, RetrieveBegin(t, k) PROVE StaticInv'
  BY <1>8 DEF RetrieveBegin
<1>9. ASSUME NEW c \in Closures, Drop(c) \/ GcFinalise(c) PROVE StaticInv'
  BY <1>9 DEF Drop, GcFinalise
<1>10. ASSUME NEW t \in Threads, NEW k \in Keys, CleanupBegin(t, k) PROVE StaticInv'
  BY <1>10 DEF CleanupBegin
<1>11. CASE CleanupTryLock \/ CleanupReinstall \/ CleanupUnlock
  BY <1>11 DEF CleanupTryLock, CleanupReinstall, CleanupUnlock
<1>12. CASE CleanupRemove
  <2>1. owner[fin.key] \notin Statics
    BY <1>12 DEF CleanupRemove, KeyInv
  <2>2. \A s \in Statics : id_by_function[s] # NoKey => id_by_function[s] # fin.key
    BY <2>1 DEF KeyInv
  <2>3. QED
    BY <1>12, <2>2, FinFacts DEF CleanupRemove
<1>13. CASE UNCHANGED vars
  BY <1>13 DEF vars
<1>14. QED
  BY <1>1, <1>2, <1>3, <1>4, <1>5, <1>6, <1>7, <1>8, <1>9, <1>10, <1>11, <1>12, <1>13
  DEF Next, Record, Retrieve, Cleanup

(* What the collector has found unreachable stays so. *)
LEMMA GcStep == TypeOK /\ KeyInv /\ RecordInv /\ GcInv /\ [Next]_vars => GcInv'
<1> SUFFICES ASSUME TypeOK, KeyInv, RecordInv, GcInv, [Next]_vars PROVE GcInv'
  OBVIOUS
<1>1. \A k \in Keys : owner[k] \in Closures /\ ~Reachable(owner[k]) => ~Reachable(owner[k])'
  <2>1. ASSUME NEW k \in Keys, owner[k] \in Closures, ~Reachable(owner[k])
        PROVE  ~Reachable(owner[k])'
    <3>1. owner'[k] = owner[k]
      BY <2>1, OwnerStable, ConstantsAssumption DEF Functions
    <3>2. QED
      BY <2>1, <3>1, OwnerStable DEF Reachable
  <2>2. QED
    BY <2>1
<1>2. /\ \A k \in todo : ~Reachable(owner[k])'
      /\ \A k \in Keys : fin.stage # "none" /\ k = fin.key => ~Reachable(owner[k])'
  BY <1>1, FinFacts DEF GcInv, KeyInv, TypeOK
<1>3. ASSUME NEW c \in Closures, GcFinalise(c) PROVE GcInv'
  <2>1. \A k \in todo' : k \in todo \/ owner[k] = c
    BY <1>3 DEF GcFinalise
  <2>2. \A k \in todo' : ~Reachable(owner[k])'
    BY <1>1, <1>2, <1>3, <2>1 DEF GcFinalise, TypeOK
  <2>3. QED
    BY <1>2, <1>3, <2>2, FinFacts DEF GcFinalise, GcInv
<1>4. ASSUME NEW t \in Threads, NEW k \in Keys, CleanupBegin(t, k) PROVE GcInv'
  BY <1>2, <1>4 DEF CleanupBegin, GcInv
<1>5. CASE CleanupTryLock \/ CleanupRemove
  BY <1>2, <1>5, FinFacts DEF CleanupTryLock, CleanupRemove, GcInv
<1>6. CASE CleanupReinstall \/ CleanupUnlock
  BY <1>2, <1>6 DEF CleanupReinstall, CleanupUnlock, GcInv, NoFin
<1>7. CASE UNCHANGED <<todo, fin>>
  BY <1>2, <1>7, FinFacts DEF GcInv
<1>8. QED
  BY <1>3, <1>4, <1>5, <1>6, <1>7 DEF Next, Record, Retrieve, Cleanup, vars, gc, RecordBegin, RecordLock,
     StoreExisting, StoreNew, AddEntry, RecordUnlock, RetrieveBegin, RetrieveLock, Lock, Find,
     RetrieveUnlock, Drop

(* An entry of a closure stays covered by a finaliser. *)
LEMMA OrphanStep ==
  TypeOK /\ KeyInv /\ RecordInv /\ NoOrphanEntry /\ [Next]_vars => NoOrphanEntry'
<1> SUFFICES ASSUME TypeOK, KeyInv, RecordInv, NoOrphanEntry, [Next]_vars PROVE NoOrphanEntry'
  OBVIOUS
<1> USE ConstantsAssumption DEF TypeOK, At, Goto, tables, gc, local, Keys, NoKey
<1>1. ASSUME NEW t \in Threads, NEW f \in Functions, NEW b \in Boxes, RecordBegin(t, f, b)
      PROVE  NoOrphanEntry'
  <2>1. \A k \in Keys : function_by_id[k] # NoBox => owner'[k] = owner[k]
    BY <1>1, OwnerStable DEF KeyInv, Next, Record
  <2>2. QED
    BY <1>1, <2>1 DEF RecordBegin, NoOrphanEntry
<1>2. ASSUME NEW t \in Threads, AddEntry(t) PROVE NoOrphanEntry'
  <2>1. owner[key[t]] \in Closures => key[t] \in attached
    BY <1>2 DEF AddEntry, RecordInv, RecordPcs
  <2>2. QED
    BY <1>2, <2>1 DEF AddEntry, NoOrphanEntry
<1>3. ASSUME NEW c \in Closures, GcFinalise(c) PROVE NoOrphanEntry'
  BY <1>3 DEF GcFinalise, NoOrphanEntry
<1>4. ASSUME NEW t \in Threads, NEW k \in Keys, CleanupBegin(t, k) PROVE NoOrphanEntry'
  BY <1>4 DEF CleanupBegin, NoOrphanEntry
<1>5. CASE CleanupTryLock
  <2>1. fin'.stage = "remove" /\ fin'.key = fin.key
    BY <1>5, FinFacts DEF CleanupTryLock
  <2>2. QED
    BY <1>5, <2>1 DEF CleanupTryLock, NoOrphanEntry
<1>6. CASE CleanupReinstall
  BY <1>6 DEF CleanupReinstall, NoOrphanEntry
<1>7. CASE CleanupRemove
  BY <1>7, FinFacts DEF CleanupRemove, NoOrphanEntry
<1>8. CASE CleanupUnlock
  BY <1>8 DEF CleanupUnlock, NoOrphanEntry, FinCritical
<1>9. CASE UNCHANGED <<function_by_id, owner, gc>>
  BY <1>9 DEF NoOrphanEntry
<1>10. QED
  BY <1>1, <1>2, <1>3, <1>4, <1>5, <1>6, <1>7, <1>8, <1>9
  DEF Next, Record, Retrieve, Cleanup, vars, RecordLock, StoreExisting, StoreNew,
      RecordUnlock, RetrieveBegin, RetrieveLock, Lock, Find, RetrieveUnlock, Drop

(* The entries of reachable closures are not touched. *)
LEMMA LiveStep ==
  IInv /\ [Next]_vars => LiveClosureIsBound'
<1> SUFFICES ASSUME IInv, [Next]_vars PROVE LiveClosureIsBound'
  OBVIOUS
<1> USE ConstantsAssumption DEF IInv
<1>1. \A i \in issued : owner'[i.key] = owner[i.key] /\ i.key \in Keys
  BY OwnerStable DEF KeyInv, TypeOK
<1>2. ASSUME NEW i \in issued, owner'[i.key] \in Closures, Reachable(owner[i.key])'
      PROVE  Reachable(owner[i.key]) /\ function_by_id[i.key] = i.box
  BY <1>1, <1>2, OwnerStable DEF LiveClosureIsBound, Reachable
<1>3. ASSUME NEW t \in Threads, AddEntry(t) PROVE LiveClosureIsBound'
  <2>1. \A i \in issued : i.key # key[t]
    BY <1>3 DEF AddEntry, FreshInv, Storing, At
  <2>2. QED
    BY <1>1, <1>2, <1>3, <2>1 DEF AddEntry, LiveClosureIsBound, TypeOK
<1>4. ASSUME NEW t \in Threads, RecordUnlock(t) PROVE LiveClosureIsBound'
  <2>1. owner[key[t]] \in Closures => function_by_id[key[t]] = box[t]
    BY <1>4 DEF RecordUnlock, RecordInv, At
  <2>2. QED
    BY <1>1, <1>2, <1>4, <2>1 DEF RecordUnlock, LiveClosureIsBound, tables
<1>5. CASE CleanupRemove
  <2>1. ~Reachable(owner[fin.key])
    BY <1>5 DEF CleanupRemove, GcInv
  <2>2. QED
    BY <1>1, <1>2, <1>5, <2>1 DEF CleanupRemove, LiveClosureIsBound, TypeOK
<1>6. CASE UNCHANGED <<function_by_id, issued>>
  BY <1>1, <1>2, <1>6 DEF LiveClosureIsBound
<1>7. QED
  BY <1>3, <1>4, <1>5, <1>6
  DEF Next, Record, Retrieve, Cleanup, vars, tables, RecordBegin, RecordLock, StoreExisting, StoreNew,
      RetrieveBegin, RetrieveLock, Lock, Find, RetrieveUnlock, Drop, GcFinalise,
      CleanupBegin, CleanupTryLock, CleanupReinstall, CleanupUnlock

(* retrieve holds the lock from its lookup to its answer. *)
LEMMA RetrieveStep ==
  IInv /\ [Next]_vars => RetrieveFindsLive'
<1> SUFFICES ASSUME IInv, [Next]_vars PROVE RetrieveFindsLive'
  OBVIOUS
<1> USE ConstantsAssumption DEF IInv
<1>1. \A i \in issued : owner'[i.key] = owner[i.key] /\ i.key \in Keys
  BY OwnerStable DEF KeyInv, TypeOK
<1>2. ASSUME NEW i \in issued, owner'[i.key] \in Closures, Reachable(owner[i.key])'
      PROVE  owner[i.key] \in Closures /\ Reachable(owner[i.key])
  BY <1>1, <1>2, OwnerStable DEF Reachable
<1>3. ASSUME NEW t \in Threads, RecordUnlock(t) PROVE RetrieveFindsLive'
  <2>1. \A u \in Threads : pc'[u] # "runlock"
    BY <1>3 DEF RecordUnlock, Return, Goto, At, LockInv, CriticalPcs, TypeOK
  <2>2. QED
    BY <2>1 DEF RetrieveFindsLive
<1>4. ASSUME NEW t \in Threads, Find(t) PROVE RetrieveFindsLive'
  <2>1. UNCHANGED <<issued, key>>
    BY <1>4 DEF Find
  <2>2. \A u \in Threads \ {t} : pc'[u] = pc[u] /\ box'[u] = box[u]
    BY <1>4 DEF Find, Goto, TypeOK
  <2>3. box'[t] = function_by_id[key[t]]
    BY <1>4 DEF Find, TypeOK
  <2>4. QED
    BY <1>1, <1>2, <2>1, <2>2, <2>3 DEF RetrieveFindsLive, LiveClosureIsBound
<1>5. ASSUME NEW t \in Threads,
             \/ \E f \in Functions, b \in Boxes : RecordBegin(t, f, b)
             \/ RecordLock(t) \/ StoreExisting(t) \/ StoreNew(t) \/ AddEntry(t)
             \/ \E k \in Keys : RetrieveBegin(t, k)
             \/ RetrieveLock(t) \/ RetrieveUnlock(t)
      PROVE  RetrieveFindsLive'
  <2>1. issued' = issued
    BY <1>5 DEF RecordBegin, RecordLock, StoreExisting, StoreNew, AddEntry, RetrieveBegin, RetrieveLock,
       Lock, RetrieveUnlock
  <2>2. \A u \in Threads : pc'[u] = "runlock" => pc[u] = "runlock" /\ u # t
    BY <1>5 DEF RecordBegin, RecordLock, StoreExisting, StoreNew, AddEntry, RetrieveBegin, RetrieveLock,
       Lock, RetrieveUnlock, Return, Goto, At, TypeOK
  <2>3. \A u \in Threads \ {t} : key'[u] = key[u] /\ box'[u] = box[u]
    BY <1>5 DEF RecordBegin, RecordLock, StoreExisting, StoreNew, AddEntry, RetrieveBegin, RetrieveLock,
       Lock, RetrieveUnlock, Return, TypeOK
  <2>4. QED
    BY <1>1, <1>2, <2>1, <2>2, <2>3 DEF RetrieveFindsLive
<1>6. CASE UNCHANGED <<local, issued>>
  BY <1>1, <1>2, <1>6 DEF RetrieveFindsLive, local
<1>7. QED
  BY <1>3, <1>4, <1>5, <1>6
  DEF Next, Record, Retrieve, Cleanup, vars, Drop, GcFinalise,
      CleanupBegin, CleanupTryLock, CleanupReinstall, CleanupRemove, CleanupUnlock

-----------------------------------------------------------------------------
(* The tables are empty and no call has begun.                             *)
LEMMA InitIInv == Init => IInv
<1> SUFFICES ASSUME Init PROVE IInv
  OBVIOUS
<1> USE ConstantsAssumption
    DEF Init, NoFin, Keys, NoKey, RecordPcs, RetrievePcs, CriticalPcs, FinCritical
<1>1. TypeOK
  BY DEF TypeOK
<1>2. LockInv /\ FreshInv /\ RecordInv
  BY DEF LockInv, FreshInv, Storing, RecordInv
<1>3. KeyInv /\ StaticInv /\ GcInv
  BY DEF KeyInv, StaticInv, GcInv
<1>4. NoOrphanEntry /\ LiveClosureIsBound /\ RetrieveFindsLive
  BY DEF NoOrphanEntry, LiveClosureIsBound, RetrieveFindsLive
<1>5. QED
  BY <1>1, <1>2, <1>3, <1>4 DEF IInv

(* A step of a thread, the collector or the finaliser keeps the whole      *)
(* conjunction.                                                            *)
LEMMA StepIInv == IInv /\ [Next]_vars => IInv'
BY TypeStep, LockStep, KeyStep, FreshStep, RecordStep, StaticStep, GcStep, OrphanStep, LiveStep,
   RetrieveStep DEF IInv

(* The conjunction that record, retrieve, the collector and the finaliser  *)
(* all preserve.                                                           *)
THEOREM Invariance == Spec => []IInv
<1>1. Init => IInv
  BY InitIInv
<1>2. IInv /\ [Next]_vars => IInv'
  BY StepIInv
<1>3. QED
  BY <1>1, <1>2, PTL DEF Spec

(* Every variable of the tables, the threads and the collector keeps its   *)
(* type.                                                                   *)
THEOREM TypeCorrect == Spec => []TypeOK
<1>1. IInv => TypeOK
  BY DEF IInv
<1>2. QED
  BY <1>1, Invariance, PTL

(* No two activities are ever inside tables_lock, a finaliser and the      *)
(* thread it interrupted included.                                         *)
THEOREM MutualExclusion == Spec => []TablesExclusive
<1>1. IInv => TablesExclusive
  BY DEF IInv, LockInv, TablesExclusive
<1>2. QED
  BY <1>1, Invariance, PTL

(* A key that record returned for a closure stays bound to its box for as  *)
(* long as the closure is reachable.                                       *)
THEOREM LiveClosuresStayBound == Spec => []LiveClosureIsBound
<1>1. IInv => LiveClosureIsBound
  BY DEF IInv
<1>2. QED
  BY <1>1, Invariance, PTL

(* retrieve answers the box of a reachable closure, never Not_found. *)
THEOREM RetrieveCorrect == Spec => []RetrieveFindsLive
<1>1. IInv => RetrieveFindsLive
  BY DEF IInv
<1>2. QED
  BY <1>1, Invariance, PTL

(* No entry is left without the finaliser that removes it. *)
THEOREM EntriesAreCovered == Spec => []NoOrphanEntry
<1>1. IInv => NoOrphanEntry
  BY DEF IInv
<1>2. QED
  BY <1>1, Invariance, PTL

(* A static function has one key and, outside the lock, an entry for it. *)
THEOREM StaticsAgree == Spec => [](StaticTablesAgree /\ StaticHasOneKey)
<1>1. IInv => StaticTablesAgree
  <2> SUFFICES ASSUME IInv, lock = NoThread, NEW s \in Statics, id_by_function[s] # NoKey
               PROVE  /\ owner[id_by_function[s]] = s
                      /\ function_by_id[id_by_function[s]] # NoBox
    BY DEF StaticTablesAgree
  <2>1. \A t \in Threads : pc[t] # "add"
    BY ConstantsAssumption DEF IInv, LockInv, CriticalPcs
  <2>2. QED
    BY <2>1 DEF IInv, KeyInv, StaticInv
<1>2. IInv => StaticHasOneKey
  BY DEF IInv, StaticInv, StaticHasOneKey
<1>3. QED
  BY <1>1, <1>2, Invariance, PTL

-----------------------------------------------------------------------------
(* Refinement *)

(* What the mapping needs to know of a step: only pc, key, box, issued and *)
(* the reachable closures matter to it.                                    *)
LEMMA QueryOf ==
  ASSUME NEW t \in Threads
  PROVE  Query[t] = IF pc[t] \in {"rlock", "find"} THEN [at |-> "asked", key |-> key[t], box |-> NoBox]
                    ELSE IF pc[t] = "runlock" THEN [at |-> "answered", key |-> key[t], box |-> box[t]]
                    ELSE [at |-> "idle", key |-> NoKey, box |-> NoBox]
BY DEF Query

(* The empty tables are the empty registry.                                *)
LEMMA InitRefines == Init => Registry!Init
<1> SUFFICES ASSUME Init PROVE Registry!Init
  OBVIOUS
<1> USE DEF Init
<1>1. Decided = {}
  BY DEF Decided
<1>2. Live = Closures
  BY DEF Live, Reachable
<1>3. Query = [t \in Threads |-> Registry!Idle]
  BY DEF Query, Registry!Idle
<1>4. QED
  BY <1>1, <1>2, <1>3 DEF Registry!Init

(* record begins: the registry makes a key. *)
LEMMA BeginRefines ==
  ASSUME IInv, NEW t \in Threads, NEW f \in Functions, NEW b \in Boxes, RecordBegin(t, f, b)
  PROVE  Registry!Make(next_key, f) /\ next_key \in Keys
<1> USE ConstantsAssumption DEF IInv, TypeOK, RecordBegin, At, Goto, Keys, NoKey, tables
<1>1. /\ next_key \in Keys
      /\ owner[next_key] = NoFn
  BY DEF KeyInv
<1>2. f \in Live \cup Statics
  BY DEF Live, Reachable, Functions
<1>3. Decided' = Decided
  <2>1. \A u \in Threads : pc'[u] = "unlock" <=> pc[u] = "unlock"
    OBVIOUS
  <2>2. \A u \in Threads : pc[u] = "unlock" => key'[u] = key[u] /\ box'[u] = box[u]
    OBVIOUS
  <2>3. QED
    BY <2>1, <2>2 DEF Decided
<1>4. Live' = Live
  <2>1. ASSUME NEW c \in Closures PROVE Reachable(c)' <=> Reachable(c)
    <3>1. Reachable(c)' => Reachable(c)
      BY OwnerStable DEF Next, Record
    <3>2. \A u \in Threads : pc[u] \in RecordPcs => pc'[u] = pc[u] /\ key'[u] = key[u]
      BY DEF RecordPcs
    <3>3. \A u \in Threads : pc[u] \in RecordPcs => owner'[key[u]] = owner[key[u]]
      BY OwnerStable DEF Next, Record, KeyInv, RecordPcs
    <3>4. QED
      BY <3>1, <3>2, <3>3 DEF Reachable
  <2>2. QED
    BY <2>1 DEF Live
<1>5. Query' = Query
  BY DEF Query
<1>6. QED
  BY <1>1, <1>2, <1>3, <1>4, <1>5 DEF Registry!Make

(* A step that moves no thread out of or into record, and leaves the keys, *)
(* the owners and the roots alone, keeps the live closures.                *)
LEMMA SameLive ==
  ASSUME UNCHANGED <<rooted, owner>>,
         \A t \in Threads : (pc'[t] \in RecordPcs) = (pc[t] \in RecordPcs),
         \A t \in Threads : pc[t] \in RecordPcs => owner[key'[t]] = owner[key[t]]
  PROVE  Live' = Live
BY DEF Live, Reachable

(* Taking the mutex, or the first of two entries: the registry stutters. *)
LEMMA SilentRefines ==
  ASSUME IInv, NEW t \in Threads, RecordLock(t) \/ RetrieveLock(t) \/ StoreNew(t)
  PROVE  UNCHANGED Registry!vars
<1> USE ConstantsAssumption DEF IInv, TypeOK, RecordLock, RetrieveLock, Lock, StoreNew, At, Goto, tables
<1>1. /\ \A u \in Threads \ {t} : pc'[u] = pc[u]
      /\ pc'[t] \in {"add", "store", "find"} /\ pc[t] \in {"lock", "store", "rlock"}
      /\ pc'[t] = "find" <=> pc[t] = "rlock"
      /\ UNCHANGED <<rooted, owner, key, box, issued, function_by_id>>
  OBVIOUS
<1>2. Decided' = Decided
  <2>1. {u \in Threads : pc'[u] = "unlock"} = {u \in Threads : pc[u] = "unlock"}
    BY <1>1
  <2>2. QED
    BY <1>1, <2>1 DEF Decided
<1>3. Live' = Live
  BY <1>1, SameLive DEF RecordPcs
<1>4. Query' = Query
  BY <1>1 DEF Query
<1>5. QED
  BY <1>1, <1>2, <1>3, <1>4 DEF Registry!vars

(* A second record of a static function shares the binding of the first. *)
LEMMA ShareRefines ==
  ASSUME IInv, NEW t \in Threads, StoreExisting(t)
  PROVE  \E k \in Keys, b \in Boxes : Registry!Share(k, b)
<1> USE ConstantsAssumption DEF IInv, TypeOK, StoreExisting, At, Goto, tables, NoKey
<1> DEFINE k == id_by_function[owner[key[t]]]
<1>1. /\ owner[key[t]] \in Statics
      /\ k \in Keys
      /\ owner[k] = owner[key[t]]
      /\ box[t] \in Boxes
  BY DEF RecordInv, KeyInv, RecordPcs
<1>2. function_by_id[k] # NoBox
  <2>1. \A u \in Threads : pc[u] # "add"
    BY DEF LockInv, CriticalPcs
  <2>2. QED
    BY <1>1, <2>1 DEF StaticInv
<1>3. Decided' = Decided \cup {[key |-> k, box |-> box[t]]}
  <2>1. {u \in Threads : pc'[u] = "unlock"} = {u \in Threads : pc[u] = "unlock"} \cup {t}
    OBVIOUS
  <2>2. \A u \in Threads \ {t} : key'[u] = key[u]
    OBVIOUS
  <2>3. key'[t] = k /\ pc[t] # "unlock" /\ UNCHANGED <<box, issued>>
    OBVIOUS
  <2>4. QED
    BY <2>1, <2>2, <2>3 DEF Decided
<1>4. Live' = Live
  <2>1. \A u \in Threads : (pc'[u] \in RecordPcs) = (pc[u] \in RecordPcs)
    BY DEF RecordPcs
  <2>2. \A u \in Threads : pc[u] \in RecordPcs => owner[key'[u]] = owner[key[u]]
    BY <1>1
  <2>3. QED
    BY <2>1, <2>2, SameLive
<1>5. Query' = Query
  BY DEF Query
<1>6. QED
  BY <1>1, <1>2, <1>3, <1>4, <1>5 DEF Registry!Share

(* Storing an entry binds the key. *)
LEMMA BindRefines ==
  ASSUME IInv, NEW t \in Threads, AddEntry(t)
  PROVE  \E k \in Keys, b \in Boxes : Registry!Bind(k, b)
<1> USE ConstantsAssumption DEF IInv, TypeOK, AddEntry, At, Goto, tables
<1>1. key[t] \in Keys /\ box[t] \in Boxes
  BY DEF RecordInv, RecordPcs
<1>2. owner[key[t]] \in Live \cup Statics
  BY <1>1 DEF KeyInv, Functions, Live, Reachable, RecordPcs
<1>3. function_by_id[key[t]] = NoBox /\ \A g \in Decided : g.key # key[t]
  BY DEF FreshInv, Storing, Decided, RecordPcs
<1>4. Decided' = Decided \cup {[key |-> key[t], box |-> box[t]]}
  <2>1. {u \in Threads : pc'[u] = "unlock"} = {u \in Threads : pc[u] = "unlock"} \cup {t}
    OBVIOUS
  <2>2. UNCHANGED <<key, box, issued>>
    OBVIOUS
  <2>3. QED
    BY <2>1, <2>2 DEF Decided
<1>5. Live' = Live
  BY SameLive DEF RecordPcs
<1>6. Query' = Query
  BY DEF Query
<1>7. QED
  BY <1>1, <1>2, <1>3, <1>4, <1>5, <1>6 DEF Registry!Bind

(* When record returns its frame goes, and with it perhaps the last        *)
(* reference to the closure.                                               *)
LEMMA ReturnRefines ==
  ASSUME IInv, [Next]_vars, NEW t \in Threads, RecordUnlock(t)
  PROVE  UNCHANGED Registry!vars \/ \E c \in Closures : Registry!Die(c)
<1> USE ConstantsAssumption DEF IInv, TypeOK, RecordUnlock, Return, At, Goto, tables
<1>1. Decided' = Decided
  <2>1. {u \in Threads : pc[u] = "unlock"} = {u \in Threads : pc'[u] = "unlock"} \cup {t}
    OBVIOUS
  <2>2. \A u \in Threads : pc'[u] = "unlock" => key'[u] = key[u] /\ box'[u] = box[u]
    OBVIOUS
  <2>3. issued' = issued \cup {[key |-> key[t], box |-> box[t]]}
    OBVIOUS
  <2>4. QED
    BY <2>1, <2>2, <2>3 DEF Decided
<1>2. Query' = Query
  BY DEF Query
<1>3. Live' = Live \/ (owner[key[t]] \in Live /\ Live' = Live \ {owner[key[t]]})
  <2>1. \A c \in Closures : Reachable(c)' => Reachable(c)
    BY OwnerStable
  <2>2. \A c \in Closures : c # owner[key[t]] /\ Reachable(c) => Reachable(c)'
    BY DEF Reachable, RecordPcs
  <2>3. QED
    BY <2>1, <2>2 DEF Live
<1>4. QED
  BY <1>1, <1>2, <1>3 DEF Registry!vars, Registry!Die, Live

(* retrieve: the call, its lookup and its return. *)
LEMMA AskRefines ==
  ASSUME IInv, NEW t \in Threads, NEW k \in Keys, RetrieveBegin(t, k)
  PROVE  Registry!Ask(t, k)
<1> USE ConstantsAssumption DEF IInv, TypeOK, RetrieveBegin, At, Goto, tables
<1>1. Decided' = Decided
  <2>1. {u \in Threads : pc[u] = "unlock"} = {u \in Threads : pc'[u] = "unlock"}
    OBVIOUS
  <2>2. \A u \in Threads : pc[u] = "unlock" => key'[u] = key[u] /\ box'[u] = box[u]
    OBVIOUS
  <2>3. QED
    BY <2>1, <2>2 DEF Decided
<1>2. Live' = Live
  BY SameLive DEF RecordPcs
<1>3. Query[t] = Registry!Idle /\ \E g \in Decided : g.key = k
  BY DEF Query, Registry!Idle, Decided
<1>4. Query' = [Query EXCEPT ![t] = Registry!Asked(k)]
  BY DEF Query, Registry!Asked
<1>5. QED
  BY <1>1, <1>2, <1>3, <1>4 DEF Registry!Ask

(* Hashtbl.find inside the lock is the instant retrieve is answered.       *)
LEMMA AnswerRefines ==
  ASSUME IInv, NEW t \in Threads, Find(t)
  PROVE  \E k \in Keys : Registry!Answer(t, k)
<1> USE ConstantsAssumption DEF IInv, TypeOK, Find, At, Goto, tables
<1>1. Decided' = Decided
  <2>1. {u \in Threads : pc[u] = "unlock"} = {u \in Threads : pc'[u] = "unlock"}
    OBVIOUS
  <2>2. \A u \in Threads : pc[u] = "unlock" => key'[u] = key[u] /\ box'[u] = box[u]
    OBVIOUS
  <2>3. QED
    BY <2>1, <2>2 DEF Decided
<1>2. Live' = Live
  BY SameLive DEF RecordPcs
<1>3. key[t] \in Keys /\ Query[t] = Registry!Asked(key[t])
  BY DEF Query, Registry!Asked
<1>4. Query' = [Query EXCEPT ![t] = Registry!Answered(key[t], function_by_id[key[t]])]
  BY DEF Query, Registry!Answered
<1>5. QED
  BY <1>1, <1>2, <1>3, <1>4 DEF Registry!Answer

(* Unlocking hands the answer of retrieve to its caller.                   *)
LEMMA DoneRefines ==
  ASSUME IInv, NEW t \in Threads, RetrieveUnlock(t)
  PROVE  Registry!Done(t)
<1> USE ConstantsAssumption DEF IInv, TypeOK, RetrieveUnlock, Return, At, Goto, tables
<1>1. Decided' = Decided
  <2>1. {u \in Threads : pc[u] = "unlock"} = {u \in Threads : pc'[u] = "unlock"}
    OBVIOUS
  <2>2. \A u \in Threads : pc[u] = "unlock" => key'[u] = key[u] /\ box'[u] = box[u]
    OBVIOUS
  <2>3. QED
    BY <2>1, <2>2 DEF Decided
<1>2. Live' = Live
  <2>1. \A u \in Threads : (pc'[u] \in RecordPcs) = (pc[u] \in RecordPcs)
    BY DEF RecordPcs
  <2>2. \A u \in Threads : pc[u] \in RecordPcs => key'[u] = key[u]
    BY DEF RecordPcs
  <2>3. QED
    BY <2>1, <2>2, SameLive
<1>3. /\ key[t] \in Keys /\ box[t] \in Boxes \cup {NoBox}
      /\ Query[t] = Registry!Answered(key[t], box[t])
  BY DEF Query, Registry!Answered
<1>4. Query' = [Query EXCEPT ![t] = Registry!Idle]
  BY DEF Query, Registry!Idle
<1>5. QED
  BY <1>1, <1>2, <1>3, <1>4 DEF Registry!Done

(* The program drops a closure; the collector and the finaliser work. *)
LEMMA DropRefines ==
  ASSUME IInv, NEW c \in Closures, Drop(c)
  PROVE  UNCHANGED Registry!vars \/ Registry!Die(c)
<1> USE DEF Drop, tables, local
<1>1. Decided' = Decided /\ Query' = Query
  BY DEF Decided, Query
<1>2. Live' = Live \/ (c \in Live /\ Live' = Live \ {c})
  <2>1. \A d \in Closures : Reachable(d)' => Reachable(d)
    BY DEF Reachable
  <2>2. \A d \in Closures : d # c /\ Reachable(d) => Reachable(d)'
    BY DEF Reachable
  <2>3. QED
    BY <2>1, <2>2 DEF Live
<1>3. QED
  BY <1>1, <1>2 DEF Registry!vars, Registry!Die

(* The cleanup retires the key of a dead closure; its other steps, and the *)
(* scheduling of finalisers, are invisible in the registry.                *)
LEMMA GcRefines ==
  ASSUME IInv, (\E c \in Closures : GcFinalise(c)) \/ Cleanup
  PROVE  UNCHANGED Registry!vars \/ \E k \in Keys : Registry!Retire(k)
<1> USE DEF IInv, GcFinalise, Cleanup, CleanupBegin, CleanupTryLock, CleanupReinstall, CleanupUnlock,
        CleanupRemove, tables, local
<1>1. UNCHANGED <<owner, local, rooted, issued>>
  OBVIOUS
<1>2. Decided' = Decided /\ Query' = Query /\ Live' = Live
  BY <1>1 DEF Decided, Query, Live, Reachable
<1>3. CASE CleanupRemove
  <2>1. fin.key \in Keys /\ owner[fin.key] \in Closures \ Live
    BY <1>3, FinFacts DEF KeyInv, GcInv, Live
  <2>2. QED
    BY <1>2, <1>3, <2>1 DEF Registry!Retire
<1>4. CASE UNCHANGED function_by_id
  BY <1>1, <1>2, <1>4 DEF Registry!vars
<1>5. QED
  BY <1>3, <1>4

(* The tables, the mutex and the finalisers implement the registry that    *)
(* ctypes_closure_properties.mli describes.                                *)
THEOREM Refinement == Spec => ImplementsRegistry
<1>1. Init => Registry!Init
  BY InitRefines
<1>2. IInv /\ [Next]_vars => [Registry!Next]_(Registry!vars)
  <2> SUFFICES ASSUME IInv, [Next]_vars PROVE Registry!Next \/ UNCHANGED Registry!vars
    OBVIOUS
  <2> USE DEF Registry!Next
  <2>1. ASSUME NEW t \in Threads, Record(t) PROVE Registry!Next \/ UNCHANGED Registry!vars
    <3>1. ASSUME NEW f \in Functions, NEW b \in Boxes, RecordBegin(t, f, b)
          PROVE  Registry!Next
      BY <3>1, BeginRefines DEF Functions, Registry!Functions
    <3>2. CASE RecordLock(t) \/ StoreNew(t)
      BY <3>2, SilentRefines
    <3>3. CASE StoreExisting(t)
      BY <3>3, ShareRefines
    <3>4. CASE AddEntry(t)
      BY <3>4, BindRefines
    <3>5. CASE RecordUnlock(t)
      BY <3>5, ReturnRefines
    <3>6. QED
      BY <2>1, <3>1, <3>2, <3>3, <3>4, <3>5 DEF Record
  <2>2. ASSUME NEW t \in Threads, Retrieve(t) PROVE Registry!Next \/ UNCHANGED Registry!vars
    BY <2>2, AskRefines, SilentRefines, AnswerRefines, DoneRefines DEF Retrieve
  <2>3. ASSUME NEW c \in Closures, Drop(c) PROVE Registry!Next \/ UNCHANGED Registry!vars
    BY <2>3, DropRefines
  <2>4. ASSUME (\E c \in Closures : GcFinalise(c)) \/ Cleanup
        PROVE  Registry!Next \/ UNCHANGED Registry!vars
    BY <2>4, GcRefines
  <2>5. CASE UNCHANGED vars
    BY <2>5 DEF vars, tables, local, gc, Registry!vars, Decided, Live, Reachable, Query
  <2>6. QED
    BY <2>1, <2>2, <2>3, <2>4, <2>5 DEF Next
<1>3. QED
  BY <1>1, <1>2, Invariance, PTL DEF Spec, ImplementsRegistry, Registry!Spec

=============================================================================
