--------------------------- MODULE ClosureRegistry ---------------------------
(***************************************************************************)
(* What ctypes_closure_properties.mli promises to the rest of ctypes, with *)
(* no mutex, no hash tables and no finalisers: a registry of boxed         *)
(* functions whose operations take effect at one instant.                  *)
(***************************************************************************)
CONSTANTS Threads, Closures, Statics, Boxes, Keys, NoBox, NoFn, NoKey

VARIABLES
  bind,     (* key -> box, or NoBox                                        *)
  made_for, (* key -> the function the key was made for, or NoFn           *)
  granted,  (* the answers record has decided on: [key, box]               *)
  live,     (* the closures the program can reach                          *)
  query     (* thread -> its retrieve: [at, key, box]                      *)

vars == <<bind, made_for, granted, live, query>>

Functions == Closures \cup Statics
Idle      == [at |-> "idle", key |-> NoKey, box |-> NoBox]
Asked(k)  == [at |-> "asked", key |-> k, box |-> NoBox]
Answered(k, b) == [at |-> "answered", key |-> k, box |-> b]

Init ==
  /\ bind = [k \in Keys |-> NoBox]
  /\ made_for = [k \in Keys |-> NoFn]
  /\ granted = {}
  /\ live = Closures
  /\ query = [t \in Threads |-> Idle]

(* A key is made for one function, for good. *)
Make(k, f) ==
  /\ made_for[k] = NoFn
  /\ f \in live \cup Statics
  /\ made_for' = [made_for EXCEPT ![k] = f]
  /\ UNCHANGED <<bind, granted, live, query>>

(* record of a function with no key in use: its key is bound, once. *)
Bind(k, b) ==
  /\ made_for[k] \in live \cup Statics
  /\ bind[k] = NoBox
  /\ \A g \in granted : g.key # k
  /\ bind' = [bind EXCEPT ![k] = b]
  /\ granted' = granted \cup {[key |-> k, box |-> b]}
  /\ UNCHANGED <<made_for, live, query>>

(* record of a static function that has a binding: it keeps that binding. *)
Share(k, b) ==
  /\ made_for[k] \in Statics
  /\ bind[k] # NoBox
  /\ granted' = granted \cup {[key |-> k, box |-> b]}
  /\ UNCHANGED <<bind, made_for, live, query>>

Die(c) ==
  /\ c \in live
  /\ live' = live \ {c}
  /\ UNCHANGED <<bind, made_for, granted, query>>

(* Only the binding of a dead closure is ever taken away. *)
Retire(k) ==
  /\ made_for[k] \in Closures \ live
  /\ bind' = [bind EXCEPT ![k] = NoBox]
  /\ UNCHANGED <<made_for, granted, live, query>>

Ask(t, k) ==
  /\ query[t] = Idle
  /\ \E g \in granted : g.key = k
  /\ query' = [query EXCEPT ![t] = Asked(k)]
  /\ UNCHANGED <<bind, made_for, granted, live>>

Answer(t, k) ==
  /\ query[t] = Asked(k)
  /\ query' = [query EXCEPT ![t] = Answered(k, bind[k])]
  /\ UNCHANGED <<bind, made_for, granted, live>>

Done(t) ==
  /\ \E k \in Keys, b \in Boxes \cup {NoBox} : query[t] = Answered(k, b)
  /\ query' = [query EXCEPT ![t] = Idle]
  /\ UNCHANGED <<bind, made_for, granted, live>>

Next ==
  \/ \E k \in Keys, f \in Functions : Make(k, f)
  \/ \E k \in Keys, b \in Boxes : Bind(k, b) \/ Share(k, b)
  \/ \E c \in Closures : Die(c)
  \/ \E k \in Keys : Retire(k)
  \/ \E t \in Threads, k \in Keys : Ask(t, k) \/ Answer(t, k)
  \/ \E t \in Threads : Done(t)

Spec == Init /\ [][Next]_vars

=============================================================================
