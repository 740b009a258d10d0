------------------------------ MODULE StubCalls ------------------------------
(***************************************************************************)
(* ForeignCalls with calls through the stubs that Cstubs generates for the *)
(* unlocked and sequential policies with return_errno (fn in               *)
(* cstubs_generate_c.ml), which order errno and the runtime lock in their  *)
(* own way.                                                                *)
(***************************************************************************)
EXTENDS ForeignCalls

(* OCaml calls a stub: the arguments are projected. *)
StubCall(t, lock) ==
  /\ At(t, "ocaml", "run") /\ Room(t, 1)
  /\ Push(t, "run", Frame("stub", "clear", lock, TRUE))
  /\ UNCHANGED <<master, errno, registration>>

StubClear(t) ==
  /\ At(t, "stub", "clear")
  /\ SetErrno(t, 0)
  /\ Goto(t, "release")
  /\ UNCHANGED <<master, registration>>

StubRelease(t) ==
  /\ At(t, "stub", "release")
  /\ ReleaseIf(t, Top(t).lock)
  /\ Goto(t, "C")
  /\ UNCHANGED registration

StubReturns(t) ==
  /\ At(t, "stub", "C")
  /\ Goto(t, "acquire")
  /\ UNCHANGED <<master, errno, registration>>

StubAcquire(t) ==
  /\ At(t, "stub", "acquire")
  /\ AcquireIf(t, Top(t).lock)
  /\ Goto(t, "pair")
  /\ UNCHANGED <<errno, registration>>

(* The result is injected and ctypes_pair_with_errno reads errno. *)
StubPair(t) ==
  /\ At(t, "stub", "pair")
  /\ Become(t, [Top(t) EXCEPT !.at = "finish", !.saved = errno[t]])
  /\ UNCHANGED <<master, errno, registration>>

StubFinish(t) ==
  /\ At(t, "stub", "finish")
  /\ stack' = [stack EXCEPT ![t] = Front(@)]
  /\ UNCHANGED <<master, errno, registration>>

StubStep(t) == \/ StubClear(t) \/ StubRelease(t) \/ StubReturns(t) \/ StubAcquire(t)
               \/ StubPair(t) \/ StubFinish(t)
               \/ \E lock \in BOOLEAN : StubCall(t, lock)

StubSpec == Init /\ [][Next \/ \E t \in Threads : StubStep(t)]_vars

-----------------------------------------------------------------------------
(* The errno a stub returns is the one the C function left, 0 if it left   *)
(* none ("Generate code that returns errno in addition to the return value *)
(* of each function", cstubs.mli:33).                                      *)
StubErrnoIsCallees ==
  \A t \in Threads : At(t, "stub", "finish") => Top(t).saved = Top(t).left
=============================================================================
