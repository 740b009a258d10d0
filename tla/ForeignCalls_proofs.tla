------------------------ MODULE ForeignCalls_proofs ------------------------
(***************************************************************************)
(* The safety of ForeignCalls, and of StubCalls, for any number of         *)
(* threads, any depth of calls and callbacks, and any number of TLS keys:  *)
(* an invariant of the whole stack of each thread, and that every step     *)
(* preserves it.  It has the set K of the kinds of frame as a parameter:   *)
(* one proof for programs with generated stubs and without.                *)
(***************************************************************************)
EXTENDS StubCalls, SequenceTheorems, WellFoundedInduction, TLAPS

(* What replacing, pushing and dropping frames does to a stack.            *)
LEMMA LastFront ==
  ASSUME NEW S, NEW s \in Seq(S), s # <<>>
  PROVE  /\ Len(s) \in Nat \ {0}
         /\ Last(s) = s[Len(s)] /\ Last(s) \in S
         /\ Front(s) \in Seq(S) /\ Len(Front(s)) = Len(s) - 1
         /\ \A i \in 1..(Len(s) - 1) : Front(s)[i] = s[i]
<1>1. Len(s) \in Nat \ {0} /\ \A i \in 1..Len(s) : s[i] \in S
  BY EmptySeq, ElementOfSeq
<1>2. Last(s) = s[Len(s)] /\ Last(s) \in S
  BY <1>1 DEF Last
<1>3. /\ Front(s) \in Seq(S)
      /\ Len(Front(s)) = IF 1 <= Len(s) - 1 THEN Len(s) - 1 - 1 + 1 ELSE 0
      /\ \A i \in 1..(Len(s) - 1 - 1 + 1) : Front(s)[i] = s[1 + i - 1]
  BY <1>1, SubSeqProperties DEF Front
<1>4. Len(Front(s)) = Len(s) - 1
  <2>1. PICK n \in Nat \ {0} : n = Len(s)
    BY <1>1
  <2>2. Len(Front(s)) = IF 1 <= n - 1 THEN n - 1 - 1 + 1 ELSE 0
    BY <2>1, <1>3
  <2>3. Len(Front(s)) = n - 1
    BY <2>2
  <2> QED BY <2>1, <2>3
<1>5. ASSUME NEW i \in 1..(Len(s) - 1) PROVE Front(s)[i] = s[i]
  <2>1. 1 + i - 1 = i /\ i \in 1..(Len(s) - 1 - 1 + 1)
    BY <1>1
  <2> QED BY <2>1, <1>3
<1> QED BY <1>1, <1>2, <1>3, <1>4, <1>5

LEMMA Replaced ==
  ASSUME NEW S, NEW s \in Seq(S), s # <<>>, NEW f \in S
  PROVE  LET r == Append(Front(s), f) IN
         /\ r \in Seq(S) /\ r # <<>> /\ Len(r) = Len(s) /\ Last(r) = f
         /\ r[Len(s)] = f
         /\ \A i \in 1..(Len(s) - 1) : r[i] = s[i]
<1> DEFINE q == Front(s)
<1>1. /\ Len(s) \in Nat \ {0} /\ q \in Seq(S) /\ Len(q) = Len(s) - 1
      /\ \A i \in 1..(Len(s) - 1) : q[i] = s[i]
  BY LastFront
<1> HIDE DEF q
<1>2. /\ Append(q, f) \in Seq(S) /\ Append(q, f) # <<>> /\ Len(Append(q, f)) = Len(q) + 1
      /\ \A i \in 1..Len(q) : Append(q, f)[i] = q[i]
      /\ Append(q, f)[Len(q) + 1] = f
  BY <1>1, AppendProperties
<1>3. Last(Append(q, f)) = f
  BY <1>1, <1>2 DEF Last
<1> QED BY <1>1, <1>2, <1>3 DEF q

LEMMA Pushed ==
  ASSUME NEW S, NEW s \in Seq(S), s # <<>>, NEW f \in S, NEW g \in S
  PROVE  LET r == Append(Front(s), f) \o <<g>> IN
         /\ r \in Seq(S) /\ r # <<>> /\ Len(r) = Len(s) + 1 /\ Last(r) = g
         /\ r[Len(s) + 1] = g /\ r[Len(s)] = f
         /\ \A i \in 1..(Len(s) - 1) : r[i] = s[i]
<1> DEFINE q == Append(Front(s), f)
<1>1. q \in Seq(S) /\ Len(q) = Len(s) /\ q[Len(s)] = f /\ \A i \in 1..(Len(s) - 1) : q[i] = s[i]
  BY Replaced
<1>2. Len(s) \in Nat \ {0}
  BY LastFront
<1> HIDE DEF q
<1>3. /\ Append(q, g) \in Seq(S) /\ Append(q, g) # <<>> /\ Len(Append(q, g)) = Len(q) + 1
      /\ \A i \in 1..Len(q) : Append(q, g)[i] = q[i]
      /\ Append(q, g)[Len(q) + 1] = g
  BY <1>1, AppendProperties
<1>4. Last(Append(q, g)) = g
  BY <1>1, <1>2, <1>3 DEF Last
<1>5. Append(q, g) = q \o <<g>>
  BY <1>1, AppendIsConcat
<1>6. /\ q \o <<g>> \in Seq(S) /\ q \o <<g>> # <<>> /\ Len(q \o <<g>>) = Len(s) + 1
      /\ Last(q \o <<g>>) = g
      /\ (q \o <<g>>)[Len(s) + 1] = g /\ (q \o <<g>>)[Len(s)] = f
      /\ \A i \in 1..(Len(s) - 1) : (q \o <<g>>)[i] = s[i]
  BY <1>1, <1>2, <1>3, <1>4, <1>5
<1> QED BY <1>6 DEF q

LEMMA PrefixOf ==
  ASSUME NEW S, NEW s \in Seq(S), NEW m \in 1..Len(s)
  PROVE  LET r == SubSeq(s, 1, m) IN
         /\ r \in Seq(S) /\ r # <<>> /\ Len(r) = m /\ Last(r) = s[m]
         /\ \A i \in 1..m : r[i] = s[i]
<1>1. Len(s) \in Nat /\ \A i \in 1..Len(s) : s[i] \in S
  BY LenProperties, ElementOfSeq
<1>2. /\ SubSeq(s, 1, m) \in Seq(S)
      /\ Len(SubSeq(s, 1, m)) = IF 1 <= m THEN m - 1 + 1 ELSE 0
      /\ \A i \in 1..(m - 1 + 1) : SubSeq(s, 1, m)[i] = s[1 + i - 1]
  BY <1>1, SubSeqProperties
<1>3. /\ Len(SubSeq(s, 1, m)) = m /\ SubSeq(s, 1, m) # <<>>
      /\ \A i \in 1..m : SubSeq(s, 1, m)[i] = s[i]
  BY <1>1, <1>2
<1> QED BY <1>1, <1>2, <1>3 DEF Last

LEMMA Dropped ==
  ASSUME NEW S, NEW s \in Seq(S), Len(s) > 1, NEW f \in S
  PROVE  LET r == Append(Front(Front(s)), f) IN
         /\ r \in Seq(S) /\ r # <<>> /\ Len(r) = Len(s) - 1 /\ Last(r) = f
         /\ r[Len(s) - 1] = f /\ Last(Front(s)) = s[Len(s) - 1]
         /\ \A i \in 1..(Len(s) - 2) : r[i] = s[i]
<1> DEFINE q == Front(s)
           r == Append(Front(q), f)
<1>1. s # <<>> /\ Len(s) \in Nat
  BY LenProperties
<1>2. /\ q \in Seq(S) /\ Len(q) = Len(s) - 1
      /\ \A i \in 1..(Len(s) - 1) : q[i] = s[i]
  BY <1>1, LastFront
<1> HIDE DEF q
<1>3. q # <<>>
  BY <1>2, <1>1
<1>4. /\ r \in Seq(S) /\ r # <<>> /\ Len(r) = Len(q) /\ Last(r) = f
      /\ r[Len(q)] = f /\ \A i \in 1..(Len(q) - 1) : r[i] = q[i]
  BY <1>2, <1>3, Replaced
<1>5. Last(q) = q[Len(q)]
  BY DEF Last
<1> HIDE DEF r
<1>6. /\ r \in Seq(S) /\ r # <<>> /\ Len(r) = Len(s) - 1 /\ Last(r) = f
      /\ r[Len(s) - 1] = f /\ Last(q) = s[Len(s) - 1]
      /\ \A i \in 1..(Len(s) - 2) : r[i] = s[i]
  BY <1>1, <1>2, <1>4, <1>5
<1> QED BY <1>6 DEF q, r

LEMMA SeqOfElements ==
  ASSUME NEW S, NEW R, NEW s \in Seq(R), \A i \in 1..Len(s) : s[i] \in S
  PROVE  s \in Seq(S)
<1>1. PICK n \in Nat : n = Len(s) /\ s \in [1..n -> R]
  BY LenProperties
<1>2. s \in [1..n -> S]
  BY <1>1
<1> QED BY <1>1, <1>2, SeqDef

-----------------------------------------------------------------------------
(* The invariant *)

(* The kinds of frame: without generated stubs, and with them.             *)
CallKinds == {"ocaml", "call", "thread", "handler"}
StubKinds == CallKinds \cup {"stub"}
KindSets  == {CallKinds, StubKinds}

Places == Points \cup {"pair"}

Frames(K) == [k : K, at : Places, lock : BOOLEAN, chk : BOOLEAN, saved : Errnos, left : Errnos]

(* Where a frame of each kind can be.                                      *)
PointsOf(k) == CASE k = "ocaml"   -> {"run", "wait"}
                 [] k = "call"    -> {"release", "clear", "C", "save", "acquire", "finish"}
                 [] k = "handler" -> {"register", "create", "set", "acquire", "locked", "release"}
                 [] k = "thread"  -> {"C"}
                 [] k = "stub"    -> {"clear", "release", "C", "acquire", "pair", "finish"}

(* Holds, for stubs too: they run with the lock but for the C function and *)
(* what is around it.                                                      *)
Owns(f) ==
  IF f.k = "stub" THEN f.at \in {"clear", "release", "pair", "finish"} \/ ~f.lock ELSE Holds(f)

(* Frame g runs on top of f.  A callback takes the lock exactly when the C *)
(* code that made it does not hold it: giving it back restores the balance. *)
Under(f, g) ==
  \/ g.k = "ocaml" /\ f.k = "handler" /\ f.at = "locked"
  \/ g.k \in {"call", "stub"} /\ f.k = "ocaml" /\ f.at = "run"
  \/ g.k = "handler" /\ f.k \in {"call", "thread", "stub"} /\ f.at = "C" /\ (g.lock <=> ~Owns(f))

Bottom(t) == IF t \in OcamlThreads THEN "ocaml" ELSE "thread"

Shape(s, b, K) ==
  /\ s \in Seq(Frames(K))
  /\ \A i \in 1..Len(s) : s[i].at \in PointsOf(s[i].k)
  /\ \A i \in 1..(Len(s) - 1) : Under(s[i], s[i+1])
  /\ s # <<>> => s[1].k = b /\ Last(s).at # "locked"

(* A callback is past its registration.                                    *)
Entered(s) == \E i \in 1..Len(s) : s[i].k = "handler" /\ s[i].at # "register"

(* What the innermost frame of a thread knows of errno e.  A stub that     *)
(* releases the lock knows nothing.                                        *)
ErrnoKept(f, e) ==
  /\ f.k = "call" /\ f.chk =>
       /\ f.at \in {"release", "clear"} => f.left = 0
       /\ f.at \in {"C", "save"} => f.left = e
       /\ f.at \in {"acquire", "finish"} => f.saved = f.left
  /\ f.k = "stub" /\ ~f.lock =>
       /\ f.at \in {"clear", "release"} => f.left = 0
       /\ f.at = "release" => e = 0
       /\ f.at \in {"C", "acquire", "pair"} => f.left = e
       /\ f.at = "finish" => f.saved = f.left

Registering(t) == At(t, "handler", "create") \/ At(t, "handler", "set")

ThreadInv(t, K) ==
  /\ Shape(stack[t], Bottom(t), K)
  /\ t \in OcamlThreads => stack[t] # <<>> /\ t \in registered
  /\ Entered(stack[t]) => t \in registered
  /\ stack[t] # <<>> => ErrnoKept(Top(t), errno[t])
  /\ t \in registered \ OcamlThreads => stack[t] # <<>> /\ (specific[t] # {} \/ Registering(t))
  /\ At(t, "handler", "set") => cleanup_key # 0

(* TypeOK, but for the kinds and places of the frames.                     *)
Typed(K) ==
  /\ stack \in [Threads -> Seq(Frames(K))]
  /\ master \in Threads \cup {NoThread}
  /\ errno \in [Threads -> Errnos]
  /\ registered \subseteq Threads
  /\ keys \in 0..MaxKeys /\ cleanup_key \in 0..keys
  /\ specific \in [Threads -> SUBSET Keys]

Balanced == \A t \in Threads : master = t <=> stack[t] # <<>> /\ Owns(Top(t))

KeyInv == keys # 0 => cleanup_key # 0

IInv(K) == Typed(K) /\ Balanced /\ KeyInv /\ \A t \in Threads : ThreadInv(t, K)

(* The frames of a program without stubs may be on any stack.              *)
LEMMA KindsIn ==
  ASSUME NEW K \in KindSets
  PROVE  /\ "ocaml" \in K /\ "call" \in K /\ "thread" \in K /\ "handler" \in K
         /\ \A k \in K : k \in {"ocaml", "call", "thread", "handler", "stub"}
  BY DEF KindSets, CallKinds, StubKinds

-----------------------------------------------------------------------------
(* Stacks keep their shape *)

(* The innermost frame goes on.                                            *)
LEMMA ShapeTop ==
  ASSUME NEW K \in KindSets, NEW s, NEW b, Shape(s, b, K), s # <<>>, NEW f \in Frames(K),
         f.k = Last(s).k, f.lock = Last(s).lock, f.at \in PointsOf(f.k), f.at # "locked"
  PROVE  LET r == Append(Front(s), f) IN
         /\ Shape(r, b, K) /\ r # <<>> /\ Last(r) = f
         /\ Entered(r) => Entered(s) \/ (f.k = "handler" /\ f.at # "register")
<1> DEFINE r == Append(Front(s), f)
<1>1. /\ r \in Seq(Frames(K)) /\ r # <<>> /\ Len(r) = Len(s) /\ Last(r) = f /\ r[Len(s)] = f
      /\ \A i \in 1..(Len(s) - 1) : r[i] = s[i]
  BY Replaced DEF Shape
<1>2. PICK n \in Nat \ {0} : n = Len(s) /\ Last(s) = s[n]
  BY LastFront DEF Shape
<1> HIDE DEF r
<1>3. ASSUME NEW i \in 1..n PROVE r[i].at \in PointsOf(r[i].k)
  BY <1>1, <1>2 DEF Shape
<1>4. ASSUME NEW i \in 1..(n - 1) PROVE Under(r[i], r[i+1])
  <2>1. Under(s[i], s[i+1]) /\ r[i] = s[i]
    BY <1>1, <1>2 DEF Shape
  <2>2. CASE i + 1 = n
    BY <2>1, <2>2, <1>1, <1>2 DEF Under
  <2>3. CASE i + 1 # n
    BY <2>1, <2>3, <1>1, <1>2
  <2> QED BY <2>2, <2>3
<1>5. r[1].k = b
  BY <1>1, <1>2 DEF Shape
<1>6. Shape(r, b, K)
  BY <1>1, <1>2, <1>3, <1>4, <1>5 DEF Shape
<1>7. Entered(r) => Entered(s) \/ (f.k = "handler" /\ f.at # "register")
  BY <1>1, <1>2 DEF Entered
<1> QED BY <1>1, <1>6, <1>7 DEF r

(* A frame g starts on top of the innermost one.                           *)
LEMMA ShapePush ==
  ASSUME NEW K \in KindSets, NEW s, NEW b, Shape(s, b, K), s # <<>>,
         NEW f \in Frames(K), NEW g \in Frames(K),
         f.k = Last(s).k, f.lock = Last(s).lock, f.at \in PointsOf(f.k), Under(f, g),
         g.at \in PointsOf(g.k), g.at # "locked"
  PROVE  LET r == Append(Front(s), f) \o <<g>> IN
         /\ Shape(r, b, K) /\ r # <<>> /\ Last(r) = g
         /\ Entered(r) => \/ Entered(s)
                          \/ f.k = "handler" /\ f.at # "register"
                          \/ g.k = "handler" /\ g.at # "register"
<1> DEFINE r == Append(Front(s), f) \o <<g>>
<1>1. /\ r \in Seq(Frames(K)) /\ r # <<>> /\ Len(r) = Len(s) + 1 /\ Last(r) = g
      /\ r[Len(s) + 1] = g /\ r[Len(s)] = f
      /\ \A i \in 1..(Len(s) - 1) : r[i] = s[i]
  BY Pushed DEF Shape
<1>2. PICK n \in Nat \ {0} : n = Len(s) /\ Last(s) = s[n]
  BY LastFront DEF Shape
<1> HIDE DEF r
<1>3. ASSUME NEW i \in 1..(n + 1) PROVE r[i].at \in PointsOf(r[i].k)
  BY <1>1, <1>2 DEF Shape
<1>4. ASSUME NEW i \in 1..n PROVE Under(r[i], r[i+1])
  <2>1. CASE i = n
    BY <2>1, <1>1, <1>2
  <2>2. CASE i = n - 1
    <3>1. Under(s[i], s[i+1]) /\ r[i] = s[i] /\ r[i+1] = f
      BY <1>1, <1>2, <2>2 DEF Shape
    <3> QED BY <3>1, <1>2, <2>2 DEF Under
  <2>3. CASE i < n - 1
    BY <2>3, <1>1, <1>2 DEF Shape
  <2> QED BY <2>1, <2>2, <2>3
<1>5. r[1].k = b
  BY <1>1, <1>2 DEF Shape
<1>6. Shape(r, b, K)
  BY <1>1, <1>2, <1>3, <1>4, <1>5 DEF Shape
<1>7. Entered(r) => \/ Entered(s)
                    \/ f.k = "handler" /\ f.at # "register"
                    \/ g.k = "handler" /\ g.at # "register"
  BY <1>1, <1>2 DEF Entered
<1> QED BY <1>1, <1>6, <1>7 DEF r

(* The innermost frame ends, and the one below goes on as f.               *)
LEMMA ShapeDrop ==
  ASSUME NEW K \in KindSets, NEW s, NEW b, Shape(s, b, K), Len(s) > 1, NEW f \in Frames(K),
         f.k = Last(Front(s)).k, f.lock = Last(Front(s)).lock,
         f.at \in PointsOf(f.k), f.at # "locked"
  PROVE  LET r == Append(Front(Front(s)), f) IN
         /\ Shape(r, b, K) /\ r # <<>> /\ Last(r) = f
         /\ Entered(r) => Entered(s) \/ (f.k = "handler" /\ f.at # "register")
<1> DEFINE r == Append(Front(Front(s)), f)
<1>1. /\ r \in Seq(Frames(K)) /\ r # <<>> /\ Len(r) = Len(s) - 1 /\ Last(r) = f
      /\ r[Len(s) - 1] = f /\ Last(Front(s)) = s[Len(s) - 1]
      /\ \A i \in 1..(Len(s) - 2) : r[i] = s[i]
  BY Dropped DEF Shape
<1>2. PICK n \in Nat : n = Len(s) /\ n > 1
  BY LenProperties DEF Shape
<1> HIDE DEF r
<1>3. ASSUME NEW i \in 1..(n - 1) PROVE r[i].at \in PointsOf(r[i].k)
  BY <1>1, <1>2 DEF Shape
<1>4. ASSUME NEW i \in 1..(n - 2) PROVE Under(r[i], r[i+1])
  <2>1. Under(s[i], s[i+1]) /\ r[i] = s[i]
    BY <1>1, <1>2 DEF Shape
  <2>2. CASE i + 1 = n - 1
    <3>1. r[i+1] = f /\ s[i+1] = Last(Front(s))
      BY <1>1, <1>2, <2>2
    <3> QED BY <2>1, <3>1 DEF Under
  <2>3. CASE i + 1 # n - 1
    BY <2>1, <2>3, <1>1, <1>2
  <2> QED BY <2>2, <2>3
<1>5. r[1].k = b
  BY <1>1, <1>2 DEF Shape
<1>6. Shape(r, b, K)
  BY <1>1, <1>2, <1>3, <1>4, <1>5 DEF Shape
<1>7. Entered(r) => Entered(s) \/ (f.k = "handler" /\ f.at # "register")
  BY <1>1, <1>2 DEF Entered
<1> QED BY <1>1, <1>6, <1>7 DEF r

(* Frames(K) are skipped down to m.                                           *)
LEMMA ShapePrefix ==
  ASSUME NEW K \in KindSets, NEW s, NEW b, Shape(s, b, K), NEW m \in 1..Len(s), s[m].at # "locked"
  PROVE  LET r == SubSeq(s, 1, m) IN
         /\ Shape(r, b, K) /\ r # <<>> /\ Last(r) = s[m]
         /\ Entered(r) => Entered(s)
<1> DEFINE r == SubSeq(s, 1, m)
<1>1. /\ r \in Seq(Frames(K)) /\ r # <<>> /\ Len(r) = m /\ Last(r) = s[m]
      /\ \A i \in 1..m : r[i] = s[i]
  BY PrefixOf DEF Shape
<1>2. PICK n \in Nat : n = Len(s)
  BY LenProperties DEF Shape
<1> HIDE DEF r
<1>3. ASSUME NEW i \in 1..m PROVE r[i].at \in PointsOf(r[i].k)
  BY <1>1, <1>2 DEF Shape
<1>4. ASSUME NEW i \in 1..(m - 1) PROVE Under(r[i], r[i+1])
  BY <1>1, <1>2 DEF Shape
<1>5. r[1].k = b
  <2>1. s # <<>>
    BY EmptySeq
  <2> QED BY <1>1, <1>2, <2>1 DEF Shape
<1>6. Shape(r, b, K)
  BY <1>1, <1>3, <1>4, <1>5 DEF Shape
<1>7. Entered(r) => Entered(s)
  BY <1>1, <1>2 DEF Entered
<1> QED BY <1>1, <1>6, <1>7 DEF r

(* What is below the innermost frame of a stack.                           *)
LEMMA ShapeBelow ==
  ASSUME NEW K \in KindSets, NEW s, NEW b \in {"ocaml", "thread"}, Shape(s, b, K), s # <<>>
  PROVE  /\ Last(s) \in Frames(K) /\ Last(s).at \in PointsOf(Last(s).k)
         /\ Last(s).k # b => Len(s) > 1
         /\ Len(s) > 1 => /\ Last(Front(s)) = s[Len(s) - 1] /\ Last(Front(s)) \in Frames(K)
                          /\ Under(Last(Front(s)), Last(s))
         /\ Last(s).k = "handler" /\ Last(s).at # "register" => Entered(s)
         /\ Last(s).k = "ocaml" /\ b = "thread" => Entered(s)
<1>1. PICK n \in Nat \ {0} : n = Len(s) /\ Last(s) = s[n] /\ Last(s) \in Frames(K)
  BY LastFront DEF Shape
<1>2. \A i \in 1..n : s[i] \in Frames(K)
  BY <1>1, ElementOfSeq DEF Shape
<1>3. Last(s).at \in PointsOf(Last(s).k) /\ (Last(s).k # b => n > 1)
  BY <1>1 DEF Shape
<1>4. ASSUME n > 1
      PROVE  /\ Last(Front(s)) = s[n - 1] /\ Last(Front(s)) \in Frames(K)
             /\ Under(Last(Front(s)), Last(s))
  <2>1. Last(Front(s)) = s[n - 1]
    BY <1>1, <1>4, Dropped DEF Shape
  <2>2. n - 1 \in 1..(n - 1) /\ n - 1 + 1 = n
    BY <1>4
  <2>3. Under(s[n - 1], s[n])
    BY <2>2, <1>1 DEF Shape
  <2> QED BY <1>1, <1>2, <2>1, <2>2, <2>3
<1>5. Last(s).k = "handler" /\ Last(s).at # "register" => Entered(s)
  BY <1>1 DEF Entered
<1>6. Last(s).k = "ocaml" /\ b = "thread" => Entered(s)
  <2> SUFFICES ASSUME Last(s).k = "ocaml", b = "thread" PROVE Entered(s)
    OBVIOUS
  <2>1. n > 1
    BY <1>3
  <2>2. s[n - 1].k = "handler" /\ s[n - 1].at = "locked"
    BY <2>1, <1>4 DEF Under
  <2> QED BY <2>1, <2>2, <1>1 DEF Entered
<1> QED BY <1>1, <1>3, <1>4, <1>5, <1>6

-----------------------------------------------------------------------------
(* Steps of one thread *)

(* What a step of t must establish for the invariant to hold again: the    *)
(* invariant of t, that it left the other threads alone, and that it took  *)
(* or gave back the lock as its innermost frame says.                      *)
LEMMA ThreadStep ==
  ASSUME NEW K \in KindSets, IInv(K), NEW t \in Threads, NEW r,
         stack' = [stack EXCEPT ![t] = r], Shape(r, Bottom(t), K),
         r = <<>> => t \notin OcamlThreads /\ t \notin registered',
         errno' \in [Threads -> Errnos], \A u \in Threads \ {t} : errno'[u] = errno[u],
         r # <<>> => ErrnoKept(Last(r), errno'[t]),
         master' = t <=> r # <<>> /\ Owns(Last(r)),
         master' = master \/ (master = NoThread /\ master' = t)
           \/ (master = t /\ master' = NoThread),
         registered' \subseteq Threads, registered' \ {t} = registered \ {t},
         specific' \in [Threads -> SUBSET Keys],
         \A u \in Threads \ {t} : specific'[u] = specific[u],
         keys' \in 0..MaxKeys, cleanup_key' \in 0..keys', keys' # 0 => cleanup_key' # 0,
         cleanup_key # 0 => cleanup_key' # 0,
         Entered(r) => t \in registered', t \in OcamlThreads => t \in registered',
         t \in registered' \ OcamlThreads =>
           specific'[t] # {} \/ (Last(r).k = "handler" /\ Last(r).at \in {"create", "set"}),
         r # <<>> /\ Last(r).k = "handler" /\ Last(r).at = "set" => cleanup_key' # 0
  PROVE  IInv(K)'
<1> USE DEF IInv
<1>1. stack'[t] = r /\ \A u \in Threads \ {t} : stack'[u] = stack[u]
  BY DEF Typed
<1>2. Typed(K)'
  <2>1. \A u \in Threads : stack'[u] \in Seq(Frames(K))
    BY <1>1 DEF Typed, Shape, Frames
  <2>2. master' \in Threads \cup {NoThread}
    BY DEF Typed
  <2> QED BY <2>1, <2>2 DEF Typed, Frames
<1>3. Balanced'
  <2> SUFFICES ASSUME NEW u \in Threads
               PROVE (master = u <=> stack[u] # <<>> /\ Owns(Top(u)))'
    BY DEF Balanced
  <2>1. CASE u = t
    BY <2>1, <1>1 DEF Top
  <2>2. CASE u # t
    <3>1. master' = u <=> master = u
      BY <2>2, CallConstants
    <3>2. master = u <=> stack[u] # <<>> /\ Owns(Top(u))
      BY DEF Balanced
    <3> QED BY <1>1, <2>2, <3>1, <3>2 DEF Top
  <2> QED BY <2>1, <2>2
<1>4. KeyInv'
  BY DEF KeyInv
<1>5. ASSUME NEW u \in Threads PROVE ThreadInv(u, K)'
  <2>1. CASE u = t
    <3>1. Shape(r, Bottom(t), K) /\ stack'[u] = r
      BY <2>1, <1>1
    <3> QED BY <2>1, <3>1 DEF ThreadInv, Top, At, Registering, Bottom
  <2>2. CASE u # t
    <3>1. stack'[u] = stack[u] /\ errno'[u] = errno[u] /\ specific'[u] = specific[u]
      BY <1>1, <2>2
    <3>2. u \in registered' <=> u \in registered
      BY <2>2
    <3> QED BY <3>1, <3>2 DEF ThreadInv, Top, At, Registering, Bottom
  <2> QED BY <2>1, <2>2
<1> QED BY <1>2, <1>3, <1>4, <1>5

(* The same for a step that does not touch the registration of threads.    *)
LEMMA FrameStep ==
  ASSUME NEW K \in KindSets, IInv(K), NEW t \in Threads, NEW r, stack[t] # <<>>, ~Registering(t),
         stack' = [stack EXCEPT ![t] = r], Shape(r, Bottom(t), K), r # <<>>,
         UNCHANGED registration,
         errno' \in [Threads -> Errnos], \A u \in Threads \ {t} : errno'[u] = errno[u],
         ErrnoKept(Last(r), errno'[t]),
         master' = t <=> Owns(Last(r)),
         master' = master \/ (master = NoThread /\ master' = t)
           \/ (master = t /\ master' = NoThread),
         Entered(r) => Entered(stack[t]) \/ t \in registered,
         Last(r).k = "handler" => Last(r).at \notin {"create", "set"}
  PROVE  IInv(K)'
<1>1. Typed(K) /\ KeyInv /\ ThreadInv(t, K)
  BY DEF IInv
<1>2. /\ registered' = registered /\ keys' = keys /\ cleanup_key' = cleanup_key
      /\ specific' = specific
  BY DEF registration
<1>3. /\ Entered(r) => t \in registered'
      /\ t \in OcamlThreads => t \in registered'
      /\ t \in registered' \ OcamlThreads => specific'[t] # {}
  BY <1>1, <1>2 DEF ThreadInv
<1>4. /\ registered' \subseteq Threads /\ registered' \ {t} = registered \ {t}
      /\ specific' \in [Threads -> SUBSET Keys]
      /\ \A u \in Threads \ {t} : specific'[u] = specific[u]
      /\ keys' \in 0..MaxKeys /\ cleanup_key' \in 0..keys'
      /\ keys' # 0 => cleanup_key' # 0
      /\ cleanup_key # 0 => cleanup_key' # 0
  BY <1>1, <1>2 DEF Typed, KeyInv
<1> QED BY <1>3, <1>4, ThreadStep

(* The innermost frame of a thread, and what the invariant says of it.     *)
LEMMA TopFacts ==
  ASSUME NEW K \in KindSets, IInv(K), NEW t \in Threads, stack[t] # <<>>
  PROVE  /\ Shape(stack[t], Bottom(t), K) /\ stack[t] \in Seq(Frames(K))
         /\ Top(t) \in Frames(K) /\ Top(t).at \in PointsOf(Top(t).k) /\ Top(t).at # "locked"
         /\ Top(t).k # Bottom(t) => Len(stack[t]) > 1
         /\ Len(stack[t]) > 1 => /\ Last(Front(stack[t])) \in Frames(K)
                                 /\ Under(Last(Front(stack[t])), Top(t))
         /\ master = t <=> Owns(Top(t))
         /\ ErrnoKept(Top(t), errno[t])
         /\ errno \in [Threads -> Errnos]
         /\ Top(t).k = "ocaml" => t \in registered
         /\ Top(t).k = "handler" /\ Top(t).at # "register" => t \in registered
         /\ t \notin registered => t \notin OcamlThreads
<1>1. Typed(K) /\ ThreadInv(t, K) /\ Balanced
  BY DEF IInv
<1>2. Shape(stack[t], Bottom(t), K) /\ Bottom(t) \in {"ocaml", "thread"}
  BY <1>1 DEF ThreadInv, Bottom
<1>3. /\ Top(t) \in Frames(K) /\ Top(t).at \in PointsOf(Top(t).k)
      /\ Top(t).k # Bottom(t) => Len(stack[t]) > 1
      /\ Len(stack[t]) > 1 => /\ Last(Front(stack[t])) \in Frames(K)
                              /\ Under(Last(Front(stack[t])), Top(t))
      /\ Top(t).k = "handler" /\ Top(t).at # "register" => Entered(stack[t])
      /\ Top(t).k = "ocaml" /\ Bottom(t) = "thread" => Entered(stack[t])
  BY <1>2, ShapeBelow DEF Top
<1>4. Top(t).at # "locked" /\ stack[t] \in Seq(Frames(K))
  BY <1>2 DEF Shape, Top
<1>5. (master = t <=> Owns(Top(t))) /\ ErrnoKept(Top(t), errno[t])
  BY <1>1 DEF Balanced, ThreadInv
<1>6. errno \in [Threads -> Errnos]
  BY <1>1 DEF Typed
<1>7. /\ Entered(stack[t]) => t \in registered
      /\ t \in OcamlThreads => t \in registered
  BY <1>1 DEF ThreadInv
<1>8. Top(t).k = "ocaml" => t \in registered
  BY <1>3, <1>7 DEF Bottom
<1> QED BY <1>2, <1>3, <1>4, <1>5, <1>6, <1>7, <1>8

(* Every step of a thread that only moves its innermost frame on.          *)
LEMMA MoveStep ==
  ASSUME NEW K \in KindSets, IInv(K), NEW t \in Threads, stack[t] # <<>>, ~Registering(t),
         NEW f \in Frames(K), Become(t, f),
         f.k = Top(t).k, f.lock = Top(t).lock, f.at \in PointsOf(f.k),
         f.at \notin {"locked", "create", "set"},
         f.k = "handler" => Top(t).at # "register" \/ t \in registered,
         UNCHANGED registration,
         errno' \in [Threads -> Errnos], \A u \in Threads \ {t} : errno'[u] = errno[u],
         ErrnoKept(f, errno'[t]),
         master' = t <=> Owns(f),
         master' = master \/ (master = NoThread /\ master' = t)
           \/ (master = t /\ master' = NoThread)
  PROVE  IInv(K)'
<1> DEFINE r == Append(Front(stack[t]), f)
<1>1. /\ Typed(K) /\ Shape(stack[t], Bottom(t), K)
      /\ Top(t).k = "handler" /\ Top(t).at # "register" => t \in registered
  BY TopFacts DEF IInv
<1>2. /\ Shape(r, Bottom(t), K) /\ r # <<>> /\ Last(r) = f
      /\ Entered(r) => Entered(stack[t]) \/ f.k = "handler"
  BY <1>1, ShapeTop DEF Top
<1>3. stack' = [stack EXCEPT ![t] = r]
  BY DEF Become
<1> HIDE DEF r
<1>4. Entered(r) => Entered(stack[t]) \/ t \in registered
  BY <1>1, <1>2
<1> QED BY <1>2, <1>3, <1>4, FrameStep

(* A frame that only changes where it is.                                  *)
LEMMA MovedTo ==
  ASSUME NEW K, NEW f \in Frames(K), NEW a \in Places
  PROVE  LET g == [f EXCEPT !.at = a] IN
         /\ g \in Frames(K) /\ g.k = f.k /\ g.at = a /\ g.lock = f.lock /\ g.chk = f.chk
         /\ g.saved = f.saved /\ g.left = f.left
  BY DEF Frames

-----------------------------------------------------------------------------
(* OCaml code *)

LEMMA YieldKeeps ==
  ASSUME NEW K \in KindSets, IInv(K), NEW t \in Threads, Yield(t)
  PROVE  IInv(K)'
<1> DEFINE f == [Top(t) EXCEPT !.at = "wait"]
<1>1. stack[t] # <<>> /\ Top(t).k = "ocaml" /\ Top(t).at = "run"
  BY DEF Yield, At
<1>2. Top(t) \in Frames(K) /\ master = t /\ errno \in [Threads -> Errnos]
  BY <1>1, TopFacts DEF Owns, Holds
<1>3. f \in Frames(K) /\ f.k = "ocaml" /\ f.at = "wait" /\ f.lock = Top(t).lock
  <2>1. "wait" \in Places
    BY DEF Places, Points
  <2> QED BY <1>1, <1>2, <2>1, MovedTo
<1>4. Become(t, f) /\ master' = NoThread /\ errno' = errno /\ UNCHANGED registration
  BY DEF Yield, Goto
<1> HIDE DEF f
<1>5. ErrnoKept(f, errno'[t]) /\ ~Owns(f) /\ f.at \in PointsOf(f.k)
  BY <1>3 DEF ErrnoKept, Owns, Holds, PointsOf
<1>6. ~Registering(t)
  BY <1>1 DEF Registering, At
<1> QED BY <1>1, <1>2, <1>3, <1>4, <1>5, <1>6, CallConstants, MoveStep

LEMMA ResumeKeeps ==
  ASSUME NEW K \in KindSets, IInv(K), NEW t \in Threads, Resume(t)
  PROVE  IInv(K)'
<1> DEFINE f == [Top(t) EXCEPT !.at = "run"]
<1>1. stack[t] # <<>> /\ Top(t).k = "ocaml" /\ Top(t).at = "wait"
  BY DEF Resume, At
<1>2. Top(t) \in Frames(K) /\ errno \in [Threads -> Errnos]
  BY <1>1, TopFacts
<1>3. f \in Frames(K) /\ f.k = "ocaml" /\ f.at = "run" /\ f.lock = Top(t).lock
  <2>1. "run" \in Places
    BY DEF Places, Points
  <2> QED BY <1>1, <1>2, <2>1, MovedTo
<1>4. /\ Become(t, f) /\ master = NoThread /\ master' = t /\ errno' = errno
      /\ UNCHANGED registration
  BY DEF Resume, Goto, Acquire
<1> HIDE DEF f
<1>5. ErrnoKept(f, errno'[t]) /\ Owns(f) /\ f.at \in PointsOf(f.k)
  BY <1>3 DEF ErrnoKept, Owns, Holds, PointsOf
<1>6. ~Registering(t)
  BY <1>1 DEF Registering, At
<1> QED BY <1>1, <1>2, <1>3, <1>4, <1>5, <1>6, MoveStep

LEMMA OcamlErrnoKeeps ==
  ASSUME NEW K \in KindSets, IInv(K), NEW t \in Threads, NEW e \in Errnos, OcamlErrno(t, e)
  PROVE  IInv(K)'
<1>1. stack[t] # <<>> /\ Top(t).k = "ocaml" /\ Top(t).at = "run"
  BY DEF OcamlErrno, At
<1>2. /\ Shape(stack[t], Bottom(t), K) /\ stack[t] # <<>> /\ Top(t) = Last(stack[t])
      /\ errno \in [Threads -> Errnos] /\ (master = t <=> Owns(Top(t)))
  BY <1>1, TopFacts DEF Top
<1>3. /\ stack' = stack /\ master' = master /\ UNCHANGED registration
      /\ errno' = [errno EXCEPT ![t] = e]
  BY DEF OcamlErrno, SetErrno
<1>4. stack' = [stack EXCEPT ![t] = stack[t]]
  BY <1>3 DEF IInv, Typed
<1>5. ErrnoKept(Top(t), errno'[t]) /\ ~Registering(t)
  BY <1>1 DEF ErrnoKept, Registering, At
<1>6. errno' \in [Threads -> Errnos] /\ \A u \in Threads \ {t} : errno'[u] = errno[u]
  BY <1>2, <1>3
<1> QED BY <1>1, <1>2, <1>3, <1>4, <1>5, <1>6, FrameStep

LEMMA CallKeeps ==
  ASSUME NEW K \in KindSets, IInv(K), NEW t \in Threads,
         NEW lock \in BOOLEAN, NEW chk \in BOOLEAN, Call(t, lock, chk)
  PROVE  IInv(K)'
<1> DEFINE f == [Top(t) EXCEPT !.at = "run"]
           g == Frame("call", "release", lock, chk)
           r == Append(Front(stack[t]), f) \o <<g>>
<1>1. stack[t] # <<>> /\ Top(t).k = "ocaml" /\ Top(t).at = "run"
  BY DEF Call, At
<1>2. /\ Shape(stack[t], Bottom(t), K) /\ Top(t) \in Frames(K) /\ errno \in [Threads -> Errnos]
      /\ master = t
  BY <1>1, TopFacts DEF Owns, Holds
<1>3. f \in Frames(K) /\ f.k = "ocaml" /\ f.at = "run" /\ f.lock = Top(t).lock
  <2>1. "run" \in Places
    BY DEF Places, Points
  <2> QED BY <1>1, <1>2, <2>1, MovedTo
<1>4. g \in Frames(K) /\ g.k = "call" /\ g.at = "release" /\ g.left = 0
  BY KindsIn, CallConstants DEF Frame, Frames, Places, Points
<1>5. /\ stack' = [stack EXCEPT ![t] = r] /\ master' = master /\ errno' = errno
      /\ UNCHANGED registration
  BY DEF Call, Push
<1> HIDE DEF f, g
<1>6. Under(f, g) /\ f.at \in PointsOf(f.k) /\ g.at \in PointsOf(g.k)
  BY <1>3, <1>4 DEF Under, PointsOf
<1>7. Shape(r, Bottom(t), K) /\ r # <<>> /\ Last(r) = g /\ (Entered(r) => Entered(stack[t]))
  BY <1>1, <1>2, <1>3, <1>4, <1>6, ShapePush DEF Top
<1>8. ErrnoKept(g, errno'[t]) /\ Owns(g) /\ ~Registering(t)
  BY <1>1, <1>4 DEF ErrnoKept, Owns, Holds, Registering, At
<1> HIDE DEF r
<1> QED BY <1>1, <1>2, <1>4, <1>5, <1>7, <1>8, FrameStep

LEMMA OcamlReturnsKeeps ==
  ASSUME NEW K \in KindSets, IInv(K), NEW t \in Threads, OcamlReturns(t)
  PROVE  IInv(K)'
<1> DEFINE f == [Last(Front(stack[t])) EXCEPT !.at = "release"]
           r == Append(Front(Front(stack[t])), f)
<1>1. stack[t] # <<>> /\ Top(t).k = "ocaml" /\ Top(t).at = "run" /\ Len(stack[t]) > 1
  BY DEF OcamlReturns, At
<1>2. /\ Shape(stack[t], Bottom(t), K) /\ Last(Front(stack[t])) \in Frames(K)
      /\ Under(Last(Front(stack[t])), Top(t))
      /\ errno \in [Threads -> Errnos] /\ master = t
  BY <1>1, TopFacts DEF Owns, Holds
<1>3. f \in Frames(K) /\ f.k = "handler" /\ f.at = "release" /\ f.lock = Last(Front(stack[t])).lock
  <2>1. "release" \in Places
    BY DEF Places, Points
  <2> QED BY <1>1, <1>2, <2>1, MovedTo DEF Under
<1>4. /\ stack' = [stack EXCEPT ![t] = r] /\ master' = master /\ errno' = errno
      /\ UNCHANGED registration
  BY DEF OcamlReturns
<1>5. Last(Front(stack[t])).k = "handler"
  BY <1>1, <1>2 DEF Under
<1> HIDE DEF f
<1>6. f.at \in PointsOf(f.k) /\ ErrnoKept(f, errno'[t]) /\ Owns(f) /\ ~Registering(t)
  BY <1>1, <1>3 DEF PointsOf, ErrnoKept, Owns, Holds, Registering, At
<1>7. Shape(r, Bottom(t), K) /\ r # <<>> /\ Last(r) = f
  BY <1>1, <1>2, <1>3, <1>5, <1>6, ShapeDrop
<1>8. t \in registered
  BY <1>1, TopFacts
<1> HIDE DEF r
<1> QED BY <1>1, <1>2, <1>3, <1>4, <1>6, <1>7, <1>8, FrameStep

(* A bounded set of numbers has a greatest one.                            *)
LEMMA Greatest ==
  ASSUME NEW n \in Nat, NEW A, A \subseteq 1..n, A # {}
  PROVE  \E i \in A : \A j \in A : j <= i
<1> DEFINE R == OpToRel(<, Nat)
           T == {n - i : i \in A}
<1>1. IsWellFoundedOn(R, Nat)
  BY NatLessThanWellFounded, Zenon
<1>2. T \subseteq Nat /\ T # {}
  <2>1. \A i \in A : n - i \in Nat
    OBVIOUS
  <2> QED BY <2>1
<1>3. \A x, y \in Nat : x < y => <<x, y>> \in R
  BY DEF OpToRel
<1> HIDE DEF R, T
<1>4. PICK x \in T : \A y \in T : ~(<<y, x>> \in R)
  BY <1>1, <1>2, WFMin
<1>5. PICK i \in A : x = n - i
  BY DEF T
<1>6. ASSUME NEW j \in A PROVE j <= i
  <2>1. n - j \in T /\ n - j \in Nat /\ x \in Nat
    BY <1>2 DEF T
  <2>2. ~(n - j < x)
    BY <1>3, <1>4, <2>1
  <2> QED BY <1>5, <2>2
<1> QED BY <1>6

(* The innermost OCaml frame below the top one exists and is running.      *)
LEMMA BelowIsOcaml ==
  ASSUME NEW K \in KindSets, IInv(K), NEW t \in Threads, stack[t] # <<>>, OcamlBelow(t) # 0
  PROVE  /\ OcamlBelow(t) \in 1..(Len(stack[t]) - 1)
         /\ stack[t][OcamlBelow(t)].k = "ocaml" /\ stack[t][OcamlBelow(t)].at = "run"
<1> DEFINE below == {i \in 1..(Len(stack[t]) - 1) : stack[t][i].k = "ocaml"}
<1>1. Shape(stack[t], Bottom(t), K)
  BY TopFacts
<1>2. PICK n \in Nat \ {0} : n = Len(stack[t])
  BY <1>1, LastFront DEF Shape
<1>3. below # {} /\ OcamlBelow(t) = CHOOSE i \in below : \A j \in below : j <= i
  BY DEF OcamlBelow
<1>4. \E i \in below : \A j \in below : j <= i
  <2>1. n - 1 \in Nat /\ below \subseteq 1..(n - 1)
    BY <1>2
  <2> HIDE DEF below
  <2> QED BY <2>1, <1>3, Greatest
<1>5. OcamlBelow(t) \in below
  BY <1>3, <1>4
<1>6. Under(stack[t][OcamlBelow(t)], stack[t][OcamlBelow(t) + 1])
  BY <1>1, <1>5 DEF Shape
<1> QED BY <1>5, <1>6 DEF Under

LEMMA RaiseKeeps ==
  ASSUME NEW K \in KindSets, IInv(K), NEW t \in Threads, Raise(t)
  PROVE  IInv(K)'
<1> DEFINE m == OcamlBelow(t)
           r == SubSeq(stack[t], 1, m)
<1>1. stack[t] # <<>> /\ Top(t).k = "ocaml" /\ Top(t).at = "run" /\ m # 0
  BY DEF Raise, At
<1>2. Shape(stack[t], Bottom(t), K) /\ errno \in [Threads -> Errnos] /\ master = t
  BY <1>1, TopFacts DEF Owns, Holds
<1>3. m \in 1..(Len(stack[t]) - 1) /\ stack[t][m].k = "ocaml" /\ stack[t][m].at = "run"
  BY <1>1, BelowIsOcaml
<1>4. /\ stack' = [stack EXCEPT ![t] = r] /\ master' = master /\ errno' = errno
      /\ UNCHANGED registration
  BY DEF Raise
<1> HIDE DEF m
<1>5. m \in 1..Len(stack[t])
  BY <1>2, <1>3, LenProperties DEF Shape
<1>6. /\ Shape(r, Bottom(t), K) /\ r # <<>> /\ Last(r) = stack[t][m]
      /\ Entered(r) => Entered(stack[t])
  BY <1>2, <1>3, <1>5, ShapePrefix
<1> HIDE DEF r
<1>7. ErrnoKept(Last(r), errno'[t]) /\ Owns(Last(r)) /\ ~Registering(t)
  BY <1>1, <1>3, <1>6 DEF ErrnoKept, Owns, Holds, Registering, At
<1> QED BY <1>1, <1>2, <1>3, <1>4, <1>6, <1>7, FrameStep

-----------------------------------------------------------------------------
(* ctypes_call *)

LEMMA CallReleaseKeeps ==
  ASSUME NEW K \in KindSets, IInv(K), NEW t \in Threads, CallRelease(t)
  PROVE  IInv(K)'
<1> DEFINE f == [Top(t) EXCEPT !.at = "clear"]
<1>1. stack[t] # <<>> /\ Top(t).k = "call" /\ Top(t).at = "release"
  BY DEF CallRelease, At
<1>2. /\ Top(t) \in Frames(K) /\ errno \in [Threads -> Errnos] /\ master = t
      /\ ErrnoKept(Top(t), errno[t])
  BY <1>1, TopFacts DEF Owns, Holds
<1>3. /\ f \in Frames(K) /\ f.k = "call" /\ f.at = "clear" /\ f.lock = Top(t).lock
      /\ f.chk = Top(t).chk /\ f.left = Top(t).left
  <2>1. "clear" \in Places
    BY DEF Places, Points
  <2> QED BY <1>1, <1>2, <2>1, MovedTo
<1>4. Become(t, f) /\ ReleaseIf(t, f.lock) /\ UNCHANGED registration
  BY <1>3 DEF CallRelease, Goto
<1> HIDE DEF f
<1>5. /\ errno' \in [Threads -> Errnos] /\ \A u \in Threads \ {t} : errno'[u] = errno[u]
      /\ master' = IF f.lock THEN NoThread ELSE master
  BY <1>2, <1>4 DEF ReleaseIf, Release, SetErrno
<1>6. ErrnoKept(f, errno'[t]) /\ f.at \in PointsOf(f.k) /\ (Owns(f) <=> ~f.lock)
  BY <1>1, <1>2, <1>3 DEF ErrnoKept, PointsOf, Owns, Holds
<1>7. (master' = t <=> Owns(f)) /\ (master' = master \/ master' = NoThread)
  BY <1>2, <1>5, <1>6, CallConstants
<1>8. ~Registering(t)
  BY <1>1 DEF Registering, At
<1> QED BY <1>1, <1>2, <1>3, <1>4, <1>5, <1>6, <1>7, <1>8, MoveStep

LEMMA ClearKeeps ==
  ASSUME NEW K \in KindSets, IInv(K), NEW t \in Threads, Clear(t)
  PROVE  IInv(K)'
<1> DEFINE f == [Top(t) EXCEPT !.at = "C"]
<1>1. stack[t] # <<>> /\ Top(t).k = "call" /\ Top(t).at = "clear"
  BY DEF Clear, At
<1>2. /\ Top(t) \in Frames(K) /\ errno \in [Threads -> Errnos] /\ ErrnoKept(Top(t), errno[t])
      /\ (master = t <=> Owns(Top(t)))
  BY <1>1, TopFacts
<1>3. /\ f \in Frames(K) /\ f.k = "call" /\ f.at = "C" /\ f.lock = Top(t).lock
      /\ f.chk = Top(t).chk /\ f.left = Top(t).left
  <2>1. "C" \in Places
    BY DEF Places, Points
  <2> QED BY <1>1, <1>2, <2>1, MovedTo
<1>4. /\ Become(t, f) /\ master' = master /\ UNCHANGED registration
      /\ errno' = IF f.chk THEN [errno EXCEPT ![t] = 0] ELSE errno
  BY <1>3 DEF Clear, Goto
<1> HIDE DEF f
<1>5. /\ errno' \in [Threads -> Errnos] /\ \A u \in Threads \ {t} : errno'[u] = errno[u]
      /\ f.chk => errno'[t] = 0
  BY <1>2, <1>4, CallConstants
<1>6. f.chk => f.left = 0
  BY <1>1, <1>2, <1>3 DEF ErrnoKept
<1>7. ErrnoKept(f, errno'[t]) /\ f.at \in PointsOf(f.k) /\ (master' = t <=> Owns(f))
  BY <1>1, <1>2, <1>3, <1>4, <1>5, <1>6 DEF ErrnoKept, PointsOf, Owns, Holds
<1>8. ~Registering(t)
  BY <1>1 DEF Registering, At
<1> QED BY <1>1, <1>2, <1>3, <1>4, <1>5, <1>7, <1>8, MoveStep

LEMMA SaveKeeps ==
  ASSUME NEW K \in KindSets, IInv(K), NEW t \in Threads, Save(t)
  PROVE  IInv(K)'
<1> DEFINE f == [Top(t) EXCEPT !.at = "acquire", !.saved = IF Top(t).chk THEN errno[t] ELSE 0]
<1>1. stack[t] # <<>> /\ Top(t).k = "call" /\ Top(t).at = "save"
  BY DEF Save, At
<1>2. /\ Top(t) \in Frames(K) /\ errno \in [Threads -> Errnos] /\ ErrnoKept(Top(t), errno[t])
      /\ (master = t <=> Owns(Top(t)))
  BY <1>1, TopFacts
<1>3. /\ f \in Frames(K) /\ f.k = "call" /\ f.at = "acquire" /\ f.lock = Top(t).lock
      /\ f.chk = Top(t).chk /\ f.left = Top(t).left
      /\ f.chk => f.saved = errno[t]
  BY <1>1, <1>2, CallConstants DEF Frames, Places, Points
<1>4. Become(t, f) /\ master' = master /\ errno' = errno /\ UNCHANGED registration
  BY DEF Save
<1> HIDE DEF f
<1>5. ErrnoKept(f, errno'[t]) /\ f.at \in PointsOf(f.k) /\ (master' = t <=> Owns(f))
  BY <1>1, <1>2, <1>3, <1>4 DEF ErrnoKept, PointsOf, Owns, Holds
<1>6. ~Registering(t)
  BY <1>1 DEF Registering, At
<1> QED BY <1>1, <1>2, <1>3, <1>4, <1>5, <1>6, MoveStep

LEMMA CallAcquireKeeps ==
  ASSUME NEW K \in KindSets, IInv(K), NEW t \in Threads, CallAcquire(t)
  PROVE  IInv(K)'
<1> DEFINE f == [Top(t) EXCEPT !.at = "finish"]
<1>1. stack[t] # <<>> /\ Top(t).k = "call" /\ Top(t).at = "acquire"
  BY DEF CallAcquire, At
<1>2. /\ Top(t) \in Frames(K) /\ errno \in [Threads -> Errnos] /\ ErrnoKept(Top(t), errno[t])
      /\ (master = t <=> Owns(Top(t)))
  BY <1>1, TopFacts
<1>3. /\ f \in Frames(K) /\ f.k = "call" /\ f.at = "finish" /\ f.lock = Top(t).lock
      /\ f.chk = Top(t).chk /\ f.left = Top(t).left /\ f.saved = Top(t).saved
  <2>1. "finish" \in Places
    BY DEF Places, Points
  <2> QED BY <1>1, <1>2, <2>1, MovedTo
<1>4. Become(t, f) /\ AcquireIf(t, f.lock) /\ errno' = errno /\ UNCHANGED registration
  BY <1>3 DEF CallAcquire, Goto
<1> HIDE DEF f
<1>5. (~f.lock => master' = master) /\ (f.lock => master = NoThread /\ master' = t)
  BY <1>4 DEF AcquireIf, Acquire
<1>6. ErrnoKept(f, errno'[t]) /\ f.at \in PointsOf(f.k) /\ Owns(f) /\ (Owns(Top(t)) <=> ~f.lock)
  BY <1>1, <1>2, <1>3, <1>4 DEF ErrnoKept, PointsOf, Owns, Holds
<1>7. master' = t
  BY <1>2, <1>5, <1>6 DEF Frames
<1>8. ~Registering(t)
  BY <1>1 DEF Registering, At
<1> QED BY <1>1, <1>2, <1>3, <1>4, <1>5, <1>6, <1>7, <1>8, MoveStep

(* Finish and StubFinish: the frame of a call or a stub ends.              *)
LEMMA FrameEnds ==
  ASSUME NEW K \in KindSets, IInv(K), NEW t \in Threads, stack[t] # <<>>,
         Top(t).k \in {"call", "stub"}, Top(t).at = "finish",
         stack' = [stack EXCEPT ![t] = Front(@)], UNCHANGED <<master, errno, registration>>
  PROVE  IInv(K)'
<1> DEFINE n == Len(stack[t])
           r == SubSeq(stack[t], 1, n - 1)
<1>2. /\ Shape(stack[t], Bottom(t), K) /\ errno \in [Threads -> Errnos] /\ master = t
      /\ n > 1 /\ Under(Last(Front(stack[t])), Top(t)) /\ n \in Nat
  BY TopFacts, LenProperties DEF Owns, Holds, Bottom
<1>3. Last(Front(stack[t])) = stack[t][n - 1]
  BY <1>2, ShapeBelow DEF Bottom
<1>4. stack[t][n - 1].k = "ocaml" /\ stack[t][n - 1].at = "run"
  BY <1>2, <1>3 DEF Under
<1>5. /\ stack' = [stack EXCEPT ![t] = r] /\ master' = master /\ errno' = errno
      /\ UNCHANGED registration
  BY DEF Front
<1> HIDE DEF n
<1>6. n - 1 \in 1..Len(stack[t])
  BY <1>2 DEF n
<1>7. /\ Shape(r, Bottom(t), K) /\ r # <<>> /\ Last(r) = stack[t][n - 1]
      /\ (Entered(r) => Entered(stack[t]))
  BY <1>2, <1>4, <1>6, ShapePrefix
<1> HIDE DEF r
<1>8. ErrnoKept(Last(r), errno'[t]) /\ Owns(Last(r)) /\ ~Registering(t)
  BY <1>4, <1>7 DEF ErrnoKept, Owns, Holds, Registering, At
<1> QED BY <1>2, <1>4, <1>5, <1>7, <1>8, FrameStep

LEMMA FinishKeeps ==
  ASSUME NEW K \in KindSets, IInv(K), NEW t \in Threads, Finish(t)
  PROVE  IInv(K)'
  BY FrameEnds DEF Finish, At

-----------------------------------------------------------------------------
(* C code *)

LEMMA CReturnsKeeps ==
  ASSUME NEW K \in KindSets, IInv(K), NEW t \in Threads, CReturns(t)
  PROVE  IInv(K)'
<1> DEFINE f == [Top(t) EXCEPT !.at = "save"]
<1>1. stack[t] # <<>> /\ Top(t).k = "call" /\ Top(t).at = "C"
  BY DEF CReturns, At
<1>2. /\ Top(t) \in Frames(K) /\ errno \in [Threads -> Errnos] /\ ErrnoKept(Top(t), errno[t])
      /\ (master = t <=> Owns(Top(t)))
  BY <1>1, TopFacts
<1>3. /\ f \in Frames(K) /\ f.k = "call" /\ f.at = "save" /\ f.lock = Top(t).lock
      /\ f.chk = Top(t).chk /\ f.left = Top(t).left
  <2>1. "save" \in Places
    BY DEF Places, Points
  <2> QED BY <1>1, <1>2, <2>1, MovedTo
<1>4. Become(t, f) /\ master' = master /\ errno' = errno /\ UNCHANGED registration
  BY DEF CReturns, Goto
<1> HIDE DEF f
<1>5. ErrnoKept(f, errno'[t]) /\ f.at \in PointsOf(f.k) /\ (master' = t <=> Owns(f))
  BY <1>1, <1>2, <1>3, <1>4 DEF ErrnoKept, PointsOf, Owns, Holds
<1>6. ~Registering(t)
  BY <1>1 DEF Registering, At
<1> QED BY <1>1, <1>2, <1>3, <1>4, <1>5, <1>6, MoveStep

(* C code is a call, a stub's or the thread's own function.                *)
LEMMA InCFacts ==
  ASSUME NEW K \in KindSets, IInv(K), NEW t \in Threads, InC(t)
  PROVE  /\ stack[t] # <<>> /\ Top(t).at = "C" /\ Top(t).k \in {"call", "thread", "stub"}
         /\ ~Registering(t)
<1>1. stack[t] # <<>> /\ Top(t).at = "C"
  BY DEF InC
<1>2. Top(t) \in Frames(K) /\ Top(t).at \in PointsOf(Top(t).k)
  BY <1>1, TopFacts
<1>3. Top(t).k \in {"call", "thread", "stub"}
  BY <1>1, <1>2, KindsIn DEF Frames, PointsOf
<1> QED BY <1>1, <1>3 DEF Registering, At

LEMMA CErrnoKeeps ==
  ASSUME NEW K \in KindSets, IInv(K), NEW t \in Threads, NEW e \in Errnos, CErrno(t, e)
  PROVE  IInv(K)'
<1> DEFINE f == [Top(t) EXCEPT !.left = e]
<1>1. /\ stack[t] # <<>> /\ Top(t).at = "C" /\ Top(t).k \in {"call", "thread", "stub"}
      /\ ~Registering(t)
  BY InCFacts DEF CErrno
<1>2. /\ Top(t) \in Frames(K) /\ errno \in [Threads -> Errnos] /\ (master = t <=> Owns(Top(t)))
      /\ Top(t).at \in PointsOf(Top(t).k)
  BY <1>1, TopFacts
<1>3. /\ f \in Frames(K) /\ f.k = Top(t).k /\ f.at = "C" /\ f.lock = Top(t).lock
      /\ f.chk = Top(t).chk /\ f.left = e
  BY <1>1, <1>2 DEF Frames
<1>4. /\ Become(t, f) /\ master' = master /\ UNCHANGED registration
      /\ errno' = [errno EXCEPT ![t] = e]
  BY DEF CErrno, SetErrno
<1> HIDE DEF f
<1>5. /\ errno' \in [Threads -> Errnos] /\ \A u \in Threads \ {t} : errno'[u] = errno[u]
      /\ errno'[t] = e
  BY <1>2, <1>4
<1>6. ErrnoKept(f, errno'[t]) /\ f.at \in PointsOf(f.k)
  BY <1>1, <1>2, <1>3, <1>5 DEF ErrnoKept
<1>7. master' = t <=> Owns(f)
  BY <1>1, <1>2, <1>3, <1>4 DEF Owns, Holds
<1> QED BY <1>1, <1>2, <1>3, <1>4, <1>5, <1>6, <1>7, MoveStep

LEMMA CallBackKeeps ==
  ASSUME NEW K \in KindSets, IInv(K), NEW t \in Threads, NEW lock \in BOOLEAN, NEW reg \in BOOLEAN,
         CallBack(t, lock, reg)
  PROVE  IInv(K)'
<1> DEFINE f == [Top(t) EXCEPT !.at = "C"]
           g == Frame("handler", IF reg THEN "register" ELSE "acquire", lock, FALSE)
           r == Append(Front(stack[t]), f) \o <<g>>
<1>1. /\ stack[t] # <<>> /\ Top(t).at = "C" /\ Top(t).k \in {"call", "thread", "stub"}
      /\ ~Registering(t)
  BY InCFacts DEF CallBack
<1>2. /\ Shape(stack[t], Bottom(t), K) /\ Top(t) \in Frames(K) /\ errno \in [Threads -> Errnos]
      /\ (master = t <=> Owns(Top(t)))
  BY <1>1, TopFacts
<1>3. f \in Frames(K) /\ f.k = Top(t).k /\ f.at = "C" /\ f.lock = Top(t).lock
  <2>1. "C" \in Places
    BY DEF Places, Points
  <2> QED BY <1>2, <2>1, MovedTo
<1>4. /\ g \in Frames(K) /\ g.k = "handler" /\ g.lock = lock /\ g.at \in {"register", "acquire"}
      /\ g.at # "register" => t \in registered
  BY KindsIn, CallConstants DEF Frame, Frames, Places, Points, CallBack
<1>5. /\ stack' = [stack EXCEPT ![t] = r] /\ master' = master /\ errno' = errno
      /\ UNCHANGED registration /\ (lock <=> master # t)
  BY DEF CallBack, Push
<1> HIDE DEF f, g
<1>6. Owns(f) <=> Owns(Top(t))
  BY <1>1, <1>3 DEF Owns, Holds
<1>7. Under(f, g)
  BY <1>1, <1>2, <1>3, <1>4, <1>5, <1>6 DEF Under
<1>8. f.at \in PointsOf(f.k) /\ g.at \in PointsOf(g.k) /\ g.at # "locked"
  BY <1>1, <1>3, <1>4 DEF PointsOf
<1>9. /\ Shape(r, Bottom(t), K) /\ r # <<>> /\ Last(r) = g
      /\ Entered(r) => Entered(stack[t]) \/ t \in registered
  BY <1>1, <1>2, <1>3, <1>4, <1>7, <1>8, ShapePush DEF Top
<1>10. ErrnoKept(g, errno'[t])
  BY <1>4 DEF ErrnoKept
<1>11. master' = t <=> Owns(g)
  BY <1>4, <1>5 DEF Owns, Holds
<1> HIDE DEF r
<1> QED BY <1>1, <1>2, <1>4, <1>5, <1>9, <1>10, <1>11, FrameStep

LEMMA ExitKeeps ==
  ASSUME NEW K \in KindSets, IInv(K), NEW t \in Threads, Exit(t)
  PROVE  IInv(K)'
<1>1. stack[t] # <<>> /\ Top(t).k = "thread" /\ Top(t).at = "C"
  BY DEF Exit, At
<1>2. /\ Top(t).k # Bottom(t) => Len(stack[t]) > 1
      /\ Len(stack[t]) > 1 => Under(Last(Front(stack[t])), Top(t))
      /\ (master = t <=> Owns(Top(t))) /\ errno \in [Threads -> Errnos]
  BY <1>1, TopFacts
<1>3. t \notin OcamlThreads
  BY <1>1, <1>2 DEF Under, Bottom
<1>4. master # t
  BY <1>1, <1>2 DEF Owns, Holds
<1>5. Typed(K) /\ KeyInv /\ ThreadInv(t, K)
  BY DEF IInv
<1>6. /\ stack' = [stack EXCEPT ![t] = <<>>] /\ master' = master /\ errno' = errno
      /\ keys' = keys /\ cleanup_key' = cleanup_key
      /\ specific' = [specific EXCEPT ![t] = {}]
      /\ registered' = IF specific[t] # {} THEN registered \ {t} ELSE registered
  BY DEF Exit
<1>7. t \notin registered'
  <2>1. specific[t] = {} => t \notin registered
    BY <1>1, <1>3, <1>5 DEF ThreadInv, Registering, At
  <2> QED BY <2>1, <1>6
<1>8. Shape(<<>>, Bottom(t), K) /\ ~Entered(<<>>)
  BY EmptySeq DEF Shape, Entered
<1>9. /\ registered' \subseteq Threads /\ registered' \ {t} = registered \ {t}
      /\ specific' \in [Threads -> SUBSET Keys]
      /\ \A u \in Threads \ {t} : specific'[u] = specific[u]
      /\ keys' \in 0..MaxKeys /\ cleanup_key' \in 0..keys'
      /\ keys' # 0 => cleanup_key' # 0
      /\ cleanup_key # 0 => cleanup_key' # 0
  BY <1>5, <1>6 DEF Typed, KeyInv
<1> QED BY <1>2, <1>3, <1>4, <1>6, <1>7, <1>8, <1>9, ThreadStep

-----------------------------------------------------------------------------
(* callback_handler *)

LEMMA RegisterKeeps ==
  ASSUME NEW K \in KindSets, IInv(K), NEW t \in Threads, Register(t)
  PROVE  IInv(K)'
<1>1. stack[t] # <<>> /\ Top(t).k = "handler" /\ Top(t).at = "register"
  BY DEF Register, At
<1>2. /\ Shape(stack[t], Bottom(t), K) /\ Top(t) \in Frames(K) /\ errno \in [Threads -> Errnos]
      /\ (master = t <=> Owns(Top(t))) /\ (t \notin registered => t \notin OcamlThreads)
  BY <1>1, TopFacts
<1>3. ~Registering(t)
  BY <1>1 DEF Registering, At
<1>4. CASE t \in registered
  <2> DEFINE f == [Top(t) EXCEPT !.at = "acquire"]
  <2>1. f \in Frames(K) /\ f.k = "handler" /\ f.at = "acquire" /\ f.lock = Top(t).lock
    <3>1. "acquire" \in Places
      BY DEF Places, Points
    <3> QED BY <1>1, <1>2, <3>1, MovedTo
  <2>2. Become(t, f) /\ master' = master /\ errno' = errno /\ UNCHANGED registration
    BY <1>4 DEF Register, Goto, registration
  <2> HIDE DEF f
  <2>3. ErrnoKept(f, errno'[t]) /\ f.at \in PointsOf(f.k) /\ (master' = t <=> Owns(f))
    BY <1>1, <1>2, <2>1, <2>2 DEF ErrnoKept, PointsOf, Owns, Holds
  <2> QED BY <1>1, <1>2, <1>3, <1>4, <2>1, <2>2, <2>3, MoveStep
<1>5. CASE t \notin registered
  <2> DEFINE f == [Top(t) EXCEPT !.at = "create"]
             r == Append(Front(stack[t]), f)
  <2>1. f \in Frames(K) /\ f.k = "handler" /\ f.at = "create" /\ f.lock = Top(t).lock
    <3>1. "create" \in Places
      BY DEF Places, Points
    <3> QED BY <1>1, <1>2, <3>1, MovedTo
  <2>2. /\ stack' = [stack EXCEPT ![t] = r] /\ master' = master /\ errno' = errno
        /\ keys' = keys /\ cleanup_key' = cleanup_key /\ specific' = specific
        /\ registered' = registered \cup {t}
    BY <1>5 DEF Register, Goto, Become
  <2> HIDE DEF f
  <2>3. ErrnoKept(f, errno'[t]) /\ f.at \in PointsOf(f.k) /\ (master' = t <=> Owns(f))
    BY <1>1, <1>2, <2>1, <2>2 DEF ErrnoKept, PointsOf, Owns, Holds
  <2>4. Shape(r, Bottom(t), K) /\ r # <<>> /\ Last(r) = f
    BY <1>1, <1>2, <2>1, <2>3, ShapeTop DEF Top
  <2> HIDE DEF r
  <2>5. Typed(K) /\ KeyInv
    BY DEF IInv
  <2>6. /\ registered' \subseteq Threads /\ registered' \ {t} = registered \ {t}
        /\ specific' \in [Threads -> SUBSET Keys]
        /\ \A u \in Threads \ {t} : specific'[u] = specific[u]
        /\ keys' \in 0..MaxKeys /\ cleanup_key' \in 0..keys'
        /\ keys' # 0 => cleanup_key' # 0
        /\ cleanup_key # 0 => cleanup_key' # 0
    BY <2>2, <2>5 DEF Typed, KeyInv
  <2>7. t \in registered' /\ Last(r).k = "handler" /\ Last(r).at = "create"
    BY <2>1, <2>2, <2>4
  <2> QED BY <1>2, <2>2, <2>3, <2>4, <2>6, <2>7, ThreadStep
<1> QED BY <1>4, <1>5

LEMMA CreateKeyKeeps ==
  ASSUME NEW K \in KindSets, IInv(K), NEW t \in Threads, CreateKey(t)
  PROVE  IInv(K)'
<1> DEFINE f == [Top(t) EXCEPT !.at = "set"]
           r == Append(Front(stack[t]), f)
<1>1. stack[t] # <<>> /\ Top(t).k = "handler" /\ Top(t).at = "create"
  BY DEF CreateKey, At
<1>2. /\ Shape(stack[t], Bottom(t), K) /\ Top(t) \in Frames(K) /\ errno \in [Threads -> Errnos]
      /\ (master = t <=> Owns(Top(t))) /\ t \in registered
  BY <1>1, TopFacts
<1>3. f \in Frames(K) /\ f.k = "handler" /\ f.at = "set" /\ f.lock = Top(t).lock
  <2>1. "set" \in Places
    BY DEF Places, Points
  <2> QED BY <1>1, <1>2, <2>1, MovedTo
<1>4. /\ stack' = [stack EXCEPT ![t] = r] /\ master' = master /\ errno' = errno
      /\ registered' = registered /\ specific' = specific
      /\ \/ keys < MaxKeys /\ keys' = keys + 1 /\ cleanup_key' = keys + 1
         \/ ~(keys < MaxKeys) /\ keys' = keys /\ cleanup_key' = cleanup_key
  BY DEF CreateKey, Goto, Become
<1> HIDE DEF f
<1>5. ErrnoKept(f, errno'[t]) /\ f.at \in PointsOf(f.k) /\ (master' = t <=> Owns(f))
  BY <1>1, <1>2, <1>3, <1>4 DEF ErrnoKept, PointsOf, Owns, Holds
<1>6. Shape(r, Bottom(t), K) /\ r # <<>> /\ Last(r) = f
  BY <1>1, <1>2, <1>3, <1>5, ShapeTop DEF Top
<1> HIDE DEF r
<1>7. Typed(K) /\ KeyInv
  BY DEF IInv
<1>8. keys' \in 0..MaxKeys /\ cleanup_key' \in 0..keys' /\ cleanup_key' # 0
  BY <1>4, <1>7, CallConstants DEF Typed, KeyInv
<1>9. /\ registered' \subseteq Threads /\ registered' \ {t} = registered \ {t}
      /\ specific' \in [Threads -> SUBSET Keys]
      /\ \A u \in Threads \ {t} : specific'[u] = specific[u] /\ errno'[u] = errno[u]
  BY <1>4, <1>7 DEF Typed
<1>10. t \in registered' /\ Last(r).k = "handler" /\ Last(r).at = "set"
  BY <1>2, <1>3, <1>4, <1>6
<1> QED BY <1>2, <1>4, <1>5, <1>6, <1>8, <1>9, <1>10, ThreadStep

LEMMA SetSpecificKeeps ==
  ASSUME NEW K \in KindSets, IInv(K), NEW t \in Threads, SetSpecific(t)
  PROVE  IInv(K)'
<1> DEFINE f == [Top(t) EXCEPT !.at = "acquire"]
           r == Append(Front(stack[t]), f)
<1>1. stack[t] # <<>> /\ Top(t).k = "handler" /\ Top(t).at = "set"
  BY DEF SetSpecific, At
<1>2. /\ Shape(stack[t], Bottom(t), K) /\ Top(t) \in Frames(K) /\ errno \in [Threads -> Errnos]
      /\ (master = t <=> Owns(Top(t))) /\ t \in registered
  BY <1>1, TopFacts
<1>3. f \in Frames(K) /\ f.k = "handler" /\ f.at = "acquire" /\ f.lock = Top(t).lock
  <2>1. "acquire" \in Places
    BY DEF Places, Points
  <2> QED BY <1>1, <1>2, <2>1, MovedTo
<1>4. /\ stack' = [stack EXCEPT ![t] = r] /\ master' = master /\ errno' = errno
      /\ registered' = registered /\ keys' = keys /\ cleanup_key' = cleanup_key
      /\ specific' = [specific EXCEPT ![t] = @ \cup {cleanup_key}]
  BY DEF SetSpecific, Goto, Become
<1> HIDE DEF f
<1>5. ErrnoKept(f, errno'[t]) /\ f.at \in PointsOf(f.k) /\ (master' = t <=> Owns(f))
  BY <1>1, <1>2, <1>3, <1>4 DEF ErrnoKept, PointsOf, Owns, Holds
<1>6. Shape(r, Bottom(t), K) /\ r # <<>> /\ Last(r) = f
  BY <1>1, <1>2, <1>3, <1>5, ShapeTop DEF Top
<1> HIDE DEF r
<1>7. Typed(K) /\ KeyInv /\ ThreadInv(t, K)
  BY DEF IInv
<1>8. cleanup_key \in Keys
  <2>1. cleanup_key # 0
    BY <1>1, <1>7 DEF ThreadInv, At
  <2> QED BY <2>1, <1>7, CallConstants DEF Typed, Keys
<1>9. /\ registered' \subseteq Threads /\ registered' \ {t} = registered \ {t}
      /\ specific' \in [Threads -> SUBSET Keys] /\ specific'[t] # {}
      /\ \A u \in Threads \ {t} : specific'[u] = specific[u] /\ errno'[u] = errno[u]
  BY <1>4, <1>7, <1>8 DEF Typed
<1>10. /\ keys' \in 0..MaxKeys /\ cleanup_key' \in 0..keys'
       /\ keys' # 0 => cleanup_key' # 0
       /\ cleanup_key # 0 => cleanup_key' # 0
  BY <1>4, <1>7 DEF Typed, KeyInv
<1>11. t \in registered' /\ Last(r).at # "set"
  BY <1>2, <1>3, <1>4, <1>6
<1> QED BY <1>2, <1>4, <1>5, <1>6, <1>9, <1>10, <1>11, ThreadStep

LEMMA HandlerAcquireKeeps ==
  ASSUME NEW K \in KindSets, IInv(K), NEW t \in Threads, HandlerAcquire(t)
  PROVE  IInv(K)'
<1> DEFINE f == [Top(t) EXCEPT !.at = "locked"]
           r == Append(Front(stack[t]), f) \o <<Ocaml>>
<1>1. stack[t] # <<>> /\ Top(t).k = "handler" /\ Top(t).at = "acquire"
  BY DEF HandlerAcquire, At
<1>2. /\ Shape(stack[t], Bottom(t), K) /\ Top(t) \in Frames(K) /\ errno \in [Threads -> Errnos]
      /\ (master = t <=> Owns(Top(t))) /\ t \in registered
  BY <1>1, TopFacts
<1>3. f \in Frames(K) /\ f.k = "handler" /\ f.at = "locked" /\ f.lock = Top(t).lock
  <2>1. "locked" \in Places
    BY DEF Places, Points
  <2> QED BY <1>1, <1>2, <2>1, MovedTo
<1>4. Ocaml \in Frames(K) /\ Ocaml.k = "ocaml" /\ Ocaml.at = "run"
  BY KindsIn, CallConstants DEF Ocaml, Frame, Frames, Places, Points
<1>5. /\ stack' = [stack EXCEPT ![t] = r] /\ AcquireIf(t, Top(t).lock) /\ errno' = errno
      /\ UNCHANGED registration
  BY DEF HandlerAcquire, Push
<1> HIDE DEF f
<1>6. Under(f, Ocaml) /\ f.at \in PointsOf(f.k) /\ Ocaml.at \in PointsOf(Ocaml.k)
  BY <1>3, <1>4 DEF Under, PointsOf
<1>7. Shape(r, Bottom(t), K) /\ r # <<>> /\ Last(r) = Ocaml
  BY <1>1, <1>2, <1>3, <1>4, <1>6, ShapePush DEF Top
<1> HIDE DEF r
<1>8. (~Top(t).lock => master' = master) /\ (Top(t).lock => master = NoThread /\ master' = t)
  BY <1>5 DEF AcquireIf, Acquire
<1>9. master' = t
  BY <1>1, <1>2, <1>8 DEF Owns, Holds
<1>10. ErrnoKept(Ocaml, errno'[t]) /\ Owns(Ocaml) /\ ~Registering(t)
  BY <1>1, <1>4 DEF ErrnoKept, Owns, Holds, Registering, At
<1> QED BY <1>1, <1>2, <1>4, <1>5, <1>7, <1>8, <1>9, <1>10, FrameStep

LEMMA HandlerReleaseKeeps ==
  ASSUME NEW K \in KindSets, IInv(K), NEW t \in Threads, HandlerRelease(t)
  PROVE  IInv(K)'
<1>1. stack[t] # <<>> /\ Top(t).k = "handler" /\ Top(t).at = "release" /\ Top(t).k # Bottom(t)
  BY DEF HandlerRelease, At, Bottom
<1>2. /\ Shape(stack[t], Bottom(t), K) /\ Top(t) \in Frames(K) /\ errno \in [Threads -> Errnos]
      /\ Len(stack[t]) > 1 /\ Last(Front(stack[t])) \in Frames(K)
      /\ Under(Last(Front(stack[t])), Top(t)) /\ master = t /\ t \in registered
  BY <1>1, TopFacts DEF Owns, Holds
<1>3. /\ errno' \in [Threads -> Errnos] /\ \A u \in Threads \ {t} : errno'[u] = errno[u]
      /\ master' = IF Top(t).lock THEN NoThread ELSE master
  BY <1>2 DEF HandlerRelease, ReleaseIf, Release, SetErrno
<1>4. PICK e \in Errnos : e = errno'[t]
  BY <1>3
<1> DEFINE below == Last(Front(stack[t]))
           f == [below EXCEPT !.left = e]
           r == Append(Front(Front(stack[t])), f)
<1>5. stack' = [stack EXCEPT ![t] = r] /\ UNCHANGED registration
  BY <1>4 DEF HandlerRelease
<1>6. /\ below.k \in {"call", "thread", "stub"} /\ below.at = "C"
      /\ (Top(t).lock <=> ~Owns(below))
  BY <1>1, <1>2 DEF Under
<1>7. /\ f \in Frames(K) /\ f.k = below.k /\ f.at = "C" /\ f.lock = below.lock
      /\ f.chk = below.chk /\ f.left = e
  BY <1>2, <1>6 DEF Frames
<1> HIDE DEF f
<1>8. f.at \in PointsOf(f.k)
  BY <1>6, <1>7 DEF PointsOf
<1>9. Shape(r, Bottom(t), K) /\ r # <<>> /\ Last(r) = f
  BY <1>2, <1>7, <1>8, ShapeDrop
<1> HIDE DEF r
<1>10. ErrnoKept(f, errno'[t]) /\ ~Registering(t)
  BY <1>1, <1>4, <1>7 DEF ErrnoKept, Registering, At
<1>11. Owns(f) <=> Owns(below)
  BY <1>6, <1>7 DEF Owns, Holds
<1>12. /\ master' = t <=> Owns(f)
       /\ master' = master \/ master' = NoThread
  BY <1>2, <1>3, <1>6, <1>11, CallConstants
<1>13. f.k # "handler"
  BY <1>6, <1>7
<1> QED BY <1>1, <1>2, <1>3, <1>5, <1>9, <1>10, <1>12, <1>13, FrameStep

-----------------------------------------------------------------------------
(* The stubs of cstubs_generate_c.ml *)

LEMMA StubCallKeeps ==
  ASSUME NEW K \in KindSets, IInv(K), "stub" \in K, NEW t \in Threads, NEW lock \in BOOLEAN,
         StubCall(t, lock)
  PROVE  IInv(K)'
<1> DEFINE f == [Top(t) EXCEPT !.at = "run"]
           g == Frame("stub", "clear", lock, TRUE)
           r == Append(Front(stack[t]), f) \o <<g>>
<1>1. stack[t] # <<>> /\ Top(t).k = "ocaml" /\ Top(t).at = "run"
  BY DEF StubCall, At
<1>2. /\ Shape(stack[t], Bottom(t), K) /\ Top(t) \in Frames(K) /\ errno \in [Threads -> Errnos]
      /\ master = t
  BY <1>1, TopFacts DEF Owns, Holds
<1>3. f \in Frames(K) /\ f.k = "ocaml" /\ f.at = "run" /\ f.lock = Top(t).lock
  <2>1. "run" \in Places
    BY DEF Places, Points
  <2> QED BY <1>1, <1>2, <2>1, MovedTo
<1>4. g \in Frames(K) /\ g.k = "stub" /\ g.at = "clear" /\ g.left = 0
  BY CallConstants DEF Frame, Frames, Places, Points
<1>5. /\ stack' = [stack EXCEPT ![t] = r] /\ master' = master /\ errno' = errno
      /\ UNCHANGED registration
  BY DEF StubCall, Push
<1> HIDE DEF f, g
<1>6. Under(f, g) /\ f.at \in PointsOf(f.k) /\ g.at \in PointsOf(g.k)
  BY <1>3, <1>4 DEF Under, PointsOf
<1>7. Shape(r, Bottom(t), K) /\ r # <<>> /\ Last(r) = g /\ (Entered(r) => Entered(stack[t]))
  BY <1>1, <1>2, <1>3, <1>4, <1>6, ShapePush DEF Top
<1>8. ErrnoKept(g, errno'[t]) /\ Owns(g) /\ ~Registering(t)
  BY <1>1, <1>4 DEF ErrnoKept, Owns, Registering, At
<1> HIDE DEF r
<1> QED BY <1>1, <1>2, <1>4, <1>5, <1>7, <1>8, FrameStep

LEMMA StubClearKeeps ==
  ASSUME NEW K \in KindSets, IInv(K), NEW t \in Threads, StubClear(t)
  PROVE  IInv(K)'
<1> DEFINE f == [Top(t) EXCEPT !.at = "release"]
<1>1. stack[t] # <<>> /\ Top(t).k = "stub" /\ Top(t).at = "clear"
  BY DEF StubClear, At
<1>2. /\ Top(t) \in Frames(K) /\ errno \in [Threads -> Errnos] /\ ErrnoKept(Top(t), errno[t])
      /\ master = t
  BY <1>1, TopFacts DEF Owns
<1>3. /\ f \in Frames(K) /\ f.k = "stub" /\ f.at = "release" /\ f.lock = Top(t).lock
      /\ f.left = Top(t).left
  <2>1. "release" \in Places
    BY DEF Places, Points
  <2> QED BY <1>1, <1>2, <2>1, MovedTo
<1>4. /\ Become(t, f) /\ master' = master /\ UNCHANGED registration
      /\ errno' = [errno EXCEPT ![t] = 0]
  BY DEF StubClear, Goto, SetErrno
<1> HIDE DEF f
<1>5. /\ errno' \in [Threads -> Errnos] /\ \A u \in Threads \ {t} : errno'[u] = errno[u]
      /\ errno'[t] = 0
  BY <1>2, <1>4, CallConstants
<1>6. ErrnoKept(f, errno'[t]) /\ f.at \in PointsOf(f.k) /\ Owns(f)
  BY <1>1, <1>2, <1>3, <1>5 DEF ErrnoKept, PointsOf, Owns
<1>7. ~Registering(t)
  BY <1>1 DEF Registering, At
<1> QED BY <1>1, <1>2, <1>3, <1>4, <1>5, <1>6, <1>7, MoveStep

LEMMA StubReleaseKeeps ==
  ASSUME NEW K \in KindSets, IInv(K), NEW t \in Threads, StubRelease(t)
  PROVE  IInv(K)'
<1> DEFINE f == [Top(t) EXCEPT !.at = "C"]
<1>1. stack[t] # <<>> /\ Top(t).k = "stub" /\ Top(t).at = "release"
  BY DEF StubRelease, At
<1>2. /\ Top(t) \in Frames(K) /\ errno \in [Threads -> Errnos] /\ ErrnoKept(Top(t), errno[t])
      /\ master = t
  BY <1>1, TopFacts DEF Owns
<1>3. /\ f \in Frames(K) /\ f.k = "stub" /\ f.at = "C" /\ f.lock = Top(t).lock
      /\ f.left = Top(t).left
  <2>1. "C" \in Places
    BY DEF Places, Points
  <2> QED BY <1>1, <1>2, <2>1, MovedTo
<1>4. Become(t, f) /\ ReleaseIf(t, f.lock) /\ UNCHANGED registration
  BY <1>3 DEF StubRelease, Goto
<1> HIDE DEF f
<1>5. /\ errno' \in [Threads -> Errnos] /\ \A u \in Threads \ {t} : errno'[u] = errno[u]
      /\ master' = IF f.lock THEN NoThread ELSE master
      /\ ~f.lock => errno'[t] = errno[t]
  BY <1>2, <1>4 DEF ReleaseIf, Release, SetErrno
<1>6. ErrnoKept(f, errno'[t]) /\ f.at \in PointsOf(f.k) /\ (Owns(f) <=> ~f.lock)
  BY <1>1, <1>2, <1>3, <1>5 DEF ErrnoKept, PointsOf, Owns
<1>7. (master' = t <=> Owns(f)) /\ (master' = master \/ master' = NoThread)
  BY <1>2, <1>5, <1>6, CallConstants
<1>8. ~Registering(t)
  BY <1>1 DEF Registering, At
<1> QED BY <1>1, <1>2, <1>3, <1>4, <1>5, <1>6, <1>7, <1>8, MoveStep

LEMMA StubReturnsKeeps ==
  ASSUME NEW K \in KindSets, IInv(K), NEW t \in Threads, StubReturns(t)
  PROVE  IInv(K)'
<1> DEFINE f == [Top(t) EXCEPT !.at = "acquire"]
<1>1. stack[t] # <<>> /\ Top(t).k = "stub" /\ Top(t).at = "C"
  BY DEF StubReturns, At
<1>2. /\ Top(t) \in Frames(K) /\ errno \in [Threads -> Errnos] /\ ErrnoKept(Top(t), errno[t])
      /\ (master = t <=> Owns(Top(t)))
  BY <1>1, TopFacts
<1>3. /\ f \in Frames(K) /\ f.k = "stub" /\ f.at = "acquire" /\ f.lock = Top(t).lock
      /\ f.left = Top(t).left
  <2>1. "acquire" \in Places
    BY DEF Places, Points
  <2> QED BY <1>1, <1>2, <2>1, MovedTo
<1>4. Become(t, f) /\ master' = master /\ errno' = errno /\ UNCHANGED registration
  BY DEF StubReturns, Goto
<1> HIDE DEF f
<1>5. ErrnoKept(f, errno'[t]) /\ f.at \in PointsOf(f.k) /\ (master' = t <=> Owns(f))
  BY <1>1, <1>2, <1>3, <1>4 DEF ErrnoKept, PointsOf, Owns
<1>6. ~Registering(t)
  BY <1>1 DEF Registering, At
<1> QED BY <1>1, <1>2, <1>3, <1>4, <1>5, <1>6, MoveStep

LEMMA StubAcquireKeeps ==
  ASSUME NEW K \in KindSets, IInv(K), NEW t \in Threads, StubAcquire(t)
  PROVE  IInv(K)'
<1> DEFINE f == [Top(t) EXCEPT !.at = "pair"]
<1>1. stack[t] # <<>> /\ Top(t).k = "stub" /\ Top(t).at = "acquire"
  BY DEF StubAcquire, At
<1>2. /\ Top(t) \in Frames(K) /\ errno \in [Threads -> Errnos] /\ ErrnoKept(Top(t), errno[t])
      /\ (master = t <=> Owns(Top(t)))
  BY <1>1, TopFacts
<1>3. /\ f \in Frames(K) /\ f.k = "stub" /\ f.at = "pair" /\ f.lock = Top(t).lock
      /\ f.left = Top(t).left
  <2>1. "pair" \in Places
    BY DEF Places
  <2> QED BY <1>1, <1>2, <2>1, MovedTo
<1>4. Become(t, f) /\ AcquireIf(t, f.lock) /\ errno' = errno /\ UNCHANGED registration
  BY <1>3 DEF StubAcquire, Goto
<1> HIDE DEF f
<1>5. (~f.lock => master' = master) /\ (f.lock => master = NoThread /\ master' = t)
  BY <1>4 DEF AcquireIf, Acquire
<1>6. ErrnoKept(f, errno'[t]) /\ f.at \in PointsOf(f.k) /\ Owns(f) /\ (Owns(Top(t)) <=> ~f.lock)
  BY <1>1, <1>2, <1>3, <1>4 DEF ErrnoKept, PointsOf, Owns
<1>7. master' = t
  BY <1>2, <1>5, <1>6 DEF Frames
<1>8. ~Registering(t)
  BY <1>1 DEF Registering, At
<1> QED BY <1>1, <1>2, <1>3, <1>4, <1>5, <1>6, <1>7, <1>8, MoveStep

LEMMA StubPairKeeps ==
  ASSUME NEW K \in KindSets, IInv(K), NEW t \in Threads, StubPair(t)
  PROVE  IInv(K)'
<1> DEFINE f == [Top(t) EXCEPT !.at = "finish", !.saved = errno[t]]
<1>1. stack[t] # <<>> /\ Top(t).k = "stub" /\ Top(t).at = "pair"
  BY DEF StubPair, At
<1>2. /\ Top(t) \in Frames(K) /\ errno \in [Threads -> Errnos] /\ ErrnoKept(Top(t), errno[t])
      /\ master = t
  BY <1>1, TopFacts DEF Owns
<1>3. /\ f \in Frames(K) /\ f.k = "stub" /\ f.at = "finish" /\ f.lock = Top(t).lock
      /\ f.left = Top(t).left /\ f.saved = errno[t]
  BY <1>1, <1>2 DEF Frames, Places, Points
<1>4. Become(t, f) /\ master' = master /\ errno' = errno /\ UNCHANGED registration
  BY DEF StubPair
<1> HIDE DEF f
<1>5. ErrnoKept(f, errno'[t]) /\ f.at \in PointsOf(f.k) /\ Owns(f)
  BY <1>1, <1>2, <1>3, <1>4 DEF ErrnoKept, PointsOf, Owns
<1>6. ~Registering(t)
  BY <1>1 DEF Registering, At
<1> QED BY <1>1, <1>2, <1>3, <1>4, <1>5, <1>6, MoveStep

LEMMA StubFinishKeeps ==
  ASSUME NEW K \in KindSets, IInv(K), NEW t \in Threads, StubFinish(t)
  PROVE  IInv(K)'
  BY FrameEnds DEF StubFinish, At

-----------------------------------------------------------------------------
(* The invariant holds throughout *)

(* A stack of one frame.                                                   *)
LEMMA ShapeOne ==
  ASSUME NEW K, NEW f \in Frames(K), f.k \in {"ocaml", "thread"}, f.at \in PointsOf(f.k),
         f.at # "locked"
  PROVE  /\ Shape(<<f>>, f.k, K) /\ ~Entered(<<f>>)
         /\ <<f>> # <<>> /\ Last(<<f>>) = f
  BY DEF Shape, Last, Entered

(* The runtime starts: no thread has called anything yet.                  *)
LEMMA InitIInv ==
  ASSUME NEW K \in KindSets, Init
  PROVE  IInv(K)
<1>0. "ocaml" \in K /\ "thread" \in K
  BY KindsIn
<1> USE CallConstants DEF Init
<1>1. /\ Waiting \in Frames(K) /\ Waiting.k = "ocaml" /\ Waiting.at = "wait"
      /\ CThread \in Frames(K) /\ CThread.k = "thread" /\ CThread.at = "C"
  BY <1>0 DEF Waiting, Ocaml, CThread, Frame, Frames, Places, Points
<1>2. /\ ~Owns(Waiting) /\ Waiting.at \in PointsOf("ocaml") /\ ErrnoKept(Waiting, 0)
      /\ ~Owns(CThread) /\ CThread.at \in PointsOf("thread") /\ ErrnoKept(CThread, 0)
  BY <1>1 DEF Owns, Holds, PointsOf, ErrnoKept
<1>3. ASSUME NEW t \in Threads
      PROVE  /\ Shape(stack[t], Bottom(t), K) /\ ~Entered(stack[t]) /\ stack[t] # <<>>
             /\ ~Owns(Top(t)) /\ ErrnoKept(Top(t), 0) /\ stack[t] \in Seq(Frames(K))
             /\ Top(t).k # "handler"
  <2>1. CASE t \in OcamlThreads
    <3>1. stack[t] = <<Waiting>> /\ Bottom(t) = "ocaml"
      BY <2>1 DEF Bottom
    <3> QED BY <3>1, <1>1, <1>2, ShapeOne DEF Top
  <2>2. CASE t \notin OcamlThreads
    <3>1. stack[t] = <<CThread>> /\ Bottom(t) = "thread"
      BY <2>2 DEF Bottom
    <3> QED BY <3>1, <1>1, <1>2, ShapeOne DEF Top
  <2> QED BY <2>1, <2>2
<1>4. Typed(K)
  <2>1. stack \in [Threads -> Seq(Frames(K))]
    BY <1>3
  <2>2. errno \in [Threads -> Errnos] /\ specific \in [Threads -> SUBSET Keys]
    OBVIOUS
  <2>3. registered \subseteq Threads /\ master = NoThread
    BY DEF Threads
  <2>4. keys \in 0..MaxKeys /\ cleanup_key \in 0..keys
    OBVIOUS
  <2> QED BY <2>1, <2>2, <2>3, <2>4 DEF Typed
<1>5. Balanced
  BY <1>3 DEF Balanced
<1>6. KeyInv
  BY DEF KeyInv
<1>7. ASSUME NEW t \in Threads PROVE ThreadInv(t, K)
  BY <1>3 DEF ThreadInv, At
<1> QED BY <1>4, <1>5, <1>6, <1>7 DEF IInv

(* Every step of the program without stubs keeps the invariant, with stubs *)
(* on the stacks or not.                                                   *)
LEMMA StepIInv ==
  ASSUME NEW K \in KindSets, IInv(K), [Next]_vars
  PROVE  IInv(K)'
<1>1. ASSUME NEW t \in Threads, OcamlStep(t) PROVE IInv(K)'
  BY <1>1, YieldKeeps, ResumeKeeps, OcamlReturnsKeeps, RaiseKeeps, OcamlErrnoKeeps, CallKeeps
     DEF OcamlStep
<1>2. ASSUME NEW t \in Threads, CallStep(t) PROVE IInv(K)'
  BY <1>2, CallReleaseKeeps, ClearKeeps, SaveKeeps, CallAcquireKeeps, FinishKeeps DEF CallStep
<1>3. ASSUME NEW t \in Threads, CStep(t) PROVE IInv(K)'
  BY <1>3, CReturnsKeeps, ExitKeeps, CErrnoKeeps, CallBackKeeps DEF CStep
<1>4. ASSUME NEW t \in Threads, HandlerStep(t) PROVE IInv(K)'
  BY <1>4, RegisterKeeps, CreateKeyKeeps, SetSpecificKeeps, HandlerAcquireKeeps,
     HandlerReleaseKeeps DEF HandlerStep
<1>5. ASSUME UNCHANGED vars PROVE IInv(K)'
  BY <1>5 DEF vars, registration, IInv, Typed, Balanced, KeyInv, ThreadInv, Top, At,
     Registering, Bottom
<1> QED BY <1>1, <1>2, <1>3, <1>4, <1>5 DEF Next

(* So does every step of a stub.                                           *)
LEMMA StubStepIInv ==
  ASSUME NEW K \in KindSets, IInv(K), "stub" \in K, NEW t \in Threads, StubStep(t)
  PROVE  IInv(K)'
  BY StubCallKeeps, StubClearKeeps, StubReleaseKeeps, StubReturnsKeeps, StubAcquireKeeps,
     StubPairKeeps, StubFinishKeeps DEF StubStep

(* The invariant of the stacks, in any nest of calls and callbacks         *)
(* (ffi_call_stubs.c:380-420, 520-560): the frames alternate, a callback   *)
(* takes the lock exactly when the C code below it does not hold it, and   *)
(* errno is what the innermost frame believes it to be.                    *)
THEOREM Invariance == Spec => []IInv(CallKinds)
<1>1. CallKinds \in KindSets
  BY DEF KindSets
<1>2. Init => IInv(CallKinds)
  BY <1>1, InitIInv
<1>3. IInv(CallKinds) /\ [Next]_vars => IInv(CallKinds)'
  BY <1>1, StepIInv
<1> QED BY <1>2, <1>3, PTL DEF Spec

(* The same where the program also calls the stubs that the unlocked and   *)
(* sequential policies generate (cstubs_generate_c.ml, fn), at any depth   *)
(* among calls through libffi and callbacks.                               *)
THEOREM StubInvariance == StubSpec => []IInv(StubKinds)
<1>1. StubKinds \in KindSets /\ "stub" \in StubKinds
  BY DEF KindSets, StubKinds
<1>2. Init => IInv(StubKinds)
  BY <1>1, InitIInv
<1>3. IInv(StubKinds) /\ [Next \/ \E t \in Threads : StubStep(t)]_vars => IInv(StubKinds)'
  BY <1>1, StepIInv, StubStepIInv
<1> QED BY <1>2, <1>3, PTL DEF StubSpec

(* Every variable keeps its type; the slot a C thread sets at its          *)
(* registration is a key that exists (foreign_threaded_stubs.c).           *)
THEOREM TypeCorrect == Spec => []TypeOK
<1> DEFINE F == [k : {"ocaml", "call", "thread", "handler"}, at : Points, lock : BOOLEAN,
                 chk : BOOLEAN, saved : Errnos, left : Errnos]
<1>1. ASSUME IInv(CallKinds) PROVE TypeOK
  <2>1. Typed(CallKinds) /\ \A t \in Threads : Shape(stack[t], Bottom(t), CallKinds)
    BY <1>1 DEF IInv, ThreadInv
  <2>2. ASSUME NEW f \in Frames(CallKinds), f.at \in PointsOf(f.k) PROVE f \in F
    <3>1. f.at \in Points
      BY <2>2 DEF Frames, CallKinds, PointsOf, Points
    <3> QED BY <3>1 DEF Frames, CallKinds
  <2>3. ASSUME NEW t \in Threads PROVE stack[t] \in Seq(F)
    <3>1. /\ stack[t] \in Seq(Frames(CallKinds))
          /\ \A i \in 1..Len(stack[t]) : stack[t][i].at \in PointsOf(stack[t][i].k)
      BY <2>1 DEF Shape
    <3>2. \A i \in 1..Len(stack[t]) : stack[t][i] \in Frames(CallKinds)
      BY <3>1, ElementOfSeq
    <3>3. \A i \in 1..Len(stack[t]) : stack[t][i] \in F
      BY <3>1, <3>2, <2>2
    <3> HIDE DEF F
    <3> QED BY <3>1, <3>3, SeqOfElements
  <2> HIDE DEF F
  <2>4. stack \in [Threads -> Seq(F)]
    BY <2>1, <2>3 DEF Typed
  <2> QED BY <2>1, <2>4 DEF Typed, TypeOK, F
<1> QED BY <1>1, Invariance, PTL

(* The runtime lock is held by the thread whose innermost frame needs it   *)
(* and by no other, whatever calls, callbacks and exceptions came before   *)
(* (ffi_call_stubs.c:394-416, 536-551).                                    *)
THEOREM LockIsBalanced == Spec => []LockBalanced
<1>1. ASSUME IInv(CallKinds) PROVE LockBalanced
  <2> SUFFICES ASSUME NEW t \in Threads PROVE master = t <=> stack[t] # <<>> /\ Holds(Top(t))
    BY DEF LockBalanced
  <2>1. master = t <=> stack[t] # <<>> /\ Owns(Top(t))
    BY <1>1 DEF IInv, Balanced
  <2>2. stack[t] # <<>> => Top(t).k # "stub"
    <3>1. stack[t] # <<>> => Top(t) \in Frames(CallKinds)
      BY <1>1, TopFacts DEF KindSets
    <3> QED BY <3>1 DEF Frames, CallKinds
  <2> QED BY <2>1, <2>2 DEF Owns
<1> QED BY <1>1, Invariance, PTL

(* At most one thread runs OCaml code: what the lock is for.               *)
THEOREM OneThreadRunsOcaml ==
  Spec => [](\A t, u \in Threads : At(t, "ocaml", "run") /\ At(u, "ocaml", "run") => t = u)
<1>1. LockBalanced => \A t, u \in Threads : At(t, "ocaml", "run") /\ At(u, "ocaml", "run") => t = u
  BY DEF LockBalanced, At, Holds
<1> QED BY <1>1, LockIsBalanced, PTL

(* What the invariant says of the calls through libffi and of callbacks    *)
(* does not depend on whether there are stubs among them.                  *)
LEMMA CallsSafe ==
  ASSUME NEW K \in KindSets, IInv(K)
  PROVE  OcamlIsRegistered /\ ErrnoIsCallees /\ ExitedUnregistered
<1>1. OcamlIsRegistered
  <2> SUFFICES ASSUME NEW t \in Threads, stack[t] # <<>>,
                      Top(t).k = "ocaml" \/ At(t, "handler", "release")
               PROVE  t \in registered
    BY DEF OcamlIsRegistered
  <2> QED BY TopFacts DEF At
<1>2. ErrnoIsCallees
  BY DEF IInv, ThreadInv, ErrnoKept, ErrnoIsCallees
<1>3. ExitedUnregistered
  BY DEF IInv, ThreadInv, ExitedUnregistered
<1> QED BY <1>1, <1>2, <1>3

(* OCaml code, a callback's included, runs on registered threads only      *)
(* (callback_handler registers before it takes the lock).                  *)
THEOREM OcamlRegistered == Spec => []OcamlIsRegistered
<1>1. IInv(CallKinds) => OcamlIsRegistered
  BY CallsSafe DEF KindSets
<1> QED BY <1>1, Invariance, PTL

(* errno as ctypes_call saves it is what the C function left: neither the  *)
(* runtime nor a nested callback's release disturbs it.                    *)
THEOREM ErrnoReported == Spec => []ErrnoIsCallees
<1>1. IInv(CallKinds) => ErrnoIsCallees
  BY CallsSafe DEF KindSets
<1> QED BY <1>1, Invariance, PTL

(* A C thread that exits is unregistered, however many threads registered  *)
(* meanwhile and overwrote cleanup_key, and though no key was left for it. *)
THEOREM ExitUnregisters == Spec => []ExitedUnregistered
<1>1. IInv(CallKinds) => ExitedUnregistered
  BY CallsSafe DEF KindSets
<1> QED BY <1>1, Invariance, PTL

-----------------------------------------------------------------------------
(* Programs with generated stubs *)

(* Of programs that call generated stubs too: a stub gives the lock back   *)
(* before its C function and takes it after it, if it is to                *)
(* (cstubs_generate_c.ml, fn), and any callback in between leaves the lock *)
(* as it was.  In particular the OCaml code above and below runs with it.  *)
THEOREM StubsBalanceLock ==
  StubSpec => [](\A t \in Threads : master = t <=> stack[t] # <<>> /\ Owns(Top(t)))
<1>1. IInv(StubKinds) => \A t \in Threads : master = t <=> stack[t] # <<>> /\ Owns(Top(t))
  BY DEF IInv, Balanced
<1> QED BY <1>1, StubInvariance, PTL

(* A stub of the sequential policy, which keeps the lock, returns the      *)
(* errno its C function left ("Generate code that returns errno in         *)
(* addition to the return value of each function", cstubs.mli:33), through *)
(* any calls nested in its callbacks.  One that releases the lock does not *)
(* (StubErrnoIsCallees).                                                   *)
THEOREM SequentialErrno ==
  StubSpec => [](\A t \in Threads :
                   At(t, "stub", "finish") /\ ~Top(t).lock => Top(t).saved = Top(t).left)
<1>1. IInv(StubKinds) =>
        \A t \in Threads : At(t, "stub", "finish") /\ ~Top(t).lock => Top(t).saved = Top(t).left
  BY DEF IInv, ThreadInv, ErrnoKept, At
<1> QED BY <1>1, StubInvariance, PTL

(* Stubs disturb nothing around them: calls through libffi report their    *)
(* own errno, callbacks run on registered threads, and C threads are       *)
(* unregistered when they exit.                                            *)
THEOREM StubsDisturbNoCall ==
  StubSpec => [](OcamlIsRegistered /\ ErrnoIsCallees /\ ExitedUnregistered)
<1>1. IInv(StubKinds) => OcamlIsRegistered /\ ErrnoIsCallees /\ ExitedUnregistered
  BY CallsSafe DEF KindSets
<1> QED BY <1>1, StubInvariance, PTL
=============================================================================
