----------------------------- MODULE LongDoubleMC -----------------------------
(***************************************************************************)
(* The long doubles the runs use: both zeros, infinities, NaNs of both     *)
(* signs and several payloads, numbers that differ in one word.            *)
(***************************************************************************)
EXTENDS LongDouble

Little(d) == [dig |-> d, big |-> FALSE]
Big(d)    == [dig |-> d, big |-> TRUE]

(* Every format, and the double and the quadruple on one processor each    *)
(* besides: what the code carries from one to the other.                   *)
Portable == {Little(53), Big(53), Little(64), Little(113)}

(* IEEE quadruple precision: AArch64, and SPARC or z/Architecture *)
Quadruple == {Little(113), Big(113)}

(* The first word of a format without padding, and the words that follow   *)
Following(d) ==
  CASE d = 53 -> {<<0>>, <<1>>}
    [] d = 64 -> {<<0, 0>>, <<1, 0>>, <<0, 1>>}
    [] d = 113 -> {<<0, 0, 0>>, <<0, 0, 1>>, <<1, 0, 0>>}

Values(d) == {<<t>> \o w : t \in IF d = 64 THEN 0..8 ELSE 0..5, w \in Following(d)}

(* For the parts of a complex value: 0, -0, a number, two NaNs *)
Parts(d) ==
  LET rest == CHOOSE w \in Following(d) : \A i \in 1..Len(w) : w[i] = 0
      odd  == CHOOSE w \in Following(d) : w[Len(w)] = 1
  IN  {<<0>> \o rest, <<3>> \o rest, <<1>> \o odd, <<2>> \o odd,
       IF d = 64 THEN <<11>> \o odd ELSE <<5>> \o odd}

MCKeys ==
  [c \in 1..2 |-> [d \in {53, 64, 113} |->
     IF c = 1 THEN {<<x>> : x \in Values(d)}
     ELSE {<<x, y>> : x, y \in Parts(d)}]]
=============================================================================
