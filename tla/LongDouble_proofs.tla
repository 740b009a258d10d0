-------------------------- MODULE LongDouble_proofs --------------------------
(***************************************************************************)
(* Proofs about long double keys: for any processors, any keys and any     *)
(* size of the table, compare is an order and = the equality of the        *)
(* numbers; when the 16 byte format has one byte order, keys that compare  *)
(* equal have equal hashes, and what is unmarshalled equals what was       *)
(* written.                                                                *)
(*                                                                         *)
(* The order follows from the rank of a value, which puts the NaNs below   *)
(* the numbers: Cmp is the sign of a difference of ranks.  The hashes      *)
(* follow from a normal form: values of one rank have the same words once  *)
(* normalised, but for the padding bit, and the mixes leave that bit out.  *)
(***************************************************************************)
EXTENDS LongDouble, SequenceTheorems, TLAPS

Formats  == {53, 64, 113}
Words(d) == [1..Width(d) -> 0..11]

(* The 16 byte format is used in one byte order: without it a processor of *)
(* the other order reads the words of a value in another order.            *)
OneQuadruple ==
  \A p, q \in Platforms : p.dig = 113 /\ q.dig = 113 => p.big = q.big

-----------------------------------------------------------------------------
(* Words *)

(* A value of a format has that format's number of words.                  *)
LEMMA WordsOf ==
  ASSUME NEW d \in Formats, NEW x \in Words(d)
  PROVE  /\ Width(d) \in 2..4
         /\ x \in Seq(0..11) /\ Len(x) = Width(d)
         /\ \A i \in 1..Width(d) : x[i] \in 0..11
<1>1. Width(d) \in 2..4
  BY DEF Width, Formats
<1>2. PICK n \in 2..4 : n = Width(d)
  BY <1>1
<1>3. x \in [1..n -> 0..11]
  BY <1>2 DEF Words
<1>4. x \in Seq(0..11) /\ Len(x) = n
  BY <1>3
<1> QED BY <1>1, <1>2, <1>3, <1>4

(* The words below the top one of a value of a format are 0 or 1.          *)
LEMMA LowWords ==
  ASSUME NEW d \in Formats, NEW x \in LongDoubles(d)
  PROVE  \A i \in 2..Width(d) : x[i] \in 0..1
<1>1. PICK n \in 2..4 : n = Width(d)
  BY DEF Width, Formats
<1>2. x \in [1..n -> 0..11] /\ \A i \in 2..n : x[i] <= 1
  BY <1>1 DEF LongDoubles
<1> SUFFICES ASSUME NEW i \in 2..n PROVE x[i] \in 0..1
  BY <1>1
<1>3. x[i] \in 0..11 /\ x[i] <= 1
  BY <1>2
<1> QED BY <1>3

(* The values of a format are words of it.                                 *)
LEMMA AreWords == \A d \in Formats : LongDoubles(d) \subseteq Words(d)
  BY DEF LongDoubles, Words

(* A word list back to front, as it is in little endian memory.            *)
LEMMA ReversedWords ==
  ASSUME NEW d \in Formats, NEW x \in Words(d)
  PROVE  /\ Reverse(x) \in Words(d)
         /\ \A i \in 1..Width(d) : Reverse(x)[i] = x[Width(d) - i + 1]
<1>1. PICK n \in 2..4 : n = Width(d) /\ Len(x) = n /\ \A i \in 1..n : x[i] \in 0..11
  BY WordsOf
<1>2. Reverse(x) = [i \in 1..n |-> x[(n - i) + 1]]
  BY <1>1 DEF Reverse
<1>3. \A i \in 1..n : (n - i) + 1 \in 1..n
  BY <1>1
<1>4. Reverse(x) \in [1..n -> 0..11]
  BY <1>1, <1>2, <1>3
<1>5. \A i \in 1..n : Reverse(x)[i] = x[n - i + 1]
  BY <1>2
<1> QED BY <1>1, <1>4, <1>5 DEF Words

(* Words that agree at each place are the same value.                      *)
LEMMA SameWords ==
  ASSUME NEW d \in Formats, NEW x \in Words(d), NEW y \in Words(d),
         \A i \in 1..Width(d) : x[i] = y[i]
  PROVE  x = y
<1>1. x = [i \in 1..Width(d) |-> x[i]] /\ y = [i \in 1..Width(d) |-> y[i]]
  BY DEF Words
<1> QED BY <1>1

-----------------------------------------------------------------------------
(* The rank of a value *)

Rank(x) == IF IsNan(x) THEN -200 ELSE Number(x)

(* The number of a value is above the rank of a NaN.                       *)
LEMMA NumberBounds ==
  ASSUME NEW d \in Formats, NEW x \in Words(d)
  PROVE  /\ Top(x) \in 0..5 /\ Magnitude(x) \in 0..93
         /\ Number(x) \in -93..93 /\ Number(x) \in Int
         /\ Rank(x) \in -200..93 /\ Rank(x) \in Int
<1>1. x[1] \in Nat
  BY WordsOf
<1>2. Top(x) \in 0..5
  BY <1>1 DEF Top
<1>3. Word(x, 2) \in 0..11 /\ Word(x, 3) \in 0..11 /\ Word(x, 4) \in 0..11
  <2>1. PICK n \in 2..4 : n = Len(x) /\ \A i \in 1..n : x[i] \in 0..11
    BY WordsOf
  <2> QED BY <2>1 DEF Word
<1>4. Top(x) % 3 \in 0..2
  BY <1>2
<1>5. Magnitude(x) \in 0..93
  BY <1>3, <1>4 DEF Magnitude
<1>6. Number(x) \in -93..93
  BY <1>5 DEF Number
<1> QED BY <1>2, <1>5, <1>6 DEF Rank

(* Keys whose parts have the same ranks.                                   *)
SameRanks(c, k, l) == \A i \in 1..c : Rank(k[i]) = Rank(l[i])

Sign(i) == IF i < 0 THEN -1 ELSE IF i > 0 THEN 1 ELSE 0

(* Cmp compares the ranks.                                                 *)
LEMMA CmpRank ==
  ASSUME NEW d \in Formats, NEW x \in Words(d), NEW y \in Words(d)
  PROVE  Cmp(x, y) = Sign(Rank(x) - Rank(y))
<1>1. Number(x) \in -93..93 /\ Number(y) \in -93..93
  BY NumberBounds
<1>2. IsNan(x) \in BOOLEAN /\ IsNan(y) \in BOOLEAN
  BY DEF IsNan
<1>3. CASE IsNan(x)
  BY <1>1, <1>2, <1>3 DEF Cmp, Less, Rank, Sign
<1>4. CASE ~IsNan(x)
  <2>1. CASE IsNan(y)
    BY <1>1, <1>4, <2>1 DEF Cmp, Less, Rank, Sign
  <2>2. CASE ~IsNan(y)
    <3>1. Rank(x) = Number(x) /\ Rank(y) = Number(y)
      BY <1>4, <2>2 DEF Rank
    <3>2. PICK a \in Int, b \in Int : a = Number(x) /\ b = Number(y)
      BY NumberBounds
    <3>3. Cmp(x, y) = IF a < b THEN -1 ELSE IF b < a THEN 1 ELSE 0
      BY <1>4, <2>2, <3>2 DEF Cmp, Less
    <3> QED BY <3>1, <3>2, <3>3 DEF Sign
  <2> QED BY <2>1, <2>2
<1> QED BY <1>3, <1>4

(* Compare compares the ranks of the real parts, then of the imaginary     *)
(* parts.                                                                  *)
LEMMA CompareRanks ==
  ASSUME NEW d \in Formats, NEW c \in 1..2,
         NEW k \in [1..c -> Words(d)], NEW l \in [1..c -> Words(d)]
  PROVE  Compare(k, l) =
           IF c = 2 /\ Rank(k[1]) = Rank(l[1])
           THEN Sign(Rank(k[2]) - Rank(l[2])) ELSE Sign(Rank(k[1]) - Rank(l[1]))
<1>1. Len(k) = c
  OBVIOUS
<1>2. k[1] \in Words(d) /\ l[1] \in Words(d)
  OBVIOUS
<1>3. /\ Cmp(k[1], l[1]) = Sign(Rank(k[1]) - Rank(l[1]))
      /\ Rank(k[1]) \in Int /\ Rank(l[1]) \in Int
  BY <1>2, CmpRank, NumberBounds
<1>4. c = 2 => Cmp(k[2], l[2]) = Sign(Rank(k[2]) - Rank(l[2]))
  BY CmpRank
<1>5. Cmp(k[1], l[1]) = 0 <=> Rank(k[1]) = Rank(l[1])
  BY <1>3 DEF Sign
<1> QED BY <1>1, <1>3, <1>4, <1>5 DEF Compare

(* Keys that compare equal have the ranks of their parts equal.            *)
LEMMA CompareZero ==
  ASSUME NEW d \in Formats, NEW c \in 1..2,
         NEW k \in [1..c -> Words(d)], NEW l \in [1..c -> Words(d)]
  PROVE  Compare(k, l) = 0 <=> SameRanks(c, k, l)
<1>1. \A i \in 1..c : Rank(k[i]) \in Int /\ Rank(l[i]) \in Int
  BY NumberBounds
<1>2. CASE c = 1
  BY <1>1, <1>2, CompareRanks DEF Sign, SameRanks
<1>3. CASE c = 2
  BY <1>1, <1>3, CompareRanks DEF Sign, SameRanks
<1> QED BY <1>2, <1>3

(* compare of two keys, and of three, is that of an order.                 *)
LEMMA CompareOrders ==
  ASSUME NEW d \in Formats, NEW c \in 1..2, NEW k \in [1..c -> Words(d)],
         NEW l \in [1..c -> Words(d)], NEW m \in [1..c -> Words(d)]
  PROVE  /\ Compare(k, l) = -Compare(l, k)
         /\ Compare(k, l) <= 0 /\ Compare(l, m) <= 0 => Compare(k, m) <= 0
<1>1. \A i \in 1..c : Rank(k[i]) \in Int /\ Rank(l[i]) \in Int /\ Rank(m[i]) \in Int
  BY NumberBounds
<1>2. PICK k1 \in Int, l1 \in Int, m1 \in Int :
        k1 = Rank(k[1]) /\ l1 = Rank(l[1]) /\ m1 = Rank(m[1])
  BY <1>1
<1>3. CASE c = 1
  <2>1. /\ Compare(k, l) = Sign(k1 - l1) /\ Compare(l, k) = Sign(l1 - k1)
        /\ Compare(l, m) = Sign(l1 - m1) /\ Compare(k, m) = Sign(k1 - m1)
    BY <1>2, <1>3, CompareRanks
  <2> QED BY <2>1 DEF Sign
<1>4. CASE c = 2
  <2>1. PICK k2 \in Int, l2 \in Int, m2 \in Int :
          k2 = Rank(k[2]) /\ l2 = Rank(l[2]) /\ m2 = Rank(m[2])
    BY <1>1, <1>4
  <2>2. /\ Compare(k, l) = IF k1 = l1 THEN Sign(k2 - l2) ELSE Sign(k1 - l1)
        /\ Compare(l, k) = IF l1 = k1 THEN Sign(l2 - k2) ELSE Sign(l1 - k1)
        /\ Compare(l, m) = IF l1 = m1 THEN Sign(l2 - m2) ELSE Sign(l1 - m1)
        /\ Compare(k, m) = IF k1 = m1 THEN Sign(k2 - m2) ELSE Sign(k1 - m1)
    BY <1>2, <1>4, <2>1, CompareRanks
  <2> QED BY <2>2 DEF Sign
<1> QED BY <1>3, <1>4

(* = holds of two long doubles when they are equal numbers.                *)
LEMMA EqualParts ==
  ASSUME NEW d \in Formats, NEW x \in Words(d), NEW y \in Words(d)
  PROVE  (~Unordered(x, y) /\ Cmp(x, y) = 0) <=> Equal(x, y)
<1>1. Number(x) \in Int /\ Number(y) \in Int
  BY NumberBounds
<1> QED BY <1>1 DEF Unordered, Cmp, Less, Equal

(* ... and of two keys when their parts are.                               *)
LEMMA EqualKeys ==
  ASSUME NEW d \in Formats, NEW c \in 1..2,
         NEW k \in [1..c -> Words(d)], NEW l \in [1..c -> Words(d)]
  PROVE  PolymorphicEqual(k, l) <=> \A i \in 1..c : Equal(k[i], l[i])
<1>1. Len(k) = c
  OBVIOUS
<1>2. \A i \in 1..c : (~Unordered(k[i], l[i]) /\ Cmp(k[i], l[i]) = 0) <=> Equal(k[i], l[i])
  BY EqualParts
<1>3. CASE c = 1
  BY <1>1, <1>2, <1>3 DEF PolymorphicEqual, CompareUnordered, Compare
<1>4. CASE c = 2
  BY <1>1, <1>2, <1>4 DEF PolymorphicEqual, CompareUnordered, Compare
<1> QED BY <1>3, <1>4

-----------------------------------------------------------------------------
(* The normal form *)

(* The same value, but for the padding bit.                                *)
Alike(d, x, y) ==
  x[1] % 6 = y[1] % 6 /\ \A i \in 2..Width(d) : x[i] = y[i]

(* Values that are alike are the same to the processor.                    *)
LEMMA AlikeRank ==
  ASSUME NEW d \in Formats, NEW x \in Words(d), NEW y \in Words(d), Alike(d, x, y)
  PROVE  /\ IsNan(x) <=> IsNan(y)
         /\ IsZero(x) <=> IsZero(y)
         /\ Rank(x) = Rank(y)
<1>1. PICK n \in 2..4 : n = Width(d) /\ Len(x) = n /\ Len(y) = n
  BY WordsOf
<1>2. Top(x) = Top(y) /\ \A i \in 2..n : x[i] = y[i]
  BY <1>1 DEF Alike, Top
<1>3. (IsNan(x) <=> IsNan(y)) /\ (IsZero(x) <=> IsZero(y))
  BY <1>1, <1>2 DEF IsNan, IsZero
<1>4. Word(x, 2) = Word(y, 2) /\ Word(x, 3) = Word(y, 3) /\ Word(x, 4) = Word(y, 4)
  BY <1>1, <1>2 DEF Word
<1>5. Number(x) = Number(y)
  BY <1>2, <1>4 DEF Number, Magnitude
<1> QED BY <1>3, <1>5 DEF Rank

(* What normalising leaves of a value: nothing of a zero but its being     *)
(* zero, nothing of a NaN but its being one.                               *)
LEMMA NormOf ==
  ASSUME NEW d \in Formats, NEW x \in LongDoubles(d)
  PROVE  /\ Norm(x) \in LongDoubles(d)
         /\ Rank(Norm(x)) = Rank(x)
<1>1. x \in Words(d)
  BY AreWords
<1>2. PICK n \in 2..4 : n = Width(d) /\ Len(x) = n
  BY <1>1, WordsOf
<1>3. CASE IsZero(x)
  <2>1. Norm(x) = [i \in 1..n |-> 0]
    BY <1>2, <1>3 DEF Norm
  <2>2. Norm(x) \in LongDoubles(d)
    BY <1>2, <2>1 DEF LongDoubles
  <2>3. Norm(x) \in Words(d) /\ Len(Norm(x)) = n
    BY <1>2, <2>2, AreWords, WordsOf
  <2>4. /\ \A i \in 2..n : x[i] = 0 /\ Norm(x)[i] = 0
        /\ Top(x) \in 0..5 /\ Top(x) % 3 = 0 /\ Top(Norm(x)) = 0
    BY <1>1, <1>2, <1>3, <2>1, NumberBounds DEF IsZero, Top
  <2>5. ~IsNan(x) /\ ~IsNan(Norm(x))
    BY <2>4 DEF IsNan
  <2>6. \A i \in 2..4 : Word(x, i) = 0 /\ Word(Norm(x), i) = 0
    BY <1>2, <2>3, <2>4 DEF Word
  <2>7. Magnitude(x) = 0 /\ Magnitude(Norm(x)) = 0
    BY <2>4, <2>6 DEF Magnitude
  <2> QED BY <2>2, <2>5, <2>7 DEF Rank, Number
<1>4. CASE ~IsZero(x) /\ IsNan(x)
  <2>1. Norm(x) = [i \in 1..n |-> CASE i = 1 -> 2 [] i = 2 -> 1 [] OTHER -> 0]
    BY <1>2, <1>4 DEF Norm
  <2>2. /\ Norm(x)[1] = 2 /\ Norm(x)[2] = 1
        /\ \A i \in 1..n : Norm(x)[i] \in 0..2
        /\ \A i \in 2..n : Norm(x)[i] \in 0..1
    BY <2>1
  <2>3. Norm(x) \in LongDoubles(d)
    <3>1. Norm(x) \in [1..n -> 0..11]
      BY <2>1, <2>2
    <3>2. Norm(x)[1] <= (IF d = 64 THEN 11 ELSE 5)
      BY <2>2
    <3>3. \A i \in 2..n : Norm(x)[i] <= 1
      BY <2>2
    <3> QED BY <1>2, <3>1, <3>2, <3>3 DEF LongDoubles
  <2>4. Norm(x) \in Words(d) /\ Len(Norm(x)) = n
    BY <1>2, <2>3, AreWords, WordsOf
  <2>5. Top(Norm(x)) = 2
    BY <2>2 DEF Top
  <2>6. IsNan(Norm(x))
    BY <2>2, <2>4, <2>5 DEF IsNan
  <2> QED BY <1>4, <2>3, <2>6 DEF Rank
<1>5. CASE ~IsZero(x) /\ ~IsNan(x)
  BY <1>5 DEF Norm
<1> QED BY <1>3, <1>4, <1>5

(* A magnitude: its exponent and its fraction.                             *)
Binary(r, x2, x3, x4) == 8 * r + 4 * x2 + 2 * x3 + x4

(* A number has one sign, exponent and fraction, unless it is zero.        *)
LEMMA NumberWords ==
  ASSUME NEW d \in Formats, NEW x \in LongDoubles(d), NEW y \in LongDoubles(d),
         Number(x) = Number(y)
  PROVE  IF Number(x) = 0 THEN IsZero(x) /\ IsZero(y)
         ELSE ~IsZero(x) /\ ~IsZero(y) /\ Alike(d, x, y)
<1>1. x \in Words(d) /\ y \in Words(d)
  BY AreWords
<1>2. PICK n \in 2..4 : n = Width(d) /\ Len(x) = n /\ Len(y) = n
  BY <1>1, WordsOf
<1>3. \A i \in 2..n : x[i] \in 0..1 /\ y[i] \in 0..1
  BY <1>2, LowWords
<1>4. PICK t \in 0..5, u \in 0..5 : t = Top(x) /\ u = Top(y)
  BY <1>1, NumberBounds
<1>5. \A i \in 2..4 : Word(x, i) \in 0..1 /\ Word(y, i) \in 0..1
  <2> SUFFICES ASSUME NEW i \in 2..4 PROVE Word(x, i) \in 0..1 /\ Word(y, i) \in 0..1
    OBVIOUS
  <2>1. CASE i <= n
    BY <1>2, <1>3, <2>1 DEF Word
  <2>2. CASE ~(i <= n)
    BY <1>2, <2>2 DEF Word
  <2> QED BY <2>1, <2>2
<1>6. PICK x2 \in 0..1, x3 \in 0..1, x4 \in 0..1 :
        x2 = Word(x, 2) /\ x3 = Word(x, 3) /\ x4 = Word(x, 4)
  BY <1>5
<1>7. PICK y2 \in 0..1, y3 \in 0..1, y4 \in 0..1 :
        y2 = Word(y, 2) /\ y3 = Word(y, 3) /\ y4 = Word(y, 4)
  BY <1>5
<1>8. PICK r \in 0..2, s \in 0..2 :
        /\ r = t % 3 /\ s = u % 3
        /\ t = (IF t >= 3 THEN r + 3 ELSE r) /\ u = (IF u >= 3 THEN s + 3 ELSE s)
  OBVIOUS
<1>9. PICK a \in Nat, b \in Nat : a = Binary(r, x2, x3, x4) /\ b = Binary(s, y2, y3, y4)
  BY DEF Binary
<1> DEFINE v == IF t >= 3 THEN -a ELSE a
           w == IF u >= 3 THEN -b ELSE b
<1>10. v = Number(x) /\ w = Number(y)
  BY <1>4, <1>6, <1>7, <1>8, <1>9 DEF Number, Magnitude, Binary
<1>11. v = w
  BY <1>10
<1>12. /\ IsZero(x) <=> r = 0 /\ x2 = 0 /\ x3 = 0 /\ x4 = 0
       /\ IsZero(y) <=> s = 0 /\ y2 = 0 /\ y3 = 0 /\ y4 = 0
  <2>1. n = 2 => x3 = 0 /\ x4 = 0 /\ y3 = 0 /\ y4 = 0
    BY <1>2, <1>6, <1>7 DEF Word
  <2>2. n = 3 => x3 = x[3] /\ y3 = y[3] /\ x4 = 0 /\ y4 = 0
    BY <1>2, <1>6, <1>7 DEF Word
  <2>3. n = 4 => x3 = x[3] /\ y3 = y[3] /\ x4 = x[4] /\ y4 = y[4]
    BY <1>2, <1>6, <1>7 DEF Word
  <2>4. x2 = x[2] /\ y2 = y[2]
    BY <1>2, <1>6, <1>7 DEF Word
  <2>5. /\ (\A i \in 2..n : x[i] = 0) <=> x2 = 0 /\ x3 = 0 /\ x4 = 0
        /\ (\A i \in 2..n : y[i] = 0) <=> y2 = 0 /\ y3 = 0 /\ y4 = 0
    <3>1. CASE n = 2
      <4>1. 2..n = {2}
        BY <3>1
      <4> QED BY <4>1, <3>1, <2>1, <2>4
    <3>2. CASE n = 3
      <4>1. 2..n = {2, 3}
        BY <3>2
      <4> QED BY <4>1, <3>2, <2>2, <2>4
    <3>3. CASE n = 4
      <4>1. 2..n = {2, 3, 4}
        BY <3>3
      <4> QED BY <4>1, <3>3, <2>3, <2>4
    <3> QED BY <3>1, <3>2, <3>3
  <2> QED BY <1>2, <1>4, <1>8, <2>5 DEF IsZero
<1>13. CASE v = 0
  <2>1. a = 0 /\ b = 0
    BY <1>13, <1>11
  <2>2. r = 0 /\ x2 = 0 /\ x3 = 0 /\ x4 = 0 /\ s = 0 /\ y2 = 0 /\ y3 = 0 /\ y4 = 0
    BY <1>9, <2>1 DEF Binary
  <2>3. IsZero(x) /\ IsZero(y)
    BY <1>12, <2>2
  <2> QED BY <1>13, <1>10, <2>3
<1>14. CASE v # 0
  <2>1. a = b /\ a # 0 /\ (t >= 3 <=> u >= 3)
    BY <1>14, <1>11
  <2>2. t = u /\ x2 = y2 /\ x3 = y3 /\ x4 = y4
    <3>1. r = s /\ x2 = y2 /\ x3 = y3 /\ x4 = y4
      BY <1>9, <2>1 DEF Binary
    <3> QED BY <1>8, <2>1, <3>1
  <2>3. \A i \in 2..n : x[i] = Word(x, i) /\ y[i] = Word(y, i)
    BY <1>2 DEF Word
  <2>4. \A i \in 2..n : x[i] = y[i]
    BY <1>6, <1>7, <2>2, <2>3
  <2>5. Alike(d, x, y)
    BY <1>2, <1>4, <2>2, <2>4 DEF Alike, Top
  <2>6. ~(r = 0 /\ x2 = 0 /\ x3 = 0 /\ x4 = 0)
    BY <1>9, <2>1 DEF Binary
  <2>7. ~IsZero(x) /\ ~IsZero(y)
    BY <1>12, <2>2, <2>6, <1>8
  <2> QED BY <1>14, <1>10, <2>5, <2>7
<1> QED BY <1>13, <1>14

(* Two processors of the 16 byte format read its words in one order.       *)
LEMMA QuadrupleOrder ==
  ASSUME OneQuadruple, NEW p \in Platforms, NEW q \in Platforms, p.dig = 113, q.dig = 113
  PROVE  p.big = q.big
BY DEF OneQuadruple

(* Values of one rank have one normal form.                                *)
LEMMA NormAlike ==
  ASSUME NEW d \in Formats, NEW x \in LongDoubles(d), NEW y \in LongDoubles(d),
         Rank(x) = Rank(y)
  PROVE  Alike(d, Norm(x), Norm(y))
<1>1. x \in Words(d) /\ y \in Words(d)
  BY AreWords
<1>2. PICK n \in 2..4 : n = Width(d) /\ Len(x) = n /\ Len(y) = n
  BY <1>1, WordsOf
<1>3. Number(x) \in -93..93 /\ Number(y) \in -93..93
  BY <1>1, NumberBounds
<1>4. CASE IsNan(x)
  <2>1. IsNan(y)
    BY <1>3, <1>4 DEF Rank
  <2>2. ~IsZero(x) /\ ~IsZero(y)
    BY <1>4, <2>1 DEF IsNan, IsZero
  <2>3. Norm(x) = Norm(y)
    BY <1>2, <1>4, <2>1, <2>2 DEF Norm
  <2> QED BY <2>3 DEF Alike
<1>5. CASE ~IsNan(x)
  <2>1. ~IsNan(y) /\ Number(x) = Number(y)
    BY <1>3, <1>5 DEF Rank
  <2>2. CASE Number(x) = 0
    <3>1. Norm(x) = Norm(y)
      BY <1>2, <2>1, <2>2, NumberWords DEF Norm
    <3> QED BY <3>1 DEF Alike
  <2>3. CASE Number(x) # 0
    BY <1>5, <2>1, <2>3, NumberWords DEF Norm
  <2> QED BY <2>2, <2>3
<1> QED BY <1>4, <1>5

-----------------------------------------------------------------------------
(* Hashes *)

(* There is no big endian processor with the 10 byte format.               *)
LEMMA PlatformOf ==
  ASSUME NEW p \in Platforms
  PROVE  p.dig \in Formats /\ p.big \in BOOLEAN /\ (p.dig = 64 => ~p.big)
<1>1. p \in [dig : {53, 64, 113}, big : BOOLEAN]
  BY LongDoubleConstants
<1>2. p = [dig |-> p.dig, big |-> p.big]
  BY <1>1
<1> QED BY <1>1, <1>2, LongDoubleConstants DEF Formats

(* Where there is no padding bit, values that are alike are the same.      *)
LEMMA AlikeSame ==
  ASSUME NEW d \in {53, 113}, NEW x \in LongDoubles(d), NEW y \in LongDoubles(d),
         Alike(d, x, y)
  PROVE  x = y
<1>1. d \in Formats /\ x \in Words(d) /\ y \in Words(d)
  BY AreWords DEF Formats
<1>2. PICK n \in 2..4 : n = Width(d) /\ \A i \in 1..n : x[i] \in 0..11 /\ y[i] \in 0..11
  BY <1>1, WordsOf
<1>3. x[1] <= 5 /\ y[1] <= 5
  BY DEF LongDoubles
<1>4. x[1] = y[1]
  BY <1>2, <1>3 DEF Alike
<1>5. \A i \in 1..n : x[i] = y[i]
  BY <1>2, <1>4 DEF Alike
<1> QED BY <1>1, <1>2, <1>5, SameWords

(* What is mixed of a value does not tell its sign of zero, its NaN or its *)
(* padding, nor where it is mixed.                                         *)
LEMMA MixSame ==
  ASSUME OneQuadruple, NEW p \in Platforms, NEW q \in Platforms, p.dig = q.dig,
         NEW x \in LongDoubles(p.dig), NEW y \in LongDoubles(p.dig), Rank(x) = Rank(y),
         NEW h
  PROVE  MixHash(p, h, x) = MixHash(q, h, y)
<1>1. p.dig \in Formats /\ q.dig \in Formats
  BY PlatformOf
<1>2. PICK n \in LongDoubles(p.dig), m \in LongDoubles(p.dig) : n = Norm(x) /\ m = Norm(y)
  BY <1>1, NormOf
<1>3. Alike(p.dig, n, m)
  BY <1>1, <1>2, NormAlike
<1>4. CASE p.dig = 53
  <2>1. n = m
    BY <1>3, <1>4, AlikeSame
  <2> QED BY <1>2, <1>4, <2>1 DEF MixHash
<1>5. CASE p.dig = 64
  <2>1. ~p.big /\ ~q.big
    BY <1>5, PlatformOf
  <2>2. n \in Words(64) /\ m \in Words(64) /\ 64 \in Formats /\ Width(64) = 3
    BY <1>5, AreWords DEF Formats, Width
  <2>3. /\ Reverse(n)[1] = n[3] /\ Reverse(n)[2] = n[2] /\ Reverse(n)[3] = n[1]
        /\ Reverse(m)[1] = m[3] /\ Reverse(m)[2] = m[2] /\ Reverse(m)[3] = m[1]
    BY <2>2, ReversedWords
  <2>4. n[3] = m[3] /\ n[2] = m[2] /\ n[1] % 6 = m[1] % 6
    BY <1>3, <1>5, <2>2 DEF Alike
  <2>5. MixHash(p, h, x) = h \o <<n[3], n[2], n[1] % 6>>
    BY <1>2, <1>5, <2>1, <2>3 DEF MixHash, Memory
  <2>6. MixHash(q, h, y) = h \o <<m[3], m[2], m[1] % 6>>
    BY <1>2, <1>5, <2>1, <2>3 DEF MixHash, Memory
  <2> QED BY <2>4, <2>5, <2>6
<1>6. CASE p.dig = 113
  <2>1. n = m
    BY <1>3, <1>6, AlikeSame
  <2>2. p.big = q.big
    <3>1. q.dig = 113
      BY <1>6
    <3> QED BY <1>6, <3>1, QuadrupleOrder
  <2>3. MixHash(p, h, x) = h \o Halves(p, Memory(p, n))
    BY <1>2, <1>6 DEF MixHash
  <2>4. MixHash(q, h, y) = h \o Halves(q, Memory(q, n))
    BY <1>2, <1>6, <2>1 DEF MixHash
  <2> QED BY <2>2, <2>3, <2>4 DEF Halves, Memory
<1> QED BY <1>1, <1>4, <1>5, <1>6 DEF Formats

(* Keys of a format that compare equal.                                    *)
Equivalent(c, d, k, l) ==
  k \in [1..c -> LongDoubles(d)] /\ l \in [1..c -> LongDoubles(d)] /\ SameRanks(c, k, l)

(* Keys that compare equal have one hash, on each processor of the format. *)
LEMMA HashSame ==
  ASSUME OneQuadruple, NEW p \in Platforms, NEW q \in Platforms, p.dig = q.dig,
         NEW c \in 1..2, NEW k, NEW l, Equivalent(c, p.dig, k, l)
  PROVE  HashOf(p, k) = HashOf(q, l)
<1>1. /\ k \in [1..c -> LongDoubles(p.dig)] /\ l \in [1..c -> LongDoubles(p.dig)]
      /\ SameRanks(c, k, l) /\ Len(k) = c /\ Len(l) = c
  BY DEF Equivalent
<1>2. Rank(k[1]) = Rank(l[1]) /\ (c = 2 => Rank(k[2]) = Rank(l[2]))
  BY <1>1 DEF SameRanks
<1>3. MixHash(p, <<>>, k[1]) = MixHash(q, <<>>, l[1])
  BY <1>1, <1>2, MixSame
<1>4. c = 2 => MixHash(p, MixHash(p, <<>>, k[1]), k[2]) = MixHash(q, MixHash(p, <<>>, k[1]), l[2])
  BY <1>1, <1>2, MixSame
<1>5. c = 1 \/ c = 2
  OBVIOUS
<1> QED BY <1>1, <1>3, <1>4, <1>5 DEF HashOf

-----------------------------------------------------------------------------
(* Marshalling *)

(* What is read of a value that was written is a value of the format.      *)
LEMMA ReadIsWords ==
  ASSUME NEW p \in Platforms, NEW q \in Platforms, p.dig = q.dig,
         NEW x \in Words(p.dig), NEW pad \in 0..1
  PROVE  DeserializeData(q, SerializeData(p, x), pad) \in Words(p.dig)
<1>1. p.dig \in Formats /\ q.dig \in Formats
  BY PlatformOf
<1>2. \A r \in Platforms, y \in Words(p.dig) :
        Memory(r, y) \in Words(p.dig) /\ FromMemory(r, y) \in Words(p.dig)
  BY <1>1, ReversedWords DEF Memory, FromMemory
<1>3. CASE p.dig = 53
  BY <1>3 DEF SerializeData, DeserializeData
<1>4. CASE p.dig = 64
  <2>1. Width(64) = 3
    BY DEF Width
  <2>2. PICK a \in Words(64) : a = Memory(p, x)
    BY <1>2, <1>4
  <2>3. PICK b : b = <<a[2], a[1], a[3] % 6>>
    OBVIOUS
  <2>4. SerializeData(p, x) = b
    BY <1>4, <2>2, <2>3 DEF SerializeData
  <2>5. a[1] \in 0..11 /\ a[2] \in 0..11 /\ a[3] \in 0..11
    BY <2>1, <2>2 DEF Words
  <2>6. b[1] \in 0..11 /\ b[2] \in 0..11 /\ b[3] \in 0..5
    BY <2>3, <2>5
  <2>7. <<b[2], b[1], b[3] + 6 * pad>> \in Words(64)
    <3>1. PICK e \in 0..11 : e = b[3] + 6 * pad
      BY <2>6
    <3>2. <<b[2], b[1], e>> \in [1..3 -> 0..11]
      BY <2>6
    <3> QED BY <2>1, <3>1, <3>2 DEF Words
  <2> QED BY <1>2, <1>4, <2>4, <2>7 DEF DeserializeData
<1>5. CASE p.dig = 113
  <2>1. \A r \in Platforms, y \in Words(113) : Halves(r, y) \in Words(113)
    <3>1. Width(113) = 4
      BY DEF Width
    <3>2. TAKE r \in Platforms, y \in Words(113)
    <3>3. y \in [1..4 -> 0..11]
      BY <3>1 DEF Words
    <3>4. y[1] \in 0..11 /\ y[2] \in 0..11 /\ y[3] \in 0..11 /\ y[4] \in 0..11
      BY <3>3
    <3>5. <<y[2], y[1], y[4], y[3]>> \in [1..4 -> 0..11]
      BY <3>4
    <3>6. Halves(r, y) \in [1..4 -> 0..11]
      BY <3>3, <3>5 DEF Halves
    <3> QED BY <3>1, <3>6 DEF Words
  <2> QED BY <1>2, <1>5, <2>1 DEF SerializeData, DeserializeData
<1> QED BY <1>1, <1>3, <1>4, <1>5 DEF Formats

(* ... and alike, when the 16 byte format has one byte order.              *)
LEMMA ReadIsAlike ==
  ASSUME OneQuadruple, NEW p \in Platforms, NEW q \in Platforms, p.dig = q.dig,
         NEW x \in LongDoubles(p.dig), NEW pad \in 0..1
  PROVE  /\ DeserializeData(q, SerializeData(p, x), pad) \in LongDoubles(p.dig)
         /\ Rank(DeserializeData(q, SerializeData(p, x), pad)) = Rank(x)
<1>1. p.dig \in Formats /\ q.dig \in Formats /\ x \in Words(p.dig)
  BY PlatformOf, AreWords
<1>2. CASE p.dig = 53
  BY <1>2 DEF SerializeData, DeserializeData
<1>3. CASE p.dig = 64
  <2>1. ~p.big /\ ~q.big
    BY <1>3, PlatformOf
  <2>2. 64 \in Formats /\ Width(64) = 3 /\ x \in Words(64)
    BY <1>1, <1>3 DEF Formats, Width
  <2>3. /\ x[1] \in 0..11 /\ x[2] \in 0..1 /\ x[3] \in 0..1
    BY <1>3, <2>2 DEF LongDoubles
  <2>4. SerializeData(p, x) = <<x[2], x[3], x[1] % 6>>
    <3>1. Reverse(x)[1] = x[3] /\ Reverse(x)[2] = x[2] /\ Reverse(x)[3] = x[1]
      BY <2>2, ReversedWords
    <3> QED BY <1>3, <2>1, <3>1 DEF SerializeData, Memory
  <2>5. PICK a : a = <<x[3], x[2], (x[1] % 6) + 6 * pad>>
    OBVIOUS
  <2>6. DeserializeData(q, SerializeData(p, x), pad) = Reverse(a)
    BY <1>3, <2>1, <2>4, <2>5 DEF DeserializeData, FromMemory
  <2>7. /\ a[1] = x[3] /\ a[2] = x[2] /\ a[3] = (x[1] % 6) + 6 * pad
        /\ a \in Words(64)
    <3>1. PICK e \in 0..11 : e = (x[1] % 6) + 6 * pad
      BY <2>3
    <3>2. a = <<x[3], x[2], e>>
      BY <2>5, <3>1
    <3>3. a \in [1..3 -> 0..11]
      BY <2>3, <3>2
    <3> QED BY <2>2, <3>1, <3>2, <3>3 DEF Words
  <2>8. PICK y \in Words(64) :
          y = Reverse(a) /\ y[1] = a[3] /\ y[2] = a[2] /\ y[3] = a[1]
    BY <2>2, <2>7, ReversedWords
  <2>9. y[1] \in 0..11 /\ y[1] % 6 = x[1] % 6
    BY <2>3, <2>7, <2>8
  <2>10. y \in LongDoubles(64)
    <3>1. y[2] = x[2] /\ y[3] = x[3]
      BY <2>7, <2>8
    <3>2. y[1] <= 11 /\ y[2] <= 1 /\ y[3] <= 1
      BY <2>3, <2>9, <3>1
    <3>3. \A i \in 2..3 : y[i] <= 1
      <4>1. 2..3 = {2, 3}
        OBVIOUS
      <4> QED BY <3>2, <4>1
    <3> QED BY <2>2, <2>8, <3>2, <3>3 DEF LongDoubles, Words
  <2>11. Alike(64, x, y)
    <3>1. \A i \in 2..3 : x[i] = y[i]
      BY <2>7, <2>8
    <3> QED BY <2>2, <2>9, <3>1 DEF Alike
  <2> QED BY <1>3, <2>2, <2>6, <2>8, <2>10, <2>11, AlikeRank
<1>4. CASE p.dig = 113
  <2>1. p.big = q.big
    <3>1. q.dig = 113
      BY <1>4
    <3> QED BY <1>4, <3>1, QuadrupleOrder
  <2>2. 113 \in Formats /\ Width(113) = 4 /\ x \in Words(113)
    BY <1>1, <1>4 DEF Formats, Width
  <2>3. PICK a \in Words(113) :
          a = Memory(p, x) /\ FromMemory(q, a) = x
    <3>1. CASE p.big
      BY <2>1, <2>2, <3>1 DEF Memory, FromMemory
    <3>2. CASE ~p.big
      <4>1. PICK a \in Words(113) : a = Reverse(x) /\ \A i \in 1..4 : a[i] = x[5 - i]
        <5>1. Reverse(x) \in Words(113) /\ \A i \in 1..4 : Reverse(x)[i] = x[4 - i + 1]
          BY <2>2, ReversedWords
        <5> QED BY <5>1
      <4>2. PICK y \in Words(113) : y = Reverse(a) /\ \A i \in 1..4 : y[i] = a[4 - i + 1]
        BY <2>2, ReversedWords
      <4>3. \A i \in 1..4 : y[i] = x[i]
        BY <4>1, <4>2
      <4>4. y = x
        BY <2>2, <4>3, SameWords
      <4> QED BY <2>1, <3>2, <4>1, <4>2, <4>4 DEF Memory, FromMemory
    <3> QED BY <3>1, <3>2
  <2>4. Halves(q, Halves(p, a)) = a
    <3>1. a = <<a[1], a[2], a[3], a[4]>>
      BY <2>2 DEF Words
    <3> QED BY <2>1, <3>1 DEF Halves
  <2>5. DeserializeData(q, SerializeData(p, x), pad) = x
    BY <1>4, <2>3, <2>4 DEF DeserializeData, SerializeData
  <2> QED BY <2>5
<1> QED BY <1>1, <1>2, <1>3, <1>4 DEF Formats

(* Normalising keeps the format.                                           *)
LEMMA NormWords ==
  ASSUME NEW d \in Formats, NEW x \in Words(d)
  PROVE  Norm(x) \in Words(d)
<1>1. PICK n \in 2..4 : n = Width(d) /\ Len(x) = n
  BY WordsOf
<1>2. CASE IsZero(x)
  BY <1>1, <1>2 DEF Norm, Words
<1>3. CASE ~IsZero(x) /\ IsNan(x)
  <2>1. Norm(x) = [i \in 1..n |-> CASE i = 1 -> 2 [] i = 2 -> 1 [] OTHER -> 0]
    BY <1>1, <1>3 DEF Norm
  <2>2. \A i \in 1..n : Norm(x)[i] \in 0..11
    BY <2>1
  <2> QED BY <1>1, <2>1, <2>2 DEF Words
<1>4. CASE ~IsZero(x) /\ ~IsNan(x)
  BY <1>4 DEF Norm
<1> QED BY <1>2, <1>3, <1>4

(* The parts that are written of a key: of a long double in normal form.   *)
Written(c, k) == IF c = 1 THEN [i \in 1..1 |-> Norm(k[1])] ELSE k

(* ... and y is what is read of them, part by part.                        *)
IsRead(c, p, q, k, pad, y) ==
  \A i \in 1..c : y[i] = DeserializeData(q, SerializeData(p, Written(c, k)[i]), pad)

(* A key that is written and read, part by part.                           *)
LEMMA ReadOfWritten ==
  ASSUME NEW c \in 1..2, NEW S, NEW k \in [1..c -> S], NEW p, NEW q, NEW pad, NEW T,
         \A i \in 1..c : DeserializeData(q, SerializeData(p, Written(c, k)[i]), pad) \in T
  PROVE  /\ Deserialize(q, Serialize(p, k), pad) \in [1..c -> T]
         /\ IsRead(c, p, q, k, pad, Deserialize(q, Serialize(p, k), pad))
<1>1. k \in Seq(S) /\ Len(k) = c
  OBVIOUS
<1>2. CASE c = 1
  <2>1. Serialize(p, k).parts = <<SerializeData(p, Norm(k[1]))>>
    BY <1>1, <1>2 DEF Serialize
  <2> QED BY <1>2, <2>1 DEF Deserialize, Written, IsRead
<1>3. CASE c = 2
  <2>1. Serialize(p, k).parts = <<SerializeData(p, k[1]), SerializeData(p, k[2])>>
    BY <1>1, <1>3 DEF Serialize
  <2> QED BY <1>3, <2>1 DEF Deserialize, Written, IsRead
<1> QED BY <1>2, <1>3

(* A key read is a key of the format.                                      *)
LEMMA ReadIsKey ==
  ASSUME NEW p \in Platforms, NEW q \in Platforms, p.dig = q.dig,
         NEW c \in 1..2, NEW k \in [1..c -> Words(p.dig)], NEW pad \in 0..1
  PROVE  Deserialize(q, Serialize(p, k), pad) \in [1..c -> Words(p.dig)]
<1>1. \A i \in 1..c : Written(c, k)[i] \in Words(p.dig)
  BY NormWords, PlatformOf DEF Written
<1>2. \A i \in 1..c :
        DeserializeData(q, SerializeData(p, Written(c, k)[i]), pad) \in Words(p.dig)
  BY <1>1, ReadIsWords
<1> QED BY <1>2, ReadOfWritten

(* ... and compares equal to the key that was written.                     *)
LEMMA ReadIsSameKey ==
  ASSUME OneQuadruple, NEW p \in Platforms, NEW q \in Platforms, p.dig = q.dig,
         NEW c \in 1..2, NEW k \in [1..c -> LongDoubles(p.dig)], NEW pad \in 0..1
  PROVE  /\ Deserialize(q, Serialize(p, k), pad) \in [1..c -> LongDoubles(p.dig)]
         /\ SameRanks(c, k, Deserialize(q, Serialize(p, k), pad))
<1>1. \A i \in 1..c : /\ Written(c, k)[i] \in LongDoubles(p.dig)
                      /\ Rank(Written(c, k)[i]) = Rank(k[i])
  BY NormOf, PlatformOf DEF Written
<1>2. \A i \in 1..c :
        /\ DeserializeData(q, SerializeData(p, Written(c, k)[i]), pad) \in LongDoubles(p.dig)
        /\ Rank(DeserializeData(q, SerializeData(p, Written(c, k)[i]), pad)) = Rank(k[i])
  BY <1>1, ReadIsAlike
<1>3. \A i \in 1..c :
        DeserializeData(q, SerializeData(p, Written(c, k)[i]), pad) \in LongDoubles(p.dig)
  BY <1>2
<1>4. /\ Deserialize(q, Serialize(p, k), pad) \in [1..c -> LongDoubles(p.dig)]
      /\ IsRead(c, p, q, k, pad, Deserialize(q, Serialize(p, k), pad))
  BY <1>3, ReadOfWritten
<1> QED BY <1>2, <1>4 DEF SameRanks, IsRead

-----------------------------------------------------------------------------
(* The invariant *)

(* The process or its file, not both: the file is the saved table, written *)
(* on the processor where the last process ran.                            *)
Marshalled(p, t) == {[hash |-> e.hash, data |-> Serialize(p, e.key)] : e \in t}

TypeInv ==
  /\ components \in 1..2 /\ platform \in Platforms /\ up \in BOOLEAN
  /\ \A e \in table \cup saved : e.key \in [1..components -> Words(platform.dig)]
  /\ IF up THEN file = {} /\ saved = {}
     ELSE table = {} /\ saved # {} /\ file = Marshalled(platform, saved)

(* Each key is where its hash says it is, on the processor that has it.    *)
HashInv ==
  \A e \in table \cup saved :
    /\ e.key \in [1..components -> LongDoubles(platform.dig)]
    /\ e.hash = HashOf(platform, e.key)

(* The keys a process uses are values of its format.                       *)
LEMMA UsedKeys ==
  ASSUME TypeInv
  PROVE  /\ platform.dig \in Formats
         /\ Used \subseteq [1..components -> LongDoubles(platform.dig)]
         /\ Used \subseteq [1..components -> Words(platform.dig)]
<1>1. platform.dig \in Formats
  BY PlatformOf DEF TypeInv
<1>2. Used \subseteq [1..components -> LongDoubles(platform.dig)]
  <2>1. PICK c \in 1..2, d \in Formats : c = components /\ d = platform.dig
    BY <1>1 DEF TypeInv
  <2>2. Keys[c][d] \subseteq [1..c -> LongDoubles(d)]
    <3> DEFINE Fits(i, dig) == Keys[i][dig] \subseteq [1..i -> LongDoubles(dig)]
    <3>1. \A i \in 1..2, dig \in {53, 64, 113} : Fits(i, dig)
      BY LongDoubleConstants, Zenon
    <3> HIDE DEF Fits
    <3>2. Fits(c, d)
      BY <3>1 DEF Formats
    <3> QED BY <3>2 DEF Fits
  <2>3. Used = Keys[c][d]
    BY <2>1 DEF Used
  <2> QED BY <2>1, <2>2, <2>3
<1> QED BY <1>1, <1>2, AreWords

(* What a process loads of a file of its format: the keys, as they are     *)
(* read.                                                                   *)
LEMMA Loaded ==
  ASSUME TypeInv, NEW p \in Platforms, NEW pad \in 0..1, Load(p, pad)
  PROVE  IF p.dig = platform.dig
         THEN /\ \A e \in saved : \E f \in table' :
                   f.key = Deserialize(p, Serialize(platform, e.key), pad)
              /\ \A f \in table' : \E e \in saved :
                   /\ f.key = Deserialize(p, Serialize(platform, e.key), pad)
                   /\ f.hash = e.hash
         ELSE table' = {}
<1>1. /\ file = Marshalled(platform, saved) /\ saved # {}
      /\ table' = IF \E e \in file : e.data.tag # p.dig THEN {}
                  ELSE {[hash |-> e.hash, key |-> Deserialize(p, e.data, pad)] : e \in file}
  BY DEF TypeInv, Load
<1>2. \A e \in saved : /\ [hash |-> e.hash, data |-> Serialize(platform, e.key)] \in file
                       /\ Serialize(platform, e.key).tag = platform.dig
  BY <1>1 DEF Marshalled, Serialize
<1>3. \A f \in file : \E e \in saved :
        f = [hash |-> e.hash, data |-> Serialize(platform, e.key)]
  BY <1>1 DEF Marshalled
<1>4. \A f \in file : \E e \in saved :
        f.hash = e.hash /\ f.data = Serialize(platform, e.key) /\ f.data.tag = platform.dig
  BY <1>2, <1>3
<1>5. CASE p.dig = platform.dig
  <2>1. table' = {[hash |-> f.hash, key |-> Deserialize(p, f.data, pad)] : f \in file}
    BY <1>1, <1>4, <1>5
  <2>2. ASSUME NEW e \in saved
        PROVE  \E f \in table' : f.key = Deserialize(p, Serialize(platform, e.key), pad)
    <3>1. PICK m \in file : m.data = Serialize(platform, e.key)
      BY <1>2
    <3>2. [hash |-> m.hash, key |-> Deserialize(p, m.data, pad)] \in table'
      BY <2>1
    <3> QED BY <3>1, <3>2
  <2>3. ASSUME NEW f \in table'
        PROVE  \E e \in saved : /\ f.key = Deserialize(p, Serialize(platform, e.key), pad)
                                /\ f.hash = e.hash
    <3>1. PICK m \in file : f = [hash |-> m.hash, key |-> Deserialize(p, m.data, pad)]
      BY <2>1
    <3>2. f.hash = m.hash /\ f.key = Deserialize(p, m.data, pad)
      BY <3>1
    <3> QED BY <1>4, <3>2
  <2> QED BY <1>5, <2>2, <2>3
<1>6. CASE p.dig # platform.dig
  <2>1. PICK e \in saved : TRUE
    BY <1>1
  <2>2. PICK m \in file : TRUE
    BY <1>2, <2>1
  <2>3. m.data.tag # p.dig
    BY <1>4, <1>6
  <2> QED BY <1>1, <1>6, <2>3
<1> QED BY <1>5, <1>6

(* The table, the file and their keys have their types.                    *)
LEMMA TypeInvariance == Spec => []TypeInv
<1>1. Init => TypeInv
  BY DEF Init, TypeInv
<1>2. TypeInv /\ [Next]_vars => TypeInv'
  <2> SUFFICES ASSUME TypeInv, [Next]_vars PROVE TypeInv'
    OBVIOUS
  <2>1. ASSUME NEW k \in Used, Put(k) PROVE TypeInv'
    <3>1. k \in [1..components -> Words(platform.dig)]
      BY <2>1, UsedKeys
    <3>2. \A e \in table' : e \in table \/ e.key = k
      BY <2>1 DEF Put
    <3> QED BY <2>1, <3>1, <3>2 DEF Put, TypeInv
  <2>2. ASSUME Save PROVE TypeInv'
    BY <2>2 DEF Save, TypeInv, Marshalled
  <2>3. ASSUME NEW p \in Platforms, NEW pad \in 0..1, Load(p, pad) PROVE TypeInv'
    <3>1. /\ up' = TRUE /\ file' = {} /\ saved' = {}
          /\ platform' = p /\ components' = components
      BY <2>3 DEF Load
    <3>2. \A f \in table' : f.key \in [1..components -> Words(p.dig)]
      <4>1. CASE p.dig = platform.dig
        <5>1. \A f \in table' : \E e \in saved :
                f.key = Deserialize(p, Serialize(platform, e.key), pad)
          BY <2>3, <4>1, Loaded
        <5>2. \A e \in saved : Deserialize(p, Serialize(platform, e.key), pad)
                                 \in [1..components -> Words(p.dig)]
          BY <4>1, ReadIsKey DEF TypeInv
        <5> QED BY <5>1, <5>2
      <4>2. CASE p.dig # platform.dig
        BY <2>3, <4>2, Loaded
      <4> QED BY <4>1, <4>2
    <3> QED BY <3>1, <3>2 DEF TypeInv
  <2>4. CASE UNCHANGED vars
    BY <2>4 DEF vars, TypeInv, Marshalled
  <2> QED BY <2>1, <2>2, <2>3, <2>4 DEF Next, Used
<1> QED BY <1>1, <1>2, PTL DEF Spec

(* Each key stays where its hash says it is.                               *)
LEMMA HashInvariance ==
  ASSUME OneQuadruple
  PROVE  Spec => []HashInv
<1>1. Init => HashInv
  BY DEF Init, HashInv
<1>2. TypeInv /\ HashInv /\ [Next]_vars => HashInv'
  <2> SUFFICES ASSUME TypeInv, HashInv, [Next]_vars PROVE HashInv'
    OBVIOUS
  <2>1. ASSUME NEW k \in Used, Put(k) PROVE HashInv'
    <3>1. k \in [1..components -> LongDoubles(platform.dig)]
      BY <2>1, UsedKeys
    <3>2. \A e \in table' : e \in table \/ (e.key = k /\ e.hash = HashOf(platform, k))
      BY <2>1 DEF Put
    <3> QED BY <2>1, <3>1, <3>2 DEF Put, HashInv
  <2>2. ASSUME Save PROVE HashInv'
    BY <2>2 DEF Save, HashInv
  <2>3. ASSUME NEW p \in Platforms, NEW pad \in 0..1, Load(p, pad) PROVE HashInv'
    <3>1. saved' = {} /\ platform' = p /\ components' = components
      BY <2>3 DEF Load
    <3>2. \A f \in table' : /\ f.key \in [1..components -> LongDoubles(p.dig)]
                            /\ f.hash = HashOf(p, f.key)
      <4>1. CASE p.dig = platform.dig
        <5>1. \A f \in table' : \E e \in saved :
                /\ f.key = Deserialize(p, Serialize(platform, e.key), pad)
                /\ f.hash = e.hash
          BY <2>3, <4>1, Loaded
        <5>2. ASSUME NEW e \in saved
              PROVE  /\ Deserialize(p, Serialize(platform, e.key), pad)
                           \in [1..components -> LongDoubles(p.dig)]
                     /\ e.hash = HashOf(p, Deserialize(p, Serialize(platform, e.key), pad))
          <6>1. PICK k \in [1..components -> LongDoubles(platform.dig)] :
                  k = e.key /\ e.hash = HashOf(platform, k)
            BY DEF HashInv
          <6>2. PICK l : l = Deserialize(p, Serialize(platform, k), pad)
            OBVIOUS
          <6>3. platform \in Platforms /\ components \in 1..2
            BY DEF TypeInv
          <6>4. /\ l \in [1..components -> LongDoubles(platform.dig)]
                /\ SameRanks(components, k, l)
            BY <4>1, <6>2, <6>3, ReadIsSameKey
          <6>5. HashOf(platform, k) = HashOf(p, l)
            <7>1. Equivalent(components, platform.dig, k, l)
              BY <6>4 DEF Equivalent
            <7> QED BY <4>1, <6>3, <7>1, HashSame
          <6> QED BY <4>1, <6>1, <6>2, <6>4, <6>5
        <5> QED BY <5>1, <5>2
      <4>2. CASE p.dig # platform.dig
        BY <2>3, <4>2, Loaded
      <4> QED BY <4>1, <4>2
    <3> QED BY <3>1, <3>2 DEF HashInv
  <2>4. CASE UNCHANGED vars
    BY <2>4 DEF vars, HashInv
  <2> QED BY <2>1, <2>2, <2>3, <2>4 DEF Next, Used
<1> QED BY <1>1, <1>2, TypeInvariance, PTL DEF Spec

-----------------------------------------------------------------------------
(* The theorems *)

(* compare is antisymmetric and transitive on long doubles and complex     *)
(* values, with a place for a NaN (ldouble_cmp): Set, Map and sort may     *)
(* rely on it.                                                             *)
THEOREM ComparesInOrder == Spec => []CompareIsOrder
<1>1. TypeInv => CompareIsOrder
  <2> SUFFICES ASSUME TypeInv, NEW e \in table, NEW f \in table, NEW k \in Used
               PROVE  /\ Compare(e.key, k) = -Compare(k, e.key)
                      /\ Compare(e.key, k) <= 0 /\ Compare(k, f.key) <= 0
                           => Compare(e.key, f.key) <= 0
    BY DEF CompareIsOrder
  <2>1. PICK a \in [1..components -> Words(platform.dig)],
             b \in [1..components -> Words(platform.dig)] : a = e.key /\ b = f.key
    BY DEF TypeInv
  <2>2. k \in [1..components -> Words(platform.dig)] /\ platform.dig \in Formats
    BY UsedKeys
  <2>3. components \in 1..2
    BY DEF TypeInv
  <2> QED BY <2>1, <2>2, <2>3, CompareOrders
<1> QED BY <1>1, TypeInvariance, PTL

(* The polymorphic = is the equality of the processor on each part: a      *)
(* value with a NaN is not equal to itself, although compare returns 0     *)
(* (caml_compare_unordered in ldouble_cmp).                                *)
THEOREM EqualIsIeee == Spec => []EqualityIsIeee
<1>1. TypeInv => EqualityIsIeee
  <2> SUFFICES ASSUME TypeInv, NEW e \in table, NEW k \in Used
               PROVE  PolymorphicEqual(e.key, k) <=> \A i \in 1..components : Equal(e.key[i], k[i])
    BY DEF EqualityIsIeee
  <2>1. PICK a \in [1..components -> Words(platform.dig)] : a = e.key
    BY DEF TypeInv
  <2>2. k \in [1..components -> Words(platform.dig)] /\ platform.dig \in Formats
    BY UsedKeys
  <2>3. components \in 1..2
    BY DEF TypeInv
  <2> QED BY <2>1, <2>2, <2>3, EqualKeys
<1> QED BY <1>1, TypeInvariance, PTL

(* ldouble_hash gives keys that compare equal one hash, after the hash was *)
(* marshalled with the table too: a lookup looks in the right bucket.      *)
THEOREM EqualHashes ==
  ASSUME OneQuadruple
  PROVE  Spec => []EqualKeysFound
<1>1. TypeInv /\ HashInv => EqualKeysFound
  <2> SUFFICES ASSUME TypeInv, HashInv, NEW e \in table, NEW k \in Used,
                      Compare(e.key, k) = 0
               PROVE  HashOf(platform, k) = e.hash
    BY DEF EqualKeysFound
  <2>1. PICK a \in [1..components -> LongDoubles(platform.dig)] :
          a = e.key /\ e.hash = HashOf(platform, a)
    BY DEF HashInv
  <2>2. /\ components \in 1..2 /\ platform \in Platforms /\ platform.dig \in Formats
        /\ k \in [1..components -> LongDoubles(platform.dig)]
        /\ k \in [1..components -> Words(platform.dig)]
    BY UsedKeys DEF TypeInv
  <2>3. a \in [1..components -> Words(platform.dig)]
    BY <2>1, <2>2, AreWords
  <2>4. SameRanks(components, a, k)
    BY <2>1, <2>2, <2>3, CompareZero
  <2>5. Equivalent(components, platform.dig, a, k)
    BY <2>2, <2>4 DEF Equivalent
  <2>6. HashOf(platform, a) = HashOf(platform, k)
    BY <2>2, <2>5, HashSame
  <2> QED BY <2>1, <2>6
<1> QED BY <1>1, TypeInvariance, HashInvariance, PTL

(* ldouble_deserialize reads keys that compare equal to those that         *)
(* ldouble_serialize wrote, on any processor of the same format, and no    *)
(* key at all, but an exception, on one of another format.                 *)
THEOREM ReadsBack ==
  ASSUME OneQuadruple
  PROVE  Spec => LoadsEqualKeys
<1> DEFINE A == ~up /\ up' => IF platform'.dig = platform.dig
                             THEN SameKeys(saved, table') ELSE table' = {}
<1>1. TypeInv /\ HashInv /\ [Next]_vars => [A]_vars
  <2> SUFFICES ASSUME TypeInv, HashInv, [Next]_vars, ~up, up'
               PROVE  IF platform'.dig = platform.dig
                      THEN SameKeys(saved, table') ELSE table' = {}
    OBVIOUS
  <2>1. PICK p \in Platforms, pad \in 0..1 : Load(p, pad)
    BY DEF Next, Put, Save, vars
  <2>2. platform' = p
    BY <2>1 DEF Load
  <2>3. CASE p.dig = platform.dig
    <3>1. \A e \in saved : Compare(e.key, Deserialize(p, Serialize(platform, e.key), pad)) = 0
      <4> SUFFICES ASSUME NEW e \in saved
                   PROVE  Compare(e.key, Deserialize(p, Serialize(platform, e.key), pad)) = 0
        OBVIOUS
      <4>1. /\ components \in 1..2 /\ platform \in Platforms /\ platform.dig \in Formats
        BY UsedKeys DEF TypeInv
      <4>2. PICK k \in [1..components -> LongDoubles(platform.dig)] : k = e.key
        BY DEF HashInv
      <4>3. PICK l : l = Deserialize(p, Serialize(platform, k), pad)
        OBVIOUS
      <4>4. /\ l \in [1..components -> LongDoubles(platform.dig)]
            /\ SameRanks(components, k, l)
        BY <2>3, <4>1, <4>2, <4>3, ReadIsSameKey
      <4>5. /\ k \in [1..components -> Words(platform.dig)]
            /\ l \in [1..components -> Words(platform.dig)]
        BY <4>1, <4>2, <4>4, AreWords
      <4> QED BY <4>1, <4>2, <4>3, <4>4, <4>5, CompareZero
    <3>2. /\ \A e \in saved : \E f \in table' :
               f.key = Deserialize(p, Serialize(platform, e.key), pad)
          /\ \A f \in table' : \E e \in saved :
               f.key = Deserialize(p, Serialize(platform, e.key), pad)
      BY <2>1, <2>3, Loaded
    <3> QED BY <2>2, <2>3, <3>1, <3>2 DEF SameKeys
  <2>4. CASE p.dig # platform.dig
    BY <2>1, <2>2, <2>4, Loaded
  <2> QED BY <2>3, <2>4
<1> QED BY <1>1, TypeInvariance, HashInvariance, PTL DEF Spec, LoadsEqualKeys
=============================================================================
