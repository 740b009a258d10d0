------------------------------ MODULE LongDouble ------------------------------
(***************************************************************************)
(* long double and long double _Complex values as OCaml custom blocks      *)
(* (ldouble_stubs.c): comparison, hashing and marshalling, for the formats *)
(* that LDBL_MANT_DIG tells apart, on little and big endian processors.    *)
(* A process keeps such values as the keys of a hash table, writes the     *)
(* table to a file, and another process, on another processor perhaps,     *)
(* reads it back.                                                          *)
(*                                                                         *)
(* A value is the sequence of its 32 bit words, the most significant word  *)
(* first.  The first word has a sign and an exponent, 0 for zero, 2 for    *)
(* infinity and NaN, and on the 10 byte format a padding bit that the      *)
(* processor ignores; another word is 0 or 1.  A hash is the sequence of   *)
(* the words mixed into it: equal sequences have equal hashes.             *)
(***************************************************************************)
EXTENDS Integers, Sequences, FiniteSets, SequencesExt

CONSTANTS
  Platforms,  (* the processors: [dig |-> LDBL_MANT_DIG, big |-> BOOLEAN]   *)
  Keys,       (* Keys[c][dig]: the keys used, of c components (complex: 2)  *)
  MaxKeys     (* bound: the keys of the table                               *)

Width(dig)       == CASE dig = 53 -> 2 [] dig = 64 -> 3 [] dig = 113 -> 4
LongDoubles(dig) == {x \in [1..Width(dig) -> 0..11] :
                       x[1] <= (IF dig = 64 THEN 11 ELSE 5) /\ \A i \in 2..Width(dig) : x[i] <= 1}

ASSUME LongDoubleConstants ==
  /\ Platforms \subseteq [dig : {53, 64, 113}, big : BOOLEAN]
  /\ [dig |-> 64, big |-> TRUE] \notin Platforms
  /\ \A c \in 1..2, dig \in {53, 64, 113} : Keys[c][dig] \subseteq [1..c -> LongDoubles(dig)]
  /\ MaxKeys \in Nat

VARIABLES
  components, (* 1: the keys are long doubles, 2: they are complex          *)
  platform,   (* where the process runs, or the last process ran            *)
  up,         (* there is a process                                         *)
  table,      (* its table: entries [hash, key]                             *)
  file,       (* the marshalled table: entries [hash, data]                 *)
  saved       (* the table that was marshalled                              *)

vars == <<components, platform, up, table, file, saved>>

Init ==
  /\ components \in 1..2 /\ platform \in Platforms /\ up = TRUE
  /\ table = {} /\ file = {} /\ saved = {}

-----------------------------------------------------------------------------
(* What the processor makes of a value *)

Top(x)    == x[1] % 6
IsNan(x)  == Top(x) % 3 = 2 /\ \E i \in 2..Len(x) : x[i] # 0
IsZero(x) == Top(x) % 3 = 0 /\ \A i \in 2..Len(x) : x[i] = 0

Word(x, i)   == IF i <= Len(x) THEN x[i] ELSE 0
Magnitude(x) == 8 * (Top(x) % 3) + 4 * Word(x, 2) + 2 * Word(x, 3) + Word(x, 4)
Number(x)    == IF Top(x) >= 3 THEN -Magnitude(x) ELSE Magnitude(x)

Less(x, y)  == ~IsNan(x) /\ ~IsNan(y) /\ Number(x) < Number(y)
Equal(x, y) == ~IsNan(x) /\ ~IsNan(y) /\ Number(x) = Number(y)

-----------------------------------------------------------------------------
(* Comparison *)

(* Slip: a NaN is not told from a number. *)
CmpNanEqual(x, y) ==
  IF Less(x, y) THEN -1 ELSE IF Less(y, x) THEN 1 ELSE 0

(* ldouble_cmp: a NaN is below the numbers. *)
Cmp(x, y) ==
  IF Less(x, y) \/ (IsNan(x) /\ ~IsNan(y)) THEN -1
  ELSE IF Less(y, x) \/ (IsNan(y) /\ ~IsNan(x)) THEN 1 ELSE 0

(* Slip: only one NaN makes the values unordered. *)
UnorderedOne(x, y) == ~Less(x, y) /\ ~Less(y, x) /\ ~Equal(x, y) /\ ~(IsNan(x) /\ IsNan(y))

(* ... and caml_compare_unordered is set *)
Unordered(x, y) == ~Less(x, y) /\ ~Less(y, x) /\ ~Equal(x, y)

(* ldouble_cmp_val and ldouble_complex_cmp_val: the imaginary parts are    *)
(* compared when the real parts are equal.                                 *)
Compare(k, l) ==
  IF Len(k) = 2 /\ Cmp(k[1], l[1]) = 0 THEN Cmp(k[2], l[2]) ELSE Cmp(k[1], l[1])

CompareUnordered(k, l) ==
  \/ Unordered(k[1], l[1])
  \/ Len(k) = 2 /\ Cmp(k[1], l[1]) = 0 /\ Unordered(k[2], l[2])

(* The polymorphic = of OCaml *)
PolymorphicEqual(k, l) == ~CompareUnordered(k, l) /\ Compare(k, l) = 0

-----------------------------------------------------------------------------
(* Memory *)

(* The words of a value in the order of their addresses, and back *)
Memory(p, x)     == IF p.big THEN x ELSE Reverse(x)
FromMemory(p, a) == IF p.big THEN a ELSE Reverse(a)

(* The words of memory as integers of 8 bytes: most significant word first *)
Halves(p, a) == IF p.big THEN a ELSE <<a[2], a[1], a[4], a[3]>>

Norm(x) ==
  IF IsZero(x) THEN [i \in 1..Len(x) |-> 0]
  ELSE IF IsNan(x) THEN [i \in 1..Len(x) |-> CASE i = 1 -> 2 [] i = 2 -> 1 [] OTHER -> 0]
  ELSE x

(* Slip: the value is hashed as it is. *)
MixHashRaw(p, h, x) ==
  LET a == Memory(p, x) IN
  CASE p.dig = 113 -> h \o Halves(p, a)
    [] p.dig = 64  -> h \o <<a[1], a[2], a[3] % 6>>
    [] OTHER       -> h \o Norm(x)

(* ldouble_mix_hash; caml_hash_mix_double normalises its argument.         *)
MixHash(p, h, x) ==
  LET a == Memory(p, Norm(x)) IN
  CASE p.dig = 113 -> h \o Halves(p, a)
    [] p.dig = 64  -> h \o <<a[1], a[2], a[3] % 6>>
    [] OTHER       -> h \o Norm(x)

(* ldouble_hash and ldouble_complex_hash *)
HashOf(p, k) ==
  IF Len(k) = 1 THEN MixHash(p, <<>>, k[1]) ELSE MixHash(p, MixHash(p, <<>>, k[1]), k[2])

-----------------------------------------------------------------------------
(* Marshalling *)

(* ldouble_serialize_data *)
SerializeData(p, x) ==
  LET a == Memory(p, x) IN
  CASE p.dig = 113 -> Halves(p, a)
    [] p.dig = 64  -> <<a[2], a[1], a[3] % 6>>
    [] OTHER       -> x

(* ldouble_serialize normalises, ldouble_complex_serialize does not.       *)
Serialize(p, k) ==
  [tag |-> p.dig,
   parts |-> IF Len(k) = 1 THEN <<SerializeData(p, Norm(k[1]))>>
             ELSE <<SerializeData(p, k[1]), SerializeData(p, k[2])>>]

(* Slip: the words are not swapped on little endian processors. *)
DeserializeUnswapped(p, b, pad) ==
  CASE p.dig = 113 -> FromMemory(p, b)
    [] p.dig = 64  -> FromMemory(p, <<b[2], b[1], b[3] + 6 * pad>>)
    [] OTHER       -> b

(* ldouble_deserialize_data; the padding bit is what was in memory.        *)
DeserializeData(p, b, pad) ==
  CASE p.dig = 113 -> FromMemory(p, Halves(p, b))
    [] p.dig = 64  -> FromMemory(p, <<b[2], b[1], b[3] + 6 * pad>>)
    [] OTHER       -> b

Deserialize(p, d, pad) == [i \in 1..Len(d.parts) |-> DeserializeData(p, d.parts[i], pad)]

-----------------------------------------------------------------------------
(* Actions *)

(* Hashtbl.replace *)
Put(k) ==
  LET h     == HashOf(platform, k)
      other == {e \in table : e.hash # h \/ Compare(k, e.key) # 0}
  IN
  /\ up /\ Cardinality(other) < MaxKeys
  /\ table' = other \cup {[hash |-> h, key |-> k]}
  /\ UNCHANGED <<components, platform, up, file, saved>>

(* The table is marshalled, hashes included, and the process ends. *)
Save ==
  /\ up /\ table # {}
  /\ file' = {[hash |-> e.hash, data |-> Serialize(platform, e.key)] : e \in table}
  /\ saved' = table
  /\ up' = FALSE /\ table' = {}
  /\ UNCHANGED <<components, platform>>

(* A process starts on p and unmarshals the file, once.                    *)
(* caml_deserialize_error raises Failure when the tag is another format's. *)
Load(p, pad) ==
  /\ ~up /\ up' = TRUE
  /\ platform' = p
  /\ table' = IF \E e \in file : e.data.tag # p.dig THEN {}
              ELSE {[hash |-> e.hash, key |-> Deserialize(p, e.data, pad)] : e \in file}
  /\ file' = {} /\ saved' = {}
  /\ UNCHANGED components

Next ==
  \/ \E k \in Keys[components][platform.dig] : Put(k)
  \/ Save
  \/ \E p \in Platforms, pad \in 0..1 : (pad = 1 => p.dig = 64) /\ Load(p, pad)

Spec == Init /\ [][Next]_vars

-----------------------------------------------------------------------------
(* Properties *)

Used == Keys[components][platform.dig]

(* compare is an order in which a NaN has a place: what Set, Map and sort  *)
(* need of it, for complex values too.                                     *)
CompareIsOrder ==
  \A e, f \in table : \A k \in Used :
    /\ Compare(e.key, k) = -Compare(k, e.key)
    /\ Compare(e.key, k) <= 0 /\ Compare(k, f.key) <= 0 => Compare(e.key, f.key) <= 0

(* = is the equality of the numbers: 0 is -0, and a value with a NaN in it *)
(* is not even equal to itself, although compare finds it is.              *)
EqualityIsIeee ==
  \A e \in table, k \in Used :
    PolymorphicEqual(e.key, k) <=> \A i \in 1..components : Equal(e.key[i], k[i])

(* A lookup of a key that compares equal to one in the table looks in its  *)
(* bucket, whatever the sign of zero, the NaN and the padding, and         *)
(* wherever the key was hashed and marshalled.                             *)
EqualKeysFound ==
  \A e \in table, k \in Used : Compare(e.key, k) = 0 => HashOf(platform, k) = e.hash

(* What is read back are the keys that were written, or the exception of a *)
(* format that differs: "the 8 and 16 byte formats should interwork        *)
(* between big and little endian systems" (ldouble_stubs.c:46-47).         *)
SameKeys(t, u) ==
  /\ \A e \in t : \E f \in u : Compare(e.key, f.key) = 0
  /\ \A f \in u : \E e \in t : Compare(e.key, f.key) = 0

LoadsEqualKeys ==
  [][~up /\ up' => IF platform'.dig = platform.dig THEN SameKeys(saved, table') ELSE table' = {}]_vars
=============================================================================
