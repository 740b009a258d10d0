------------------------ MODULE StructLayout_proofs ------------------------
(***************************************************************************)
(* The layout of structs and unions for any number of types, nested in one *)
(* another in any way, any primitives and any number of fields: the fields *)
(* keep apart, sealed types tile, and the records implement the C          *)
(* declarations of CAggregates.                                            *)
(***************************************************************************)
EXTENDS StructLayout, SequenceTheorems, TLAPS

-----------------------------------------------------------------------------
(* Multiples *)

LEMMA Division ==
  ASSUME NEW n \in Int, NEW a \in Nat \ {0}
  PROVE  /\ n \div a \in Int /\ n % a \in 0..(a - 1) /\ n = a * (n \div a) + (n % a)
  OBVIOUS

LEMMA MultipleOf ==
  ASSUME NEW a \in Nat \ {0}, NEW q \in Int
  PROVE  (a * q) % a = 0
<1> DEFINE n == a * q
           d == n \div a
           m == n % a
<1>0. n \in Int
  OBVIOUS
<1> HIDE DEF n
<1>1. d \in Int /\ m \in 0..(a - 1) /\ n = a * d + m
  BY <1>0, Division
<1> USE DEF n
<1>2. a * q = a * d + m
  BY <1>1
<1> HIDE DEF d, m, n
<1>3. a * (q - d) = m
  BY <1>1, <1>2
<1>4. CASE q - d = 0
  BY <1>1, <1>3, <1>4 DEF m, n
<1>5. CASE q - d >= 1
  <2>1. a * (q - d) >= a
    BY <1>5, <1>1
  <2> QED BY <2>1, <1>1, <1>3
<1>6. CASE q - d <= -1
  <2>1. a * (q - d) <= -a
    BY <1>6, <1>1
  <2> QED BY <2>1, <1>1, <1>3
<1> QED BY <1>1, <1>4, <1>5, <1>6

(* aligned_offset is the first multiple of the alignment.                  *)
LEMMA AlignedOffset ==
  ASSUME NEW n \in Nat, NEW a \in Nat \ {0}
  PROVE  /\ aligned_offset(n, a) \in n..(n + a - 1) /\ aligned_offset(n, a) % a = 0
         /\ aligned_offset(n, a) \in Nat
<1>1. n \div a \in Int /\ n % a \in 0..(a - 1) /\ n = a * (n \div a) + (n % a)
  BY Division
<1>2. CASE n % a = 0
  BY <1>2 DEF aligned_offset
<1>3. CASE n % a # 0
  <2>1. aligned_offset(n, a) = n - (n % a) + a
    BY <1>3 DEF aligned_offset
  <2>2. n - (n % a) + a = a * (n \div a + 1)
    BY <1>1
  <2>3. (a * (n \div a + 1)) % a = 0
    BY <1>1, MultipleOf
  <2>4. n - (n % a) + a \in n..(n + a - 1)
    BY <1>1, <1>3
  <2> QED BY <2>1, <2>2, <2>3, <2>4
<1> QED BY <1>2, <1>3

LEMMA OnlyMultiple ==
  ASSUME NEW n \in Nat, NEW a \in Nat \ {0}, NEW x \in n..(n + a - 1), NEW y \in n..(n + a - 1),
         x % a = 0, y % a = 0
  PROVE  x = y
<1>1. PICK p \in Int : x = a * p
  <2>1. x \in Int
    OBVIOUS
  <2>2. x \div a \in Int /\ x = a * (x \div a)
    BY <2>1, Division
  <2> QED BY <2>2
<1>2. PICK q \in Int : y = a * q
  <2>1. y \in Int
    OBVIOUS
  <2>2. y \div a \in Int /\ y = a * (y \div a)
    BY <2>1, Division
  <2> QED BY <2>2
<1>3. a * (p - q) = x - y
  BY <1>1, <1>2
<1>4. CASE p - q >= 1
  <2>1. a * (p - q) >= a
    BY <1>4
  <2> QED BY <2>1, <1>3
<1>5. CASE p - q <= -1
  <2>1. a * (p - q) <= -a
    BY <1>5
  <2> QED BY <2>1, <1>3
<1>6. CASE p = q
  BY <1>1, <1>2, <1>6
<1> QED BY <1>4, <1>5, <1>6

(* It is the address that the C compiler chooses.                          *)
LEMMA FirstIsAligned ==
  ASSUME NEW n \in Nat, NEW a \in Nat \ {0}
  PROVE  C!FirstMultiple(n, a) = aligned_offset(n, a)
<1>1. aligned_offset(n, a) \in n..(n + a - 1) /\ aligned_offset(n, a) % a = 0
  BY AlignedOffset
<1> DEFINE m == CHOOSE m \in n..(n + a - 1) : m % a = 0
<1>2. m \in n..(n + a - 1) /\ m % a = 0
  BY <1>1
<1> HIDE DEF m
<1>3. m = aligned_offset(n, a)
  BY <1>1, <1>2, OnlyMultiple
<1> QED BY <1>3 DEF m, C!FirstMultiple

-----------------------------------------------------------------------------
(* Lists of fields *)

(* Reversing keeps the elements, and twice is nothing.                     *)
LEMMA Reversed ==
  ASSUME NEW S, NEW s \in Seq(S)
  PROVE  /\ Reverse(s) \in Seq(S) /\ Len(Reverse(s)) = Len(s)
         /\ Range(Reverse(s)) = Range(s) /\ Reverse(Reverse(s)) = s
<1> DEFINE r == Reverse(s)
<1>1. PICK n \in Nat : n = Len(s)
  BY LenProperties
<1>2. \A i \in 1..n : s[i] \in S
  BY <1>1, ElementOfSeq
<1>3. r = [i \in 1..n |-> s[(n - i) + 1]]
  BY <1>1 DEF Reverse
<1>4. \A i \in 1..n : (n - i) + 1 \in 1..n /\ (n - ((n - i) + 1)) + 1 = i
  OBVIOUS
<1>5. r \in Seq(S) /\ Len(r) = n
  BY <1>2, <1>3, <1>4, IsASeq
<1>6. \A i \in 1..n : r[i] = s[(n - i) + 1] /\ r[(n - i) + 1] = s[i]
  BY <1>3, <1>4
<1>7. DOMAIN s = 1..n /\ DOMAIN r = 1..n
  BY <1>1, <1>5, LenProperties
<1> HIDE DEF r
<1>8. Range(r) = Range(s)
  BY <1>4, <1>6, <1>7 DEF Range
<1>9. Reverse(r) = [i \in 1..n |-> r[(n - i) + 1]]
  BY <1>5 DEF Reverse
<1>10. Reverse(r) = s
  <2>1. Reverse(r) \in Seq(S) /\ Len(Reverse(r)) = n
    BY <1>2, <1>4, <1>6, <1>9, IsASeq
  <2>2. \A i \in 1..n : Reverse(r)[i] = s[i]
    BY <1>6, <1>9
  <2> QED BY <1>1, <2>1, <2>2, SeqEqual
<1> QED BY <1>1, <1>5, <1>8, <1>10 DEF r

(* The field added last comes first in the reversed list.                  *)
LEMMA ReverseOfAppend ==
  ASSUME NEW S, NEW s \in Seq(S), NEW f \in S
  PROVE  /\ Reverse(Append(s, f)) = <<f>> \o Reverse(s)
         /\ <<f>> \o Reverse(s) \in Seq(S)
<1> DEFINE q == Reverse(Append(s, f))
           r == Reverse(s)
           c == <<f>> \o r
<1>1. PICK n \in Nat : n = Len(s)
  BY LenProperties
<1>2. r \in Seq(S) /\ Len(r) = n /\ \A i \in 1..n : r[i] = s[(n - i) + 1]
  BY <1>1, Reversed DEF Reverse
<1>3. /\ Append(s, f) \in Seq(S) /\ Len(Append(s, f)) = n + 1 /\ Append(s, f)[n + 1] = f
      /\ \A i \in 1..n : Append(s, f)[i] = s[i]
  BY <1>1, AppendProperties
<1>4. q \in Seq(S) /\ Len(q) = n + 1 /\ \A i \in 1..(n + 1) : q[i] = Append(s, f)[(n + 1 - i) + 1]
  <2>1. q \in Seq(S) /\ Len(q) = n + 1
    BY <1>3, Reversed
  <2>2. q = [i \in 1..(n + 1) |-> Append(s, f)[(n + 1 - i) + 1]]
    BY <1>3 DEF Reverse
  <2> QED BY <2>1, <2>2
<1> HIDE DEF q, r
<1>5. /\ c \in Seq(S) /\ Len(c) = n + 1 /\ c[1] = f
      /\ \A i \in 2..(n + 1) : c[i] = r[i - 1]
  BY <1>2
<1>6. ASSUME NEW i \in 1..(n + 1) PROVE q[i] = c[i]
  <2>1. CASE i = 1
    <3>1. (n + 1 - i) + 1 = n + 1
      BY <2>1
    <3> QED BY <2>1, <3>1, <1>3, <1>4, <1>5
  <2>2. CASE i \in 2..(n + 1)
    <3>1. c[i] = s[(n - (i - 1)) + 1]
      BY <2>2, <1>2, <1>5
    <3>2. (n + 1 - i) + 1 \in 1..n /\ (n - (i - 1)) + 1 = (n + 1 - i) + 1
      BY <2>2
    <3> QED BY <3>1, <3>2, <1>3, <1>4
  <2>3. i = 1 \/ i \in 2..(n + 1)
    BY <1>1
  <2> QED BY <2>1, <2>2, <2>3
<1> HIDE DEF c
<1>7. q = c
  BY <1>4, <1>5, <1>6, SeqEqual
<1> QED BY <1>5, <1>7 DEF q, r, c

(* What is in a list to which a field was added in front.                  *)
LEMMA RangeOfAdded ==
  ASSUME NEW S, NEW s \in Seq(S), NEW f \in S
  PROVE  <<f>> \o s \in Seq(S) /\ <<f>> \o s # <<>> /\ Range(<<f>> \o s) = Range(s) \cup {f}
<1>1. PICK n \in Nat : n = Len(s)
  BY LenProperties
<1> DEFINE c == <<f>> \o s
<1>2. /\ c \in Seq(S) /\ Len(c) = n + 1 /\ c[1] = f
      /\ \A i \in 2..(n + 1) : c[i] = s[i - 1]
  BY <1>1
<1> HIDE DEF c
<1>3. DOMAIN c = 1..(n + 1) /\ DOMAIN s = 1..n
  BY <1>1, <1>2, LenProperties
<1>4. Range(c) \subseteq Range(s) \cup {f}
  BY <1>2, <1>3 DEF Range
<1>5. ASSUME NEW i \in 1..n PROVE s[i] \in Range(c)
  <2>1. i + 1 \in 2..(n + 1) /\ i + 1 \in 1..(n + 1) /\ (i + 1) - 1 = i
    BY <1>1
  <2>2. c[i + 1] = s[i]
    BY <1>2, <2>1
  <2> QED BY <1>3, <2>1, <2>2 DEF Range
<1>6. f \in Range(c)
  BY <1>2, <1>3 DEF Range
<1>7. Range(s) \cup {f} \subseteq Range(c)
  BY <1>3, <1>5, <1>6 DEF Range
<1>8. c # <<>>
  BY <1>2, EmptySeq
<1> QED BY <1>2, <1>4, <1>7, <1>8 DEF c

-----------------------------------------------------------------------------
(* The invariant *)

Aligns   == {PrimAlign[p] : p \in Prims}
EndOf(f) == f.foffset + sizeof(f.type)

(* What was returned for a struct: each field has its size, is aligned,    *)
(* comes after those before it and ends within the struct; an open struct  *)
(* ends where its last field does.                                         *)
StructInv(s) ==
  LET n == Len(returned[s]) IN
  /\ \A i \in 1..n :
       /\ HasSize(returned[s][i].type)
       /\ returned[s][i].foffset % alignment(returned[s][i].type) = 0
       /\ EndOf(returned[s][i]) <= spec[s].size
       /\ \A j \in 1..(i - 1) : EndOf(returned[s][j]) <= returned[s][i].foffset
  /\ fields[s] = IF spec[s].complete THEN returned[s] ELSE Reverse(returned[s])
  /\ ~spec[s].complete => spec[s].size = IF n = 0 THEN 0 ELSE EndOf(returned[s][n])

UnionInv(u) == \A f \in Range(fields[u]) : f.foffset = 0

(* The alignment of a sealed type is that of a primitive deep inside it.   *)
SealedInv(a) ==
  /\ spec[a].align \in Aligns /\ spec[a].size % spec[a].align = 0
  /\ \A f \in Range(fields[a]) :
       /\ HasSize(f.type)
       /\ spec[a].align % alignment(f.type) = 0
       /\ EndOf(f) <= spec[a].size

TypeInv(a) ==
  /\ a \in Structs => StructInv(a)
  /\ a \in Unions => UnionInv(a)
  /\ spec[a].complete => SealedInv(a)

IInv == TypeOK /\ \A a \in Aggregates : TypeInv(a)

(* Alignments divide one another, the smaller the greater.                 *)
LEMMA AlignsDivide ==
  ASSUME NEW a \in Aligns, NEW b \in Aligns, b <= a
  PROVE  a \in Nat \ {0} /\ b \in Nat \ {0} /\ a % b = 0
<1>1. a \in Nat \ {0} /\ b \in Nat \ {0} /\ (a % b = 0 \/ b % a = 0)
  BY LayoutConstants DEF Aligns
<1>2. CASE b < a
  <2>1. b \div a = 0 /\ b % a = b
    BY <1>1, <1>2
  <2> QED BY <1>1, <2>1
<1>3. CASE b = a
  BY <1>1, <1>3
<1> QED BY <1>1, <1>2, <1>3

(* A type that has a size.                                                 *)
LEMMA SizedType ==
  ASSUME IInv, NEW t \in Types, HasSize(t)
  PROVE  /\ sizeof(t) \in Nat /\ alignment(t) \in Aligns /\ Aligns \subseteq Nat \ {0}
<1>1. Aligns \subseteq Nat \ {0}
  BY LayoutConstants DEF Aligns
<1>2. t.len \in Nat /\ t.elem \in Elems
  BY LayoutConstants DEF Types
<1>3. CASE t.elem \in Prims
  <2>1. PrimSize[t.elem] \in Nat /\ PrimAlign[t.elem] \in Aligns
    BY <1>3, LayoutConstants DEF Aligns
  <2> QED BY <1>1, <1>2, <1>3, <2>1 DEF sizeof, alignment
<1>4. CASE t.elem \notin Prims
  <2>1. t.elem \in Aggregates /\ spec[t.elem].complete
    BY <1>4 DEF HasSize
  <2>2. spec[t.elem].size \in Nat /\ spec[t.elem].align \in Aligns
    BY <2>1 DEF IInv, TypeOK, TypeInv, SealedInv
  <2> QED BY <1>1, <1>2, <1>4, <2>2 DEF sizeof, alignment
<1> QED BY <1>3, <1>4

(* Later steps do not change the layout of a type that has a size.         *)
LEMMA SizesStay ==
  ASSUME NEW a \in Aggregates, ~spec[a].complete,
         \A b \in Aggregates \ {a} : spec'[b] = spec[b],
         NEW t \in Types, HasSize(t)
  PROVE  HasSize(t)' /\ sizeof(t)' = sizeof(t) /\ alignment(t)' = alignment(t)
<1>1. t.elem \in Prims \/ (t.elem \in Aggregates \ {a} /\ spec[t.elem].complete)
  BY DEF HasSize
<1> QED BY <1>1 DEF HasSize, sizeof, alignment

(* A step on one open type leaves the others as they are.                  *)
LEMMA OthersStay ==
  ASSUME IInv, NEW a \in Aggregates, ~spec[a].complete,
         \A b \in Aggregates \ {a} :
           spec'[b] = spec[b] /\ fields'[b] = fields[b] /\ returned'[b] = returned[b]
  PROVE  \A b \in Aggregates \ {a} : TypeInv(b)'
<1> SUFFICES ASSUME NEW b \in Aggregates, b # a PROVE TypeInv(b)'
  OBVIOUS
<1>1. /\ spec'[b] = spec[b] /\ fields'[b] = fields[b] /\ returned'[b] = returned[b]
      /\ TypeInv(b) /\ fields[b] \in Seq(Fields) /\ returned[b] \in Seq(Fields)
  BY DEF IInv, TypeOK
<1>2. \A t \in Types : HasSize(t) =>
        HasSize(t)' /\ sizeof(t)' = sizeof(t) /\ alignment(t)' = alignment(t)
  BY SizesStay
<1>3. ASSUME NEW f \in Fields, HasSize(f.type)
      PROVE  HasSize(f.type)' /\ EndOf(f)' = EndOf(f) /\ alignment(f.type)' = alignment(f.type)
  BY <1>2, <1>3 DEF Fields, EndOf
<1>4. b \in Structs => StructInv(b)'
  <2> SUFFICES ASSUME b \in Structs PROVE StructInv(b)'
    OBVIOUS
  <2>1. StructInv(b)
    BY <1>1 DEF TypeInv
  <2>2. PICK n \in Nat : n = Len(returned[b])
    BY <1>1, LenProperties
  <2>3. \A i \in 1..n : returned[b][i] \in Fields /\ HasSize(returned[b][i].type)
    BY <1>1, <2>1, <2>2, ElementOfSeq DEF StructInv
  <2>4. \A i \in 1..n :
          /\ HasSize(returned[b][i].type)' /\ EndOf(returned[b][i])' = EndOf(returned[b][i])
          /\ alignment(returned[b][i].type)' = alignment(returned[b][i].type)
    BY <1>1, <1>3, <2>3
  <2>5. ASSUME NEW i \in 1..n
        PROVE  /\ HasSize(returned[b][i].type)'
               /\ returned'[b][i].foffset % alignment(returned[b][i].type)' = 0
               /\ EndOf(returned[b][i])' <= spec'[b].size
               /\ \A j \in 1..(i - 1) : EndOf(returned[b][j])' <= returned'[b][i].foffset
    BY <1>1, <2>1, <2>2, <2>4 DEF StructInv
  <2>6. ~spec'[b].complete => spec'[b].size = IF n = 0 THEN 0 ELSE EndOf(returned[b][n])'
    BY <1>1, <2>1, <2>2, <2>4 DEF StructInv
  <2>7. fields'[b] = IF spec'[b].complete THEN returned'[b] ELSE Reverse(returned'[b])
    BY <1>1, <2>1 DEF StructInv
  <2> QED BY <1>1, <2>2, <2>5, <2>6, <2>7 DEF StructInv
<1>5. b \in Unions => UnionInv(b)'
  BY <1>1 DEF TypeInv, UnionInv
<1>6. spec'[b].complete => SealedInv(b)'
  <2> SUFFICES ASSUME spec'[b].complete PROVE SealedInv(b)'
    OBVIOUS
  <2>1. SealedInv(b)
    BY <1>1 DEF TypeInv
  <2>2. Range(fields[b]) \subseteq Fields
    BY <1>1, RangeOfSeq DEF Range
  <2> QED BY <1>1, <1>3, <2>1, <2>2 DEF SealedInv
<1> QED BY <1>4, <1>5, <1>6 DEF TypeInv

-----------------------------------------------------------------------------
(* Steps *)

(* Initially every type is open and empty.                                 *)
LEMMA InitIInv == Init => IInv
<1> SUFFICES ASSUME Init PROVE IInv
  OBVIOUS
<1>1. TypeOK
  BY DEF Init, TypeOK
<1>2. ASSUME NEW a \in Aggregates PROVE TypeInv(a)
  <2>1. /\ ~spec[a].complete /\ spec[a].size = 0 /\ fields[a] = <<>> /\ returned[a] = <<>>
        /\ Len(<<>>) = 0 /\ DOMAIN <<>> = {} /\ Reverse(<<>>) = <<>>
    BY DEF Init, Reverse
  <2> QED BY <2>1 DEF TypeInv, StructInv, UnionInv, Range
<1> QED BY <1>1, <1>2 DEF IInv

(* What field does to an open struct: the new field begins at the first    *)
(* multiple of its alignment after the fields so far.                      *)
LEMMA StructFieldKeeps ==
  ASSUME IInv, NEW s \in Structs, NEW t \in Types, StructField(s, t)
  PROVE  IInv'
<1>1. /\ s \in Aggregates /\ s \notin Unions /\ ~spec[s].complete /\ HasSize(t)
      /\ TypeOK /\ StructInv(s) /\ spec[s] \in [complete : BOOLEAN, size : Nat, align : Nat]
  BY LayoutConstants DEF StructField, IInv, TypeInv, Aggregates, TypeOK
<1>2. /\ sizeof(t) \in Nat /\ alignment(t) \in Nat \ {0} /\ spec[s].size \in Nat
  BY <1>1, SizedType
<1>3. PICK o \in Nat : /\ o = aligned_offset(spec[s].size, alignment(t))
                       /\ o >= spec[s].size /\ o % alignment(t) = 0
  <2>1. PICK z \in Nat : z = spec[s].size
    BY <1>2
  <2>2. PICK m \in Nat \ {0} : m = alignment(t)
    BY <1>2
  <2>3. /\ aligned_offset(z, m) \in z..(z + m - 1) /\ aligned_offset(z, m) % m = 0
        /\ aligned_offset(z, m) \in Nat
    BY AlignedOffset
  <2> QED BY <2>1, <2>2, <2>3
<1>4. PICK f \in Fields : f = [type |-> t, foffset |-> o]
  BY DEF Fields
<1>5. PICK q \in Seq(Fields) : q = returned[s]
  BY <1>1 DEF TypeOK
<1>6. PICK r \in Seq(Fields) : r = Append(q, f)
  BY AppendProperties
<1>7. PICK n \in Nat : n = Len(q)
  BY LenProperties
<1>8. /\ spec' = [spec EXCEPT ![s].size = o + sizeof(t)]
      /\ fields' = [fields EXCEPT ![s] = <<f>> \o @]
      /\ returned' = [returned EXCEPT ![s] = Append(@, f)]
  BY <1>3, <1>4 DEF StructField, Return
<1>9. /\ Len(r) = n + 1 /\ r[n + 1] = f /\ \A i \in 1..n : r[i] = q[i]
      /\ \A i \in 1..n : q[i] \in Fields
  BY <1>6, <1>7, AppendProperties, ElementOfSeq
<1>10. fields'[s] = Reverse(r) /\ Reverse(r) \in Seq(Fields) /\ returned'[s] = r
  <2>1. fields[s] = Reverse(q) /\ fields'[s] = <<f>> \o fields[s] /\ returned'[s] = r
    BY <1>1, <1>5, <1>6, <1>8 DEF StructInv, TypeOK
  <2> QED BY <2>1, <1>6, ReverseOfAppend
<1>11. /\ spec'[s].size = o + sizeof(t) /\ ~spec'[s].complete
       /\ spec'[s] \in [complete : BOOLEAN, size : Nat, align : Nat]
  <2>1. spec'[s] = [spec[s] EXCEPT !.size = o + sizeof(t)]
    BY <1>1, <1>8 DEF TypeOK
  <2>2. o + sizeof(t) \in Nat
    BY <1>2
  <2> QED BY <1>1, <2>1, <2>2
<1>12. \A b \in Aggregates \ {s} :
         spec'[b] = spec[b] /\ fields'[b] = fields[b] /\ returned'[b] = returned[b]
  BY <1>1, <1>8 DEF TypeOK
<1>13. TypeOK'
  BY <1>1, <1>8, <1>10, <1>11, <1>12 DEF TypeOK
<1>14. \A b \in Aggregates \ {s} : TypeInv(b)'
  BY <1>1, <1>12, OthersStay
<1>15. ASSUME NEW g \in Fields, HasSize(g.type)
       PROVE  HasSize(g.type)' /\ EndOf(g)' = EndOf(g) /\ alignment(g.type)' = alignment(g.type)
  BY <1>1, <1>12, <1>15, SizesStay DEF Fields, EndOf
<1>16. /\ HasSize(f.type)' /\ EndOf(f)' = o + sizeof(t) /\ alignment(f.type)' = alignment(t)
       /\ f.foffset = o
  <2>1. f.type = t /\ f.foffset = o /\ EndOf(f) = o + sizeof(t)
    BY <1>4 DEF EndOf
  <2> QED BY <1>1, <1>15, <2>1
<1>17. ASSUME NEW i \in 1..n
       PROVE  /\ HasSize(q[i].type)' /\ q[i].foffset % alignment(q[i].type)' = 0
              /\ EndOf(q[i])' <= spec[s].size /\ EndOf(q[i])' \in Nat
              /\ \A j \in 1..(i - 1) : EndOf(q[j])' <= q[i].foffset
  <2>1. ASSUME NEW j \in 1..n
        PROVE  HasSize(q[j].type) /\ EndOf(q[j]) \in Nat /\ EndOf(q[j])' = EndOf(q[j])
    <3>1. q[j] \in Fields /\ HasSize(q[j].type)
      BY <1>1, <1>5, <1>7, <1>9 DEF StructInv
    <3>2. EndOf(q[j]) \in Nat
      BY <3>1, SizedType DEF EndOf, Fields
    <3> QED BY <3>1, <3>2, <1>15
  <2>2. /\ q[i].foffset % alignment(q[i].type) = 0 /\ EndOf(q[i]) <= spec[s].size
        /\ \A j \in 1..(i - 1) : EndOf(q[j]) <= q[i].foffset
    BY <1>1, <1>5, <1>7 DEF StructInv
  <2>3. \A j \in 1..(i - 1) : j \in 1..n
    BY <1>7
  <2> QED BY <1>9, <1>15, <2>1, <2>2, <2>3
<1>18. ASSUME NEW i \in 1..(n + 1)
       PROVE  /\ HasSize(r[i].type)' /\ r[i].foffset % alignment(r[i].type)' = 0
              /\ EndOf(r[i])' <= o + sizeof(t)
              /\ \A j \in 1..(i - 1) : EndOf(r[j])' <= r[i].foffset
  <2>1. ASSUME NEW j \in 1..n PROVE r[j] = q[j] /\ EndOf(r[j])' <= o /\ EndOf(r[j])' <= o + sizeof(t)
    <3>1. r[j] = q[j]
      BY <1>9
    <3>2. EndOf(q[j])' \in Nat /\ EndOf(q[j])' <= spec[s].size
      BY <1>17
    <3> QED BY <1>2, <1>3, <3>1, <3>2
  <2>2. CASE i = n + 1
    <3>1. r[i] = f /\ \A j \in 1..(i - 1) : j \in 1..n
      BY <1>7, <1>9, <2>2
    <3>2. o + sizeof(t) <= o + sizeof(t)
      BY <1>2
    <3> QED BY <1>3, <1>16, <2>1, <3>1, <3>2
  <2>3. CASE i # n + 1
    <3>1. i \in 1..n /\ \A j \in 1..(i - 1) : j \in 1..n
      BY <1>7, <2>3
    <3> QED BY <1>17, <2>1, <3>1
  <2> QED BY <2>2, <2>3
<1>19. StructInv(s)'
  <2>1. n + 1 # 0 /\ EndOf(r[n + 1])' = o + sizeof(t)
    BY <1>7, <1>9, <1>16
  <2> QED BY <1>9, <1>10, <1>11, <1>18, <2>1 DEF StructInv
<1>20. TypeInv(s)'
  BY <1>1, <1>11, <1>19 DEF TypeInv
<1> QED BY <1>13, <1>14, <1>20 DEF IInv

(* What field does to an open union, whatever the field's type.            *)
LEMMA UnionFieldKeeps ==
  ASSUME IInv, NEW u \in Unions, NEW t \in Types, UnionField(u, t)
  PROVE  IInv'
<1>1. u \in Aggregates /\ u \notin Structs /\ ~spec[u].complete /\ TypeOK /\ UnionInv(u)
  BY LayoutConstants DEF UnionField, IInv, TypeInv, Aggregates
<1>2. PICK f \in Fields : f = [type |-> t, foffset |-> 0]
  BY DEF Fields
<1>3. PICK q \in Seq(Fields) : q = fields[u]
  BY <1>1 DEF TypeOK
<1>4. /\ spec' = spec
      /\ fields' = [fields EXCEPT ![u] = <<f>> \o @]
      /\ returned' = [returned EXCEPT ![u] = Append(@, f)]
  BY <1>2 DEF UnionField, Return
<1>5. /\ fields'[u] = <<f>> \o q /\ <<f>> \o q \in Seq(Fields)
      /\ Range(<<f>> \o q) = Range(q) \cup {f}
  BY <1>1, <1>3, <1>4, RangeOfAdded DEF TypeOK
<1>6. returned'[u] \in Seq(Fields)
  BY <1>1, <1>4, AppendProperties DEF TypeOK
<1>7. TypeOK'
  BY <1>1, <1>4, <1>5, <1>6 DEF TypeOK
<1>8. \A b \in Aggregates \ {u} :
        spec'[b] = spec[b] /\ fields'[b] = fields[b] /\ returned'[b] = returned[b]
  BY <1>1, <1>4 DEF TypeOK
<1>9. \A b \in Aggregates \ {u} : TypeInv(b)'
  BY <1>1, <1>8, OthersStay
<1>10. UnionInv(u)'
  BY <1>1, <1>2, <1>3, <1>5 DEF UnionInv
<1>11. TypeInv(u)'
  BY <1>1, <1>4, <1>10 DEF TypeInv
<1> QED BY <1>7, <1>9, <1>11 DEF IInv

(* What seal makes of a type whose fields have sizes: the strictest        *)
(* alignment is one that all of them divide.                               *)
LEMMA Sealing ==
  ASSUME IInv, NEW a \in Aggregates, ~spec[a].complete,
         \A f \in Range(fields[a]) : HasSize(f.type),
         NEW size \in Nat, \A f \in Range(fields[a]) : EndOf(f) <= size,
         NEW align \in max_field_alignment(fields[a]),
         Seal(a, aligned_offset(size, align), align),
         fields' = [fields EXCEPT ![a] = Reverse(@)], returned' = returned
  PROVE  /\ spec'[a].complete /\ spec'[a].size \in Nat /\ spec'[a].size >= size
         /\ spec'[a].align = align /\ spec'[a].size = aligned_offset(size, align)
         /\ align \in Nat \ {0}
         /\ \A b \in Aggregates \ {a} :
              spec'[b] = spec[b] /\ fields'[b] = fields[b] /\ returned'[b] = returned[b]
         /\ fields'[a] = Reverse(fields[a]) /\ returned'[a] = returned[a]
         /\ SealedInv(a)' /\ TypeOK'
<1>1. TypeOK /\ fields[a] \in Seq(Fields)
  BY DEF IInv, TypeOK
<1>2. PICK R \in SUBSET Fields : R = Range(fields[a])
  BY <1>1, RangeOfSeq DEF Range
<1>3. \A f \in R : HasSize(f.type) /\ alignment(f.type) \in Aligns /\ f.type \in Types
  BY <1>2, SizedType DEF Fields
<1>4. align \in Aligns /\ \A f \in R : alignment(f.type) <= align
  <2>1. align \in Largest({alignment(f.type) : f \in R})
    BY <1>2 DEF max_field_alignment
  <2> QED BY <1>3, <2>1 DEF Largest
<1>5. align \in Nat \ {0}
  BY <1>4, LayoutConstants DEF Aligns
<1>6. PICK z \in Nat : z = aligned_offset(size, align) /\ z >= size /\ z % align = 0
  <2>1. /\ aligned_offset(size, align) \in size..(size + align - 1)
        /\ aligned_offset(size, align) % align = 0 /\ aligned_offset(size, align) \in Nat
    BY <1>5, AlignedOffset
  <2> QED BY <2>1
<1>7. /\ spec'[a] = [complete |-> TRUE, size |-> z, align |-> align]
      /\ \A b \in Aggregates \ {a} :
           spec'[b] = spec[b] /\ fields'[b] = fields[b] /\ returned'[b] = returned[b]
      /\ fields'[a] = Reverse(fields[a]) /\ returned'[a] = returned[a]
  BY <1>1, <1>6 DEF Seal, TypeOK
<1>8. Range(fields'[a]) = R /\ fields'[a] \in Seq(Fields)
  BY <1>1, <1>2, <1>7, Reversed
<1>9. TypeOK'
  BY <1>1, <1>5, <1>7, <1>8 DEF TypeOK, Seal
<1>10. ASSUME NEW f \in R
       PROVE  /\ HasSize(f.type)' /\ align % alignment(f.type)' = 0
              /\ EndOf(f)' <= z
  <2>1. /\ HasSize(f.type)' /\ alignment(f.type)' = alignment(f.type)
        /\ sizeof(f.type)' = sizeof(f.type)
    BY <1>3, <1>7, SizesStay
  <2>2. align % alignment(f.type) = 0
    BY <1>3, <1>4, AlignsDivide
  <2>3. EndOf(f)' = EndOf(f) /\ EndOf(f) <= size
    BY <1>2, <2>1 DEF EndOf
  <2>4. EndOf(f) \in Nat
    BY <1>3, SizedType DEF EndOf, Fields
  <2> QED BY <1>6, <2>1, <2>2, <2>3, <2>4
<1>11. SealedInv(a)'
  BY <1>4, <1>6, <1>7, <1>8, <1>10 DEF SealedInv, Aligns
<1> QED BY <1>5, <1>6, <1>7, <1>9, <1>11

(* seal on a struct: the size asked for is where its last field ends.      *)
LEMMA StructFieldsFit ==
  ASSUME IInv, NEW s \in Structs
  PROVE  \A f \in Range(fields[s]) :
           /\ f \in Fields /\ HasSize(f.type) /\ EndOf(f) \in Nat /\ EndOf(f) <= spec[s].size
           /\ \E i \in 1..Len(returned[s]) : f = returned[s][i]
<1>1. s \in Aggregates /\ TypeOK /\ StructInv(s)
  BY DEF IInv, TypeInv, Aggregates
<1>2. PICK q \in Seq(Fields) : q = returned[s]
  BY <1>1 DEF TypeOK
<1>3. PICK n \in Nat : n = Len(q)
  BY LenProperties
<1>4. Range(fields[s]) = Range(q)
  BY <1>1, <1>2, Reversed DEF StructInv
<1>5. \A i \in 1..n : q[i] \in Fields /\ HasSize(q[i].type) /\ EndOf(q[i]) <= spec[s].size
  BY <1>1, <1>2, <1>3, ElementOfSeq DEF StructInv
<1>6. DOMAIN q = 1..n
  BY <1>3, LenProperties
<1>7. \A f \in Range(fields[s]) : \E i \in 1..n : f = q[i]
  BY <1>4, <1>6 DEF Range
<1>8. ASSUME NEW f \in Fields, HasSize(f.type) PROVE EndOf(f) \in Nat
  BY <1>8, SizedType DEF EndOf, Fields
<1> QED BY <1>2, <1>3, <1>5, <1>7, <1>8

LEMMA SealStructKeeps == ASSUME IInv, NEW s \in Structs, SealStruct(s) PROVE IInv'
<1>1. /\ s \in Aggregates /\ s \notin Unions /\ ~spec[s].complete /\ TypeOK /\ StructInv(s)
      /\ spec[s].size \in Nat
  BY LayoutConstants DEF SealStruct, IInv, TypeInv, Aggregates, TypeOK
<1>2. PICK align \in max_field_alignment(fields[s]) :
        Seal(s, aligned_offset(spec[s].size, align), align)
  BY DEF SealStruct
<1>3. fields' = [fields EXCEPT ![s] = Reverse(@)] /\ returned' = returned
  BY DEF SealStruct
<1>4. /\ \A f \in Range(fields[s]) : HasSize(f.type)
      /\ \A f \in Range(fields[s]) : EndOf(f) <= spec[s].size
  BY StructFieldsFit
<1>5. PICK z \in Nat : z = spec[s].size
  BY <1>1
<1>6. /\ spec'[s].complete /\ spec'[s].size \in Nat /\ spec'[s].size >= z
      /\ \A b \in Aggregates \ {s} :
           spec'[b] = spec[b] /\ fields'[b] = fields[b] /\ returned'[b] = returned[b]
      /\ fields'[s] = Reverse(fields[s]) /\ returned'[s] = returned[s]
      /\ SealedInv(s)' /\ TypeOK'
  <2>1. /\ \A f \in Range(fields[s]) : EndOf(f) <= z
        /\ Seal(s, aligned_offset(z, align), align)
    BY <1>2, <1>4, <1>5
  <2> QED BY <1>1, <1>3, <1>4, <2>1, Sealing
<1>7. \A b \in Aggregates \ {s} : TypeInv(b)'
  BY <1>1, <1>6, OthersStay
<1>8. PICK q \in Seq(Fields) : q = returned[s]
  BY <1>1 DEF TypeOK
<1>9. PICK n \in Nat : n = Len(q)
  BY LenProperties
<1>10. \A i \in 1..n : q[i] \in Fields
  BY <1>9, ElementOfSeq
<1>11. returned'[s] = q /\ fields'[s] = q
  <2>1. fields[s] = Reverse(q)
    BY <1>1, <1>8 DEF StructInv
  <2> QED BY <1>6, <1>8, <2>1, Reversed
<1>12. ASSUME NEW i \in 1..n
       PROVE  /\ HasSize(q[i].type)' /\ q[i].foffset % alignment(q[i].type)' = 0
              /\ EndOf(q[i])' = EndOf(q[i]) /\ EndOf(q[i])' <= spec'[s].size
              /\ \A j \in 1..(i - 1) : EndOf(q[j]) <= q[i].foffset
  <2>1. /\ HasSize(q[i].type) /\ q[i].foffset % alignment(q[i].type) = 0
        /\ EndOf(q[i]) <= z /\ \A j \in 1..(i - 1) : EndOf(q[j]) <= q[i].foffset
    BY <1>1, <1>5, <1>8, <1>9 DEF StructInv
  <2>2. q[i].type \in Types /\ q[i].foffset \in Nat
    BY <1>10 DEF Fields
  <2>3. /\ HasSize(q[i].type)' /\ sizeof(q[i].type)' = sizeof(q[i].type)
        /\ alignment(q[i].type)' = alignment(q[i].type)
    BY <1>1, <1>6, <2>1, <2>2, SizesStay
  <2>4. EndOf(q[i]) \in Nat
    BY <2>1, <2>2, SizedType DEF EndOf
  <2>5. EndOf(q[i])' = EndOf(q[i])
    BY <2>3 DEF EndOf
  <2> QED BY <1>6, <2>1, <2>3, <2>4, <2>5
<1>13. \A i \in 1..n : \A j \in 1..(i - 1) : EndOf(q[j])' <= q[i].foffset
  <2> SUFFICES ASSUME NEW i \in 1..n, NEW j \in 1..(i - 1) PROVE EndOf(q[j])' <= q[i].foffset
    OBVIOUS
  <2>1. j \in 1..n
    BY <1>9
  <2> QED BY <1>12, <2>1
<1>14. StructInv(s)'
  BY <1>6, <1>9, <1>11, <1>12, <1>13 DEF StructInv
<1>15. TypeInv(s)'
  BY <1>1, <1>6, <1>14 DEF TypeInv
<1> QED BY <1>6, <1>7, <1>15 DEF IInv

LEMMA SealUnionKeeps == ASSUME IInv, NEW u \in Unions, SealUnion(u) PROVE IInv'
<1>1. /\ u \in Aggregates /\ u \notin Structs /\ ~spec[u].complete /\ TypeOK /\ UnionInv(u)
      /\ fields[u] \in Seq(Fields) /\ \A f \in Range(fields[u]) : HasSize(f.type)
  BY LayoutConstants DEF SealUnion, IInv, TypeInv, Aggregates, TypeOK
<1>2. PICK size \in max_field_size(fields[u]), align \in max_field_alignment(fields[u]) :
        Seal(u, aligned_offset(size, align), align)
  BY DEF SealUnion
<1>3. fields' = [fields EXCEPT ![u] = Reverse(@)] /\ returned' = returned
  BY DEF SealUnion
<1>4. Range(fields[u]) \subseteq Fields
  BY <1>1, RangeOfSeq DEF Range
<1>5. \A f \in Range(fields[u]) : sizeof(f.type) \in Nat /\ EndOf(f) = sizeof(f.type)
  <2> SUFFICES ASSUME NEW f \in Range(fields[u])
               PROVE sizeof(f.type) \in Nat /\ EndOf(f) = sizeof(f.type)
    OBVIOUS
  <2>1. sizeof(f.type) \in Nat /\ f.foffset = 0
    BY <1>1, <1>4, SizedType DEF Fields, UnionInv
  <2> QED BY <2>1 DEF EndOf
<1>6. size \in Nat /\ \A f \in Range(fields[u]) : EndOf(f) <= size
  BY <1>2, <1>5 DEF max_field_size, Largest
<1>7. /\ \A b \in Aggregates \ {u} :
           spec'[b] = spec[b] /\ fields'[b] = fields[b] /\ returned'[b] = returned[b]
      /\ fields'[u] = Reverse(fields[u])
      /\ SealedInv(u)' /\ TypeOK'
  BY <1>1, <1>2, <1>3, <1>6, Sealing
<1>8. \A b \in Aggregates \ {u} : TypeInv(b)'
  BY <1>1, <1>7, OthersStay
<1>9. UnionInv(u)'
  BY <1>1, <1>7, Reversed DEF UnionInv
<1> QED BY <1>1, <1>7, <1>8, <1>9 DEF IInv, TypeInv

(* seal on a union with a field that has no size yet.                      *)
LEMMA SealUnionFailsKeeps == ASSUME IInv, NEW u \in Unions, SealUnionFails(u) PROVE IInv'
<1>1. /\ u \in Aggregates /\ u \notin Structs /\ ~spec[u].complete /\ TypeOK /\ UnionInv(u)
      /\ fields[u] \in Seq(Fields)
  BY LayoutConstants DEF SealUnionFails, IInv, TypeInv, Aggregates, TypeOK
<1>2. spec' = spec /\ returned' = returned /\ fields' = [fields EXCEPT ![u] = Reverse(@)]
  BY DEF SealUnionFails
<1>3. fields'[u] = Reverse(fields[u]) /\ \A b \in Aggregates \ {u} : fields'[b] = fields[b]
  BY <1>1, <1>2 DEF TypeOK
<1>4. Reverse(fields[u]) \in Seq(Fields) /\ Range(Reverse(fields[u])) = Range(fields[u])
  BY <1>1, Reversed
<1>5. TypeOK'
  BY <1>1, <1>2, <1>3, <1>4 DEF TypeOK
<1>6. \A b \in Aggregates \ {u} : TypeInv(b)'
  BY <1>1, <1>2, <1>3, OthersStay
<1>7. UnionInv(u)'
  BY <1>1, <1>3, <1>4 DEF UnionInv
<1>8. TypeInv(u)'
  BY <1>1, <1>2, <1>7 DEF TypeInv
<1> QED BY <1>5, <1>6, <1>8 DEF IInv

LEMMA StepIInv == IInv /\ [Next]_vars => IInv'
<1> SUFFICES ASSUME IInv, [Next]_vars PROVE IInv'
  OBVIOUS
<1>1. CASE Next
  BY <1>1, StructFieldKeeps, UnionFieldKeeps, SealStructKeeps, SealUnionKeeps, SealUnionFailsKeeps
     DEF Next
<1>2. CASE UNCHANGED vars
  <2>1. spec' = spec /\ fields' = fields /\ returned' = returned
    BY <1>2 DEF vars
  <2>2. TypeOK'
    BY <2>1 DEF IInv, TypeOK
  <2>3. SUFFICES ASSUME NEW a \in Aggregates PROVE TypeInv(a)'
    BY <2>2 DEF IInv
  <2>4. \A t : HasSize(t)' = HasSize(t) /\ sizeof(t)' = sizeof(t) /\ alignment(t)' = alignment(t)
    BY <2>1 DEF HasSize, sizeof, alignment
  <2>5. \A f : EndOf(f)' = EndOf(f)
    BY <2>4 DEF EndOf
  <2>6. TypeInv(a)
    BY DEF IInv
  <2> QED BY <2>1, <2>4, <2>5, <2>6 DEF TypeInv, StructInv, UnionInv, SealedInv
<1> QED BY <1>1, <1>2

-----------------------------------------------------------------------------
(* What the invariant says of the layout *)

LEMMA InvariantSuffices == IInv => TypeOK /\ FieldsApart /\ SealedTypesTile /\ StructOrder
<1> SUFFICES ASSUME IInv PROVE TypeOK /\ FieldsApart /\ SealedTypesTile /\ StructOrder
  OBVIOUS
<1>1. TypeOK /\ \A a \in Aggregates : TypeInv(a)
  BY DEF IInv
<1>2. FieldsApart
  <2> SUFFICES ASSUME NEW s \in Structs, NEW i \in DOMAIN returned[s]
               PROVE  LET f == returned[s][i] IN
                      /\ HasSize(f.type)
                      /\ f.foffset % alignment(f.type) = 0
                      /\ f.foffset + sizeof(f.type) <= spec[s].size
                      /\ \A j \in 1..(i - 1) :
                           returned[s][j].foffset + sizeof(returned[s][j].type) <= f.foffset
    BY DEF FieldsApart
  <2>1. StructInv(s) /\ returned[s] \in Seq(Fields)
    BY <1>1 DEF TypeInv, Aggregates, TypeOK
  <2>2. i \in 1..Len(returned[s])
    BY <2>1, LenProperties
  <2> QED BY <2>1, <2>2 DEF StructInv, EndOf
<1>3. SealedTypesTile
  <2> SUFFICES ASSUME NEW a \in Aggregates, spec[a].complete
               PROVE  /\ spec[a].align > 0 /\ spec[a].size % spec[a].align = 0
                      /\ \A f \in Range(fields[a]) :
                           /\ HasSize(f.type)
                           /\ spec[a].align % alignment(f.type) = 0
                           /\ f.foffset + sizeof(f.type) <= spec[a].size
    BY DEF SealedTypesTile
  <2>1. SealedInv(a)
    BY <1>1 DEF TypeInv
  <2>2. spec[a].align \in Nat \ {0}
    BY <2>1, LayoutConstants DEF SealedInv, Aligns
  <2> QED BY <2>1, <2>2 DEF SealedInv, EndOf
<1>4. StructOrder
  BY <1>1 DEF StructOrder, TypeInv, StructInv, Aggregates
<1> QED BY <1>1, <1>2, <1>3, <1>4

(* The invariant of the types under construction: what has been returned   *)
(* for each struct, and what each sealed type was made of.                 *)
THEOREM Invariance == Spec => []IInv
BY InitIInv, StepIInv, PTL DEF Spec

(* Sizes and offsets are natural numbers, and field lists lists of fields. *)
THEOREM TypeCorrect == Spec => []TypeOK
BY InvariantSuffices, Invariance, PTL

(* The field values of a struct never overlap, are aligned and in bounds,  *)
(* however its types were declared, sealed and nested                      *)
(* (ctypes_structs_computed.ml).                                           *)
THEOREM FieldsKeepApart == Spec => []FieldsApart
BY InvariantSuffices, Invariance, PTL

(* Arrays of a sealed type have all their elements' fields aligned and in  *)
(* bounds: seal's padding suffices at every depth of nesting.              *)
THEOREM SealedTypesDoTile == Spec => []SealedTypesTile
BY InvariantSuffices, Invariance, PTL

(* "fields are in reverse order iff the struct type is incomplete"         *)
(* (ctypes_static.ml:75).                                                  *)
THEOREM FieldsInOrder == Spec => []StructOrder
BY InvariantSuffices, Invariance, PTL

-----------------------------------------------------------------------------
(* The records implement the C declarations *)

LEMMA LayoutOf ==
  ASSUME IInv
  PROVE  /\ \A a \in Aggregates : Layout[a] = C!Open <=> ~spec[a].complete
         /\ \A t \in Types : C!HasLayout(t) <=> HasSize(t)
         /\ \A t \in Types : HasSize(t) => C!SizeOf(t) = sizeof(t) /\ C!AlignOf(t) = alignment(t)
<1>1. ASSUME NEW a \in Aggregates
      PROVE  /\ Layout[a] = C!Open <=> ~spec[a].complete
             /\ spec[a].complete => Layout[a].size = spec[a].size /\ Layout[a].align = spec[a].align
  <2>1. spec[a].size \in Nat /\ spec[a].complete \in BOOLEAN
    BY DEF IInv, TypeOK
  <2> QED BY <2>1 DEF Layout, C!Open
<1>2. ASSUME NEW t \in Types PROVE C!HasLayout(t) <=> HasSize(t)
  BY <1>1 DEF C!HasLayout, HasSize, Aggregates
<1>3. ASSUME NEW t \in Types, HasSize(t)
      PROVE  C!SizeOf(t) = sizeof(t) /\ C!AlignOf(t) = alignment(t)
  <2>1. CASE t.elem \in Prims
    BY <2>1 DEF C!SizeOf, C!AlignOf, C!ElemLayout, sizeof, alignment
  <2>2. CASE t.elem \notin Prims
    <3>1. t.elem \in Aggregates /\ spec[t.elem].complete
      BY <1>3, <2>2 DEF HasSize
    <3> QED BY <1>1, <2>2, <3>1 DEF C!SizeOf, C!AlignOf, C!ElemLayout, sizeof, alignment
  <2> QED BY <2>1, <2>2
<1> QED BY <1>1, <1>2, <1>3

(* The members of a struct are its fields in the order they were returned. *)
PlacedAs ==
  /\ \A s \in Structs : Placed[s] = returned[s]
  /\ \A u \in Unions : Placed[u] = Range(fields[u])

LEMMA PlacedIs == IInv => PlacedAs
<1> SUFFICES ASSUME IInv PROVE PlacedAs
  OBVIOUS
<1>1. ASSUME NEW s \in Structs PROVE Placed[s] = returned[s]
  <2>1. s \in Aggregates /\ StructInv(s) /\ returned[s] \in Seq(Fields)
    BY DEF IInv, TypeInv, Aggregates, TypeOK
  <2>2. Reverse(Reverse(returned[s])) = returned[s]
    BY <2>1, Reversed
  <2> QED BY <2>1, <2>2 DEF StructInv, Placed, Declared
<1>2. ASSUME NEW u \in Unions PROVE Placed[u] = Range(fields[u])
  BY LayoutConstants DEF Placed, Aggregates
<1> QED BY <1>1, <1>2 DEF PlacedAs

LEMMA PlacedStays == IInv' => PlacedAs'
BY PlacedIs, PTL

LEMMA InitC == Init => C!CInit
<1> SUFFICES ASSUME Init PROVE C!CInit
  OBVIOUS
<1>1. IInv
  BY InitIInv
<1>2. Placed = [a \in Structs \cup Unions |-> IF a \in Structs THEN <<>> ELSE {}]
  <2>1. \A s \in Structs : Placed[s] = <<>>
    BY <1>1, PlacedIs DEF PlacedAs, Init, Aggregates
  <2>2. \A u \in Unions : Placed[u] = {}
    BY <1>1, PlacedIs DEF PlacedAs, Init, Aggregates, Range
  <2>3. Placed = [a \in Structs \cup Unions |-> Placed[a]]
    BY DEF Placed, Aggregates
  <2> QED BY <2>1, <2>2, <2>3
<1>3. Layout = [a \in Structs \cup Unions |-> C!Open]
  BY DEF Init, Layout, Aggregates, C!Open
<1> QED BY <1>2, <1>3 DEF C!CInit

(* A step that leaves all types but a alone changes nothing else in C.     *)
LEMMA OthersSame ==
  ASSUME IInv, IInv', NEW a \in Aggregates,
         \A b \in Aggregates \ {a} :
           spec'[b] = spec[b] /\ fields'[b] = fields[b] /\ returned'[b] = returned[b]
  PROVE  /\ Placed' = [Placed EXCEPT ![a] = Placed'[a]]
         /\ Layout' = [Layout EXCEPT ![a] = Layout'[a]]
         /\ Layout'[a] = Layout[a] => Layout' = Layout
         /\ Placed'[a] = Placed[a] => Placed' = Placed
<1>1. \A b \in Aggregates \ {a} : Placed'[b] = Placed[b] /\ Layout'[b] = Layout[b]
  BY DEF Placed, Declared, Layout
<1>2. /\ Placed = [b \in Aggregates |-> Placed[b]] /\ Placed' = [b \in Aggregates |-> Placed'[b]]
      /\ Layout = [b \in Aggregates |-> Layout[b]] /\ Layout' = [b \in Aggregates |-> Layout'[b]]
  BY DEF Placed, Layout
<1>3. /\ \A b \in Aggregates : Placed'[b] = [Placed EXCEPT ![a] = Placed'[a]][b]
      /\ \A b \in Aggregates : Layout'[b] = [Layout EXCEPT ![a] = Layout'[a]][b]
  BY <1>1, <1>2
<1>4. /\ Placed' = [Placed EXCEPT ![a] = Placed'[a]]
      /\ Layout' = [Layout EXCEPT ![a] = Layout'[a]]
  BY <1>2, <1>3
<1>5. (Layout'[a] = Layout[a] => Layout' = Layout) /\ (Placed'[a] = Placed[a] => Placed' = Placed)
  BY <1>1, <1>2
<1> QED BY <1>4, <1>5

(* The next member begins where C lets it begin.                           *)
LEMMA EndIsSize ==
  ASSUME IInv, NEW s \in Structs, ~spec[s].complete
  PROVE  C!End(s) = spec[s].size
<1>1. StructInv(s) /\ returned[s] \in Seq(Fields) /\ Placed[s] = returned[s]
  BY PlacedIs DEF PlacedAs, IInv, TypeInv, Aggregates, TypeOK
<1>2. PICK q \in Seq(Fields) : q = returned[s]
  BY <1>1
<1>3. PICK n \in Nat : n = Len(q)
  BY LenProperties
<1>4. CASE q = <<>>
  BY <1>1, <1>2, <1>3, <1>4, EmptySeq DEF StructInv, C!End
<1>5. CASE q # <<>>
  <2>1. n \in Nat \ {0} /\ q[n] \in Fields
    BY <1>3, <1>5, EmptySeq, ElementOfSeq
  <2>2. HasSize(q[n].type) /\ spec[s].size = EndOf(q[n])
    BY <1>1, <1>2, <1>3, <2>1 DEF StructInv
  <2>3. C!SizeOf(q[n].type) = sizeof(q[n].type)
    BY <2>1, <2>2, LayoutOf DEF Fields
  <2> QED BY <1>1, <1>2, <1>3, <1>5, <2>2, <2>3 DEF C!End, EndOf
<1> QED BY <1>4, <1>5

LEMMA StructFieldDeclares ==
  ASSUME IInv, IInv', NEW s \in Structs, NEW t \in Types, StructField(s, t)
  PROVE  C!Declare(s, t)
<1>1. /\ s \in Aggregates /\ ~spec[s].complete /\ HasSize(t) /\ TypeOK
  BY DEF StructField, IInv, Aggregates
<1>2. PICK o : o = aligned_offset(spec[s].size, alignment(t))
  OBVIOUS
<1>3. C!FirstMultiple(C!End(s), C!AlignOf(t)) = o
  <2>1. /\ spec[s].size \in Nat /\ alignment(t) \in Nat \ {0}
        /\ C!End(s) = spec[s].size /\ C!AlignOf(t) = alignment(t)
    BY <1>1, SizedType, EndIsSize, LayoutOf DEF TypeOK
  <2>2. PICK z \in Nat : z = spec[s].size
    BY <2>1
  <2>3. PICK m \in Nat \ {0} : m = alignment(t)
    BY <2>1
  <2>4. C!FirstMultiple(z, m) = aligned_offset(z, m)
    BY FirstIsAligned
  <2> QED BY <1>2, <2>1, <2>2, <2>3, <2>4
<1>4. /\ spec' = [spec EXCEPT ![s].size = o + sizeof(t)]
      /\ fields' = [fields EXCEPT ![s] = <<[type |-> t, foffset |-> o]>> \o @]
      /\ returned' = [returned EXCEPT ![s] = Append(@, [type |-> t, foffset |-> o])]
  BY <1>2 DEF StructField, Return
<1>5. /\ \A b \in Aggregates \ {s} :
           spec'[b] = spec[b] /\ fields'[b] = fields[b] /\ returned'[b] = returned[b]
      /\ returned'[s] = Append(returned[s], [type |-> t, foffset |-> o])
      /\ ~spec'[s].complete
  BY <1>1, <1>4 DEF TypeOK
<1>6. Placed[s] = returned[s] /\ Placed'[s] = returned'[s]
  BY PlacedIs, PlacedStays DEF PlacedAs
<1>7. Placed' = [Placed EXCEPT ![s] = Append(@, [type |-> t, foffset |-> o])]
  <2>1. Placed' = [Placed EXCEPT ![s] = Placed'[s]]
    BY <1>1, <1>5, OthersSame
  <2> QED BY <1>5, <1>6, <2>1
<1>8. Layout' = Layout
  <2>1. Layout'[s] = Layout[s]
    BY <1>1, <1>5 DEF Layout
  <2> QED BY <1>1, <1>5, <2>1, OthersSame
<1>9. Layout[s] = C!Open /\ C!HasLayout(t)
  BY <1>1, LayoutOf
<1> QED BY <1>3, <1>7, <1>8, <1>9 DEF C!Declare

LEMMA UnionFieldDeclares ==
  ASSUME IInv, IInv', NEW u \in Unions, NEW t \in Types, UnionField(u, t)
  PROVE  C!DeclareAlternative(u, t)
<1>1. u \in Aggregates /\ ~spec[u].complete /\ TypeOK /\ fields[u] \in Seq(Fields)
  BY DEF UnionField, IInv, Aggregates, TypeOK
<1>2. PICK f \in Fields : f = [type |-> t, foffset |-> 0]
  BY DEF Fields
<1>3. /\ spec' = spec
      /\ fields' = [fields EXCEPT ![u] = <<f>> \o @]
      /\ returned' = [returned EXCEPT ![u] = Append(@, f)]
  BY <1>2 DEF UnionField, Return
<1>4. /\ \A b \in Aggregates \ {u} :
           spec'[b] = spec[b] /\ fields'[b] = fields[b] /\ returned'[b] = returned[b]
      /\ fields'[u] = <<f>> \o fields[u]
  BY <1>1, <1>3 DEF TypeOK
<1>5. Placed[u] = Range(fields[u]) /\ Placed'[u] = Range(fields'[u])
  BY PlacedIs, PlacedStays DEF PlacedAs
<1>6. Range(fields'[u]) = Range(fields[u]) \cup {f}
  BY <1>1, <1>4, RangeOfAdded
<1>7. Placed' = [Placed EXCEPT ![u] = @ \cup {f}]
  <2>1. Placed' = [Placed EXCEPT ![u] = Placed'[u]]
    BY <1>1, <1>4, OthersSame
  <2> QED BY <1>5, <1>6, <2>1
<1>8. Layout' = Layout
  BY <1>3 DEF Layout
<1>9. Layout[u] = C!Open
  BY <1>1, LayoutOf
<1> QED BY <1>2, <1>7, <1>8, <1>9 DEF C!DeclareAlternative

(* seal closes the C type: room is what the fields need, and the strictest *)
(* alignment is the C type's.                                              *)
LEMMA SealCloses ==
  ASSUME IInv, IInv', NEW a \in Aggregates, ~spec[a].complete,
         NEW R, R \subseteq Fields, R # {}, C!Contents(a) = R, Range(fields[a]) = R,
         Placed'[a] = Placed[a],
         \A f \in R : HasSize(f.type),
         NEW room \in {EndOf(f) : f \in R}, \A f \in R : EndOf(f) <= room,
         NEW align \in max_field_alignment(fields[a]),
         Seal(a, aligned_offset(room, align), align),
         \A b \in Aggregates \ {a} :
           spec'[b] = spec[b] /\ fields'[b] = fields[b] /\ returned'[b] = returned[b]
  PROVE  C!Close(a)
<1>1. Layout[a] = C!Open /\ TypeOK
  BY LayoutOf DEF IInv
<1>2. ASSUME NEW f \in R
      PROVE  /\ C!HasLayout(f.type) /\ C!AlignOf(f.type) = alignment(f.type)
             /\ f.foffset + C!SizeOf(f.type) = EndOf(f)
             /\ EndOf(f) \in Nat /\ alignment(f.type) \in Nat \ {0}
  <2>1. f.type \in Types /\ f.foffset \in Nat /\ HasSize(f.type)
    BY DEF Fields
  <2> QED BY <2>1, LayoutOf, SizedType DEF EndOf
<1>3. /\ align \in {alignment(f.type) : f \in R}
      /\ \A f \in R : alignment(f.type) <= align
  <2>1. align \in Largest({alignment(f.type) : f \in R})
    BY DEF max_field_alignment
  <2> QED BY <2>1 DEF Largest
<1>4. room \in Nat /\ align \in Nat \ {0}
  BY <1>2, <1>3
<1>5. /\ align \in {C!AlignOf(f.type) : f \in R}
      /\ room \in {f.foffset + C!SizeOf(f.type) : f \in R}
      /\ \A f \in R : C!AlignOf(f.type) <= align /\ f.foffset + C!SizeOf(f.type) <= room
  BY <1>2, <1>3
<1>6. C!FirstMultiple(room, align) = aligned_offset(room, align)
  BY <1>4, FirstIsAligned
<1>7. Layout' = [Layout EXCEPT ![a] = [size |-> C!FirstMultiple(room, align), align |-> align]]
  <2>1. spec'[a] = [complete |-> TRUE, size |-> aligned_offset(room, align), align |-> align]
    BY <1>1 DEF Seal, TypeOK
  <2>2. Layout'[a] = [size |-> aligned_offset(room, align), align |-> align]
    BY <2>1 DEF Layout
  <2>3. Layout' = [Layout EXCEPT ![a] = Layout'[a]]
    BY OthersSame
  <2> QED BY <1>6, <2>2, <2>3
<1>8. Placed' = Placed
  BY OthersSame
<1> QED BY <1>1, <1>2, <1>5, <1>7, <1>8 DEF C!Close

LEMMA SealStructCloses ==
  ASSUME IInv, IInv', NEW s \in Structs, SealStruct(s)
  PROVE  C!Close(s)
<1>1. /\ s \in Aggregates /\ ~spec[s].complete /\ TypeOK /\ StructInv(s) /\ fields[s] # <<>>
  BY DEF SealStruct, IInv, TypeInv, Aggregates
<1>2. PICK align \in max_field_alignment(fields[s]) :
        Seal(s, aligned_offset(spec[s].size, align), align)
  BY DEF SealStruct
<1>3. PICK q \in Seq(Fields) : q = returned[s]
  BY <1>1 DEF TypeOK
<1>4. PICK n \in Nat : n = Len(q)
  BY LenProperties
<1>5. fields[s] = Reverse(q) /\ q # <<>>
  <2>1. fields[s] = Reverse(q)
    BY <1>1, <1>3 DEF StructInv
  <2>2. q # <<>>
    BY <1>1, <2>1, Reversed, EmptySeq
  <2> QED BY <2>1, <2>2
<1>6. n # 0 /\ q[n] \in Range(q) /\ DOMAIN q = 1..n
  BY <1>4, <1>5, EmptySeq, LenProperties DEF Range
<1>7. PICK R \in SUBSET Fields : R = Range(q)
  BY RangeOfSeq DEF Range
<1>8. Range(fields[s]) = R /\ R # {} /\ q[n] \in R
  BY <1>5, <1>6, <1>7, Reversed
<1>9. \A f \in R : HasSize(f.type) /\ EndOf(f) <= spec[s].size
  BY <1>8, StructFieldsFit
<1>10. spec[s].size = EndOf(q[n])
  BY <1>1, <1>3, <1>4, <1>6 DEF StructInv
<1>11. spec[s].size \in {EndOf(f) : f \in R}
  BY <1>8, <1>10
<1>12. Placed[s] = q /\ Placed'[s] = q
  <2>1. returned'[s] = q
    BY <1>3 DEF SealStruct
  <2> QED BY <1>3, <2>1, PlacedIs, PlacedStays DEF PlacedAs
<1>13. C!Contents(s) = R
  BY <1>7, <1>12 DEF C!Contents, Range
<1>14. \A b \in Aggregates \ {s} :
         spec'[b] = spec[b] /\ fields'[b] = fields[b] /\ returned'[b] = returned[b]
  BY <1>1, <1>2 DEF SealStruct, Seal, TypeOK
<1> QED BY <1>1, <1>2, <1>8, <1>9, <1>11, <1>12, <1>13, <1>14, SealCloses

LEMMA SealUnionCloses ==
  ASSUME IInv, IInv', NEW u \in Unions, SealUnion(u)
  PROVE  C!Close(u)
<1>1. /\ u \in Aggregates /\ u \notin Structs /\ ~spec[u].complete /\ TypeOK /\ UnionInv(u)
      /\ fields[u] \in Seq(Fields) /\ fields[u] # <<>> /\ \A f \in Range(fields[u]) : HasSize(f.type)
  BY LayoutConstants DEF SealUnion, IInv, TypeInv, Aggregates, TypeOK
<1>2. PICK size \in max_field_size(fields[u]), align \in max_field_alignment(fields[u]) :
        Seal(u, aligned_offset(size, align), align)
  BY DEF SealUnion
<1>3. PICK R \in SUBSET Fields : R = Range(fields[u])
  BY <1>1, RangeOfSeq DEF Range
<1>4. R # {}
  <2>1. Len(fields[u]) \in Nat \ {0} /\ DOMAIN fields[u] = 1..Len(fields[u])
    BY <1>1, EmptySeq, LenProperties
  <2>2. fields[u][1] \in Range(fields[u])
    BY <2>1 DEF Range
  <2> QED BY <1>3, <2>2
<1>5. \A f \in R : EndOf(f) = sizeof(f.type)
  <2> SUFFICES ASSUME NEW f \in R PROVE EndOf(f) = sizeof(f.type)
    OBVIOUS
  <2>1. sizeof(f.type) \in Nat /\ f.foffset = 0
    BY <1>1, <1>3, SizedType DEF Fields, UnionInv
  <2> QED BY <2>1 DEF EndOf
<1>6. size \in {EndOf(f) : f \in R} /\ \A f \in R : EndOf(f) <= size
  <2>1. size \in Largest({sizeof(f.type) : f \in R})
    BY <1>2, <1>3 DEF max_field_size
  <2> QED BY <1>5, <2>1 DEF Largest
<1>7. /\ \A b \in Aggregates \ {u} :
           spec'[b] = spec[b] /\ fields'[b] = fields[b] /\ returned'[b] = returned[b]
      /\ fields'[u] = Reverse(fields[u])
  BY <1>1, <1>2 DEF SealUnion, Seal, TypeOK
<1>8. Placed[u] = R /\ Placed'[u] = R
  <2>1. Range(fields'[u]) = R
    BY <1>1, <1>3, <1>7, Reversed
  <2> QED BY <1>3, <2>1, PlacedIs, PlacedStays DEF PlacedAs
<1>9. C!Contents(u) = R
  BY <1>1, <1>8 DEF C!Contents
<1> QED BY <1>1, <1>2, <1>3, <1>4, <1>6, <1>7, <1>8, <1>9, SealCloses

(* seal on a union with a field that has no size changes only the order    *)
(* of its list.                                                            *)
LEMMA SealUnionFailsStutters ==
  ASSUME IInv, IInv', NEW u \in Unions, SealUnionFails(u)
  PROVE  UNCHANGED C!cvars
<1>1. u \in Aggregates /\ TypeOK /\ fields[u] \in Seq(Fields)
  BY DEF SealUnionFails, IInv, Aggregates, TypeOK
<1>2. spec' = spec /\ returned' = returned /\ fields' = [fields EXCEPT ![u] = Reverse(@)]
  BY DEF SealUnionFails
<1>3. fields'[u] = Reverse(fields[u]) /\ \A b \in Aggregates \ {u} : fields'[b] = fields[b]
  BY <1>1, <1>2 DEF TypeOK
<1>4. Range(Reverse(fields[u])) = Range(fields[u])
  BY <1>1, Reversed
<1>5. Placed'[u] = Placed[u]
  BY <1>3, <1>4, PlacedIs, PlacedStays DEF PlacedAs
<1>6. Placed' = Placed
  BY <1>1, <1>2, <1>3, <1>5, OthersSame
<1>7. Layout' = Layout
  BY <1>2 DEF Layout
<1> QED BY <1>6, <1>7 DEF C!cvars

LEMMA StepC == IInv /\ IInv' /\ [Next]_vars => [C!CNext]_(C!cvars)
<1> SUFFICES ASSUME IInv, IInv', [Next]_vars PROVE [C!CNext]_(C!cvars)
  OBVIOUS
<1>1. ASSUME NEW s \in Structs, SealStruct(s) PROVE C!CNext
  BY <1>1, SealStructCloses DEF C!CNext
<1>2. ASSUME NEW s \in Structs, NEW t \in Types, StructField(s, t) PROVE C!CNext
  BY <1>2, StructFieldDeclares DEF C!CNext
<1>3. ASSUME NEW u \in Unions, SealUnion(u) PROVE C!CNext
  BY <1>3, SealUnionCloses DEF C!CNext
<1>4. ASSUME NEW u \in Unions, SealUnionFails(u) PROVE UNCHANGED C!cvars
  BY <1>4, SealUnionFailsStutters
<1>5. ASSUME NEW u \in Unions, NEW t \in Types, UnionField(u, t) PROVE C!CNext
  BY <1>5, UnionFieldDeclares DEF C!CNext
<1>6. CASE UNCHANGED vars
  BY <1>6 DEF vars, C!cvars, Placed, Declared, Layout
<1> QED BY <1>1, <1>2, <1>3, <1>4, <1>5, <1>6 DEF Next

(* field and seal lay types out as a C compiler does: members in order,    *)
(* each at the next multiple of its alignment; a sealed type has the size  *)
(* and alignment C gives it, and "no further fields can be added"          *)
(* (ctypes_types.mli:295).                                                 *)
THEOREM ImplementsDeclarations == Spec => ImplementsC
<1>1. IInv /\ IInv' /\ [Next]_vars => [C!CNext]_(C!cvars)
  BY StepC
<1> QED BY <1>1, InitC, Invariance, PTL DEF Spec, ImplementsC, C!CSpec
=============================================================================
