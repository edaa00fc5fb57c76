----------------------------- MODULE WireProofs -----------------------------
(* Proofs about Wire: what a hook logs is what parse_payload tells, for every *)
(* value, address, path and parameter, and wherever in a chunk it stands.     *)
EXTENDS Wire, SequenceTheorems, WellFoundedInduction, TLAPS

-----------------------------------------------------------------------------
(* Induction, for sets of natural numbers. *)

\* A set of numbers that is not empty has a least one.
LEMMA LeastNumber ==
    ASSUME NEW S \in SUBSET Nat, S # {}
    PROVE  \E m \in S : \A n \in S : m <= n
<1> DEFINE R == {ss \in Nat \X Nat : ss[1] < ss[2]}
<1>1. IsWellFoundedOn(R, Nat)
    BY NatLessThanWellFounded DEF OpToRel
<1>2. \A x, y \in Nat : y < x => <<y, x>> \in R
    OBVIOUS
<1> HIDE DEF R
<1>3. PICK x \in S : \A y \in S : ~(<<y, x>> \in R)
    BY <1>1, WFMin
<1>4. \A y \in S : ~(y < x)
    BY <1>2, <1>3
<1> QED
    BY <1>3, <1>4

\* A set that has 0 and with a number the next has them all.
LEMMA SetInduction ==
    ASSUME NEW S, 0 \in S, \A n \in Nat : n \in S => n + 1 \in S
    PROVE  Nat \subseteq S
<1>1. SUFFICES ASSUME Nat \ S # {} PROVE FALSE
    OBVIOUS
<1>2. PICK m \in Nat \ S : \A n \in Nat \ S : m <= n
    BY <1>1, LeastNumber
<1>3. m # 0 /\ m - 1 \in Nat /\ m - 1 \in S
    BY <1>2
<1> QED
    BY <1>2, <1>3

\* A set that has a number whenever it has all smaller ones has them all.
LEMMA SetStrongInduction ==
    ASSUME NEW S, \A n \in Nat : (\A m \in Nat : m < n => m \in S) => n \in S
    PROVE  Nat \subseteq S
<1>1. SUFFICES ASSUME Nat \ S # {} PROVE FALSE
    OBVIOUS
<1>2. PICK m \in Nat \ S : \A n \in Nat \ S : m <= n
    BY <1>1, LeastNumber
<1>3. \A n \in Nat : n < m => n \in S
    BY <1>2
<1> QED
    BY <1>2, <1>3

-----------------------------------------------------------------------------
(* Pieces of sequences. *)

\* A sequence over some set.
IsSeq(s) == \E S : s \in Seq(S)

\* Two sequences are sequences over one set.
LEMMA CommonSet ==
    ASSUME NEW s, NEW t, IsSeq(s), IsSeq(t)
    PROVE  \E S : s \in Seq(S) /\ t \in Seq(S)
<1>1. PICK A : s \in Seq(A)
    BY DEF IsSeq
<1>2. PICK B : t \in Seq(B)
    BY DEF IsSeq
<1>3. s \in Seq(A \cup B)
    BY <1>1, SeqMonotonic, A \subseteq A \cup B
<1>4. t \in Seq(A \cup B)
    BY <1>2, SeqMonotonic, B \subseteq A \cup B
<1> QED
    BY <1>3, <1>4

\* Concatenation is associative, whatever the sequences are of.
LEMMA ConcatAssoc ==
    ASSUME NEW s, NEW t, NEW u, IsSeq(s), IsSeq(t), IsSeq(u)
    PROVE  (s \o t) \o u = s \o (t \o u) /\ IsSeq(s \o t)
<1>1. PICK A : s \in Seq(A) /\ t \in Seq(A)
    BY CommonSet
<1>2. PICK B : u \in Seq(B)
    BY DEF IsSeq
<1>3. s \in Seq(A \cup B) /\ t \in Seq(A \cup B)
    BY <1>1, SeqMonotonic, A \subseteq A \cup B
<1>4. u \in Seq(A \cup B)
    BY <1>2, SeqMonotonic, B \subseteq A \cup B
<1>5. (s \o t) \o u = s \o (t \o u)
    BY <1>3, <1>4, ConcatAssociative
<1>6. s \o t \in Seq(A)
    BY <1>1, ConcatProperties
<1> QED
    BY <1>5, <1>6 DEF IsSeq

\* A field has the bytes it names.
LEMMA FieldType ==
    ASSUME NEW S, NEW b \in Seq(S), NEW at \in Nat, NEW w \in Nat, at + w <= Len(b)
    PROVE  /\ Field(b, at, w) \in Seq(S)
           /\ Field(b, at, w) \in [1 .. w -> S]
           /\ Len(Field(b, at, w)) = w
           /\ \A i \in 1 .. w : Field(b, at, w)[i] = b[at + i]
<1>1. \A i \in at + 1 .. at + w : b[i] \in S
    BY ElementOfSeq, LenProperties
<1> DEFINE m == at + 1  n == at + w  f == SubSeq(b, m, n)
<1>2. /\ f \in Seq(S)
      /\ Len(f) = IF m <= n THEN n - m + 1 ELSE 0
      /\ \A i \in 1 .. n - m + 1 : f[i] = b[m + i - 1]
    <2>1. m \in Int /\ n \in Int /\ \A i \in m .. n : b[i] \in S
        BY <1>1
    <2> HIDE DEF m, n
    <2> QED
        BY <2>1, SubSeqProperties
<1>3. /\ f \in Seq(S)
      /\ Len(f) = w
      /\ \A i \in 1 .. w : f[i] = b[at + i]
    BY <1>2
<1> QED
    BY <1>3, LenProperties DEF Field

\* Fields with the same bytes are the same.
LEMMA SameField ==
    ASSUME NEW S, NEW b \in Seq(S), NEW c \in Seq(S), NEW at \in Nat, NEW of \in Nat,
           NEW w \in Nat, at + w <= Len(b), of + w <= Len(c),
           \A i \in 1 .. w : b[at + i] = c[of + i]
    PROVE  Field(b, at, w) = Field(c, of, w)
<1> DEFINE f == Field(b, at, w)  g == Field(c, of, w)
<1>1. f \in Seq(S) /\ Len(f) = w /\ \A i \in 1 .. w : f[i] = b[at + i]
    BY FieldType
<1>2. g \in Seq(S) /\ Len(g) = w /\ \A i \in 1 .. w : g[i] = c[of + i]
    BY FieldType
<1> HIDE DEF f, g
<1>3. \A i \in 1 .. w : f[i] = g[i]
    BY <1>1, <1>2
<1>4. f = g
    BY <1>1, <1>2, <1>3, SeqEqual
<1> QED
    BY <1>4 DEF f, g

\* All of a sequence, and nothing of it.
LEMMA FieldAll ==
    ASSUME NEW S, NEW b \in Seq(S), NEW w, w = Len(b)
    PROVE  Field(b, 0, w) = b
<1>1. 0 + 1 = 1 /\ 0 + w = Len(b)
    BY LenProperties
<1> QED
    BY <1>1, SubSeqFull DEF Field

\* A field of no bytes is empty.
LEMMA FieldNone ==
    ASSUME NEW b, NEW at \in Nat
    PROVE  Field(b, at, 0) = <<>>
<1>1. at + 1 \in Int /\ at + 0 \in Int /\ at + 0 < at + 1
    OBVIOUS
<1> QED
    BY <1>1, SubSeqEmpty DEF Field

\* What is left after n bytes is a field.
LEMMA FromField ==
    ASSUME NEW S, NEW b \in Seq(S), NEW at \in Nat, NEW w \in Nat, Len(b) = at + w
    PROVE  From(b, at) = Field(b, at, w)
BY DEF From, Field

\* What is left is a sequence of bytes, as long as expected.
LEMMA FromType ==
    ASSUME NEW S, NEW b \in Seq(S), NEW at \in Nat, NEW w \in Nat, Len(b) = at + w
    PROVE  From(b, at) \in Seq(S) /\ Len(From(b, at)) = w
<1>1. at + w <= Len(b)
    OBVIOUS
<1> QED
    BY <1>1, FromField, FieldType

\* A field of a field.
LEMMA FieldField ==
    ASSUME NEW S, NEW b \in Seq(S), NEW at \in Nat, NEW w \in Nat, at + w <= Len(b),
           NEW of \in Nat, NEW v \in Nat, of + v <= w, NEW k \in Nat, k = at + of
    PROVE  Field(Field(b, at, w), of, v) = Field(b, k, v)
<1> DEFINE f == Field(b, at, w)
<1>1. f \in Seq(S) /\ Len(f) = w /\ \A i \in 1 .. w : f[i] = b[at + i]
    BY FieldType
<1> HIDE DEF f
<1> DEFINE g == Field(f, of, v)  h == Field(b, k, v)
<1>2. g \in Seq(S) /\ Len(g) = v /\ \A i \in 1 .. v : g[i] = f[of + i]
    <2>1. of + v <= Len(f)
        BY <1>1
    <2> QED
        BY <1>1, <2>1, FieldType
<1>3. h \in Seq(S) /\ Len(h) = v /\ \A i \in 1 .. v : h[i] = b[k + i]
    <2>1. k + v <= Len(b)
        BY LenProperties
    <2> QED
        BY <2>1, FieldType
<1> HIDE DEF g, h
<1>4. ASSUME NEW i \in 1 .. v PROVE g[i] = h[i]
    <2>1. of + i \in 1 .. w /\ at + (of + i) = k + i
        OBVIOUS
    <2>2. g[i] = f[of + i] /\ f[of + i] = b[at + (of + i)] /\ h[i] = b[k + i]
        BY <1>1, <1>2, <1>3, <2>1
    <2> QED
        BY <2>1, <2>2
<1>5. g = h
    BY <1>2, <1>3, <1>4, SeqEqual
<1> QED
    BY <1>5 DEF g, h, f

\* A field of what is left, and what is left of that.
LEMMA FieldFrom ==
    ASSUME NEW S, NEW b \in Seq(S), NEW k \in Nat, NEW at \in Nat, NEW w \in Nat,
           NEW of \in Nat, of = k + at, of + w <= Len(b)
    PROVE  Field(From(b, k), at, w) = Field(b, of, w)
<1>1. Len(b) \in Nat
    BY LenProperties
<1>2. PICK v \in Nat : Len(b) = k + v
    <2>1. Len(b) - k \in Nat /\ Len(b) = k + (Len(b) - k)
        BY <1>1
    <2> QED
        BY <2>1
<1>3. at + w <= v /\ k + v <= Len(b)
    BY <1>2
<1>4. From(b, k) = Field(b, k, v)
    BY <1>2, FromField
<1>5. Field(Field(b, k, v), at, w) = Field(b, of, w)
    BY <1>3, FieldField
<1> QED
    BY <1>4, <1>5

\* Leaving out bytes twice is leaving out their sum.
LEMMA FromFrom ==
    ASSUME NEW S, NEW b \in Seq(S), NEW k \in Nat, NEW at \in Nat,
           NEW of \in Nat, of = k + at, of <= Len(b)
    PROVE  From(From(b, k), at) = From(b, of)
<1>1. Len(b) \in Nat
    BY LenProperties
<1>2. PICK v \in Nat : Len(b) = of + v
    <2>1. Len(b) - of \in Nat /\ Len(b) = of + (Len(b) - of)
        BY <1>1
    <2> QED
        BY <2>1
<1>3. PICK n \in Nat : n = at + v
    OBVIOUS
<1>4. Len(b) = k + n /\ of + v <= Len(b)
    BY <1>2, <1>3
<1>5. From(b, k) \in Seq(S) /\ Len(From(b, k)) = n
    BY <1>4, FromType
<1>6. From(From(b, k), at) = Field(From(b, k), at, v)
    BY <1>3, <1>5, FromField
<1>7. Field(From(b, k), at, v) = Field(b, of, v)
    BY <1>4, FieldFrom
<1> QED
    BY <1>2, <1>6, <1>7, FromField

\* The tail of a sequence is what is left after its first byte.
LEMMA TailFrom ==
    ASSUME NEW S, NEW b \in Seq(S), b # <<>>
    PROVE  Tail(b) = From(b, 1) /\ Len(b) \in Nat /\ Len(b) >= 1
BY TailIsSubSeq, EmptySeq DEF From

-----------------------------------------------------------------------------
(* Pieces of a concatenation. *)

\* A field of the first sequence ...
LEMMA FieldLeft ==
    ASSUME NEW S, NEW s \in Seq(S), NEW t \in Seq(S), NEW at \in Nat, NEW w \in Nat,
           at + w <= Len(s)
    PROVE  Field(s \o t, at, w) = Field(s, at, w)
<1> DEFINE c == s \o t
<1>1. /\ c \in Seq(S) /\ Len(c) = Len(s) + Len(t)
      /\ \A i \in 1 .. Len(s) + Len(t) : c[i] = IF i <= Len(s) THEN s[i] ELSE t[i - Len(s)]
    BY ConcatProperties
<1>2. Len(s) \in Nat /\ Len(t) \in Nat
    BY LenProperties
<1> HIDE DEF c
<1>3. at + w <= Len(c)
    BY <1>1, <1>2
<1>4. ASSUME NEW i \in 1 .. w PROVE c[at + i] = s[at + i]
    <2>1. at + i \in 1 .. Len(s) + Len(t) /\ at + i <= Len(s)
        BY <1>2
    <2> QED
        BY <1>1, <2>1
<1>5. Field(c, at, w) = Field(s, at, w)
    BY <1>1, <1>3, <1>4, SameField, ZenonT(30)
<1> QED
    BY <1>5 DEF c

\* ... and of the second.
LEMMA FieldRight ==
    ASSUME NEW S, NEW s \in Seq(S), NEW t \in Seq(S), NEW at \in Nat, NEW w \in Nat,
           at + w <= Len(t), NEW of \in Nat, of = Len(s) + at
    PROVE  Field(s \o t, of, w) = Field(t, at, w)
<1> DEFINE c == s \o t  f == Field(c, of, w)  g == Field(t, at, w)
<1>1. /\ c \in Seq(S) /\ Len(c) = Len(s) + Len(t)
      /\ \A i \in 1 .. Len(s) + Len(t) : c[i] = IF i <= Len(s) THEN s[i] ELSE t[i - Len(s)]
    BY ConcatProperties
<1>2. Len(s) \in Nat /\ Len(t) \in Nat
    BY LenProperties
<1> HIDE DEF c
<1>3. f \in Seq(S) /\ Len(f) = w /\ \A i \in 1 .. w : f[i] = c[of + i]
    <2>1. \A k \in Nat : k + w <= Len(c) =>
              /\ Field(c, k, w) \in Seq(S) /\ Len(Field(c, k, w)) = w
              /\ \A i \in 1 .. w : Field(c, k, w)[i] = c[k + i]
        <3>1. c \in Seq(S)
            BY <1>1
        <3> QED
            BY <3>1, FieldType
    <2>2. of + w <= Len(c)
        BY <1>1, <1>2
    <2> QED
        BY <2>1, <2>2
<1>4. g \in Seq(S) /\ Len(g) = w /\ \A i \in 1 .. w : g[i] = t[at + i]
    BY FieldType
<1> HIDE DEF f, g
<1>5. ASSUME NEW i \in 1 .. w PROVE f[i] = g[i]
    <2>1. /\ of + i \in 1 .. Len(s) + Len(t) /\ ~(of + i <= Len(s))
          /\ (of + i) - Len(s) = at + i
        BY <1>2
    <2>2. c[of + i] = t[at + i]
        BY <1>1, <2>1
    <2> QED
        BY <1>3, <1>4, <2>2
<1>6. f = g
    BY <1>3, <1>4, <1>5, SeqEqual
<1> QED
    BY <1>6 DEF f, g, c

\* The second sequence is a field.
LEMMA FieldLast ==
    ASSUME NEW S, NEW s \in Seq(S), NEW t \in Seq(S), NEW at, NEW w,
           at = Len(s), w = Len(t)
    PROVE  Field(s \o t, at, w) = t
<1>1. at \in Nat /\ w \in Nat /\ at = Len(s) + 0 /\ 0 + w <= Len(t)
    BY LenProperties
<1>2. Field(s \o t, at, w) = Field(t, 0, w)
    BY <1>1, FieldRight
<1> QED
    BY <1>2, FieldAll

\* A sequence is two of its fields, and what it begins with and what is left.
LEMMA FieldSplit ==
    ASSUME NEW S, NEW b \in Seq(S), NEW at \in Nat, NEW v \in Nat, NEW w \in Nat,
           NEW of \in Nat, of = at + v, NEW n \in Nat, n = v + w, of + w <= Len(b)
    PROVE  Field(b, at, n) = Field(b, at, v) \o Field(b, of, w)
<1> DEFINE f == Field(b, at, v)  g == Field(b, of, w)  h == Field(b, at, n)  c == f \o g
<1>1. f \in Seq(S) /\ Len(f) = v /\ \A i \in 1 .. v : f[i] = b[at + i]
    <2>1. at + v <= Len(b)
        BY LenProperties
    <2> QED
        BY <2>1, FieldType
<1>2. g \in Seq(S) /\ Len(g) = w /\ \A i \in 1 .. w : g[i] = b[of + i]
    BY FieldType
<1>3. h \in Seq(S) /\ Len(h) = n /\ \A i \in 1 .. n : h[i] = b[at + i]
    <2>1. at + n <= Len(b)
        BY LenProperties
    <2> QED
        BY <2>1, FieldType
<1> HIDE DEF f, g, h
<1>4. /\ c \in Seq(S) /\ Len(c) = n
      /\ \A i \in 1 .. n : c[i] = IF i <= v THEN f[i] ELSE g[i - v]
    BY <1>1, <1>2, ConcatProperties, ZenonT(30)
<1> HIDE DEF c
<1>5. ASSUME NEW i \in 1 .. n PROVE h[i] = c[i]
    <2>1. CASE i <= v
        <3>1. c[i] = f[i] /\ f[i] = b[at + i]
            BY <1>1, <1>4, <2>1
        <3> QED
            BY <1>3, <3>1
    <2>2. CASE ~(i <= v)
        <3>1. i - v \in 1 .. w /\ of + (i - v) = at + i
            BY <2>2
        <3>2. c[i] = g[i - v] /\ g[i - v] = b[at + i]
            BY <1>2, <1>4, <2>2, <3>1
        <3> QED
            BY <1>3, <3>2
    <2> QED
        BY <2>1, <2>2
<1>6. h = c
    BY <1>3, <1>4, <1>5, SeqEqual
<1> QED
    BY <1>6 DEF h, c, f, g

\* What is left behind the beginning of a concatenation.
LEMMA FromConcat ==
    ASSUME NEW S, NEW s \in Seq(S), NEW t \in Seq(S), NEW at \in Nat, at <= Len(s)
    PROVE  From(s \o t, at) = From(s, at) \o t
<1> DEFINE c == s \o t
<1>1. Len(s) \in Nat /\ Len(t) \in Nat /\ c \in Seq(S) /\ Len(c) = Len(s) + Len(t)
    BY ConcatProperties, LenProperties
<1>2. PICK v \in Nat : Len(s) = at + v
    <2>1. Len(s) - at \in Nat /\ Len(s) = at + (Len(s) - at)
        BY <1>1
    <2> QED
        BY <2>1
<1>3. PICK n \in Nat : Len(t) = n
    BY <1>1
<1>4. PICK m \in Nat, k \in Nat : m = v + n /\ k = at + v
    BY <1>2, <1>3
<1>5. Len(c) = at + m /\ k + n <= Len(c) /\ at + v <= Len(s) /\ k = Len(s)
    BY <1>1, <1>2, <1>3, <1>4
<1>6. From(c, at) = Field(c, at, m)
    BY <1>1, <1>5, FromField
<1>7. Field(c, at, m) = Field(c, at, v) \o Field(c, k, n)
    <2> HIDE DEF c
    <2>1. c \in Seq(S) /\ k + n <= Len(c)
        BY <1>1, <1>5
    <2> QED
        BY <1>4, <2>1, FieldSplit
<1>8. Field(c, at, v) = Field(s, at, v)
    BY <1>5, FieldLeft
<1>9. Field(c, k, n) = t
    BY <1>3, <1>5, FieldLast
<1> QED
    BY <1>2, <1>6, <1>7, <1>8, <1>9, FromField

\* All of it, and nothing.
LEMMA FromEnds ==
    ASSUME NEW S, NEW t \in Seq(S), NEW n, n = Len(t)
    PROVE  From(t, 0) = t /\ From(t, n) = <<>>
<1>1. n \in Nat /\ n + 1 \in Int /\ n \in Int /\ n < n + 1
    BY LenProperties
<1>2. From(t, n) = <<>>
    BY <1>1, SubSeqEmpty DEF From
<1> QED
    BY <1>2, SubSeqFull, LenProperties DEF From

-----------------------------------------------------------------------------
(* A packet is read from the bytes it is made of: what stands behind it makes *)
(* no difference.                                                             *)

\* p is the result of reading b, q that of reading b with y behind it.
Extends(p, q, b, y) ==
    p.out = "event" =>
        /\ q = Event(p.ev, p.rest \o y)
        /\ \E k \in 0 .. Len(b) : p.rest = From(b, k)

\* The bytes a reader looks at are those of b.
LEMMA Behind ==
    ASSUME NEW b \in Seq(Byte), NEW y \in Seq(Byte)
    PROVE  /\ b \o y \in Seq(Byte) /\ Len(b) \in Nat /\ Len(y) \in Nat
           /\ Len(b \o y) = Len(b) + Len(y)
           /\ \A i \in 1 .. Len(b) : (b \o y)[i] = b[i]
           /\ \A at \in Nat, w \in Nat :
                 at + w <= Len(b) => Field(b \o y, at, w) = Field(b, at, w)
           /\ \A at \in Nat : at <= Len(b) => From(b \o y, at) = From(b, at) \o y
<1>1. Len(b) \in Nat /\ Len(y) \in Nat
    BY LenProperties
<1>2. /\ b \o y \in Seq(Byte) /\ Len(b \o y) = Len(b) + Len(y)
      /\ \A i \in 1 .. Len(b) + Len(y) : (b \o y)[i] = IF i <= Len(b) THEN b[i] ELSE y[i - Len(b)]
    BY ConcatProperties
<1>3. \A i \in 1 .. Len(b) : (b \o y)[i] = b[i]
    BY <1>1, <1>2
<1> QED
    BY <1>1, <1>2, <1>3, FieldLeft, FromConcat

\* A number of bytes is a number.
LEMMA LengthType ==
    ASSUME NEW c \in Seq(Byte), Len(c) >= 3
    PROVE  Length(c) \in Nat
<1>1. c[1] \in 0 .. 255 /\ c[2] \in 0 .. 255 /\ c[3] \in 0 .. 255
    <2>1. Len(c) \in Nat
        BY LenProperties
    <2>2. 1 \in 1 .. Len(c) /\ 2 \in 1 .. Len(c) /\ 3 \in 1 .. Len(c)
        BY <2>1
    <2> QED
        BY <2>2, ElementOfSeq DEF Byte
<1>2. c[1] + 256 * c[2] + 65536 * c[3] \in Nat
    <2> DEFINE k == c[1]  m == c[2]  n == c[3]
    <2>1. k \in 0 .. 255 /\ m \in 0 .. 255 /\ n \in 0 .. 255
        BY <1>1
    <2> HIDE DEF k, m, n
    <2>2. k + 256 * m + 65536 * n \in Nat
        BY <2>1
    <2> QED
        BY <2>2 DEF k, m, n
<1>3. CASE \E i \in 4 .. Len(c) : c[i] # 0
    BY <1>3 DEF Length, Huge
<1>4. CASE ~\E i \in 4 .. Len(c) : c[i] # 0
    <2>1. Length(c) = c[1] + 256 * c[2] + 65536 * c[3]
        BY <1>4 DEF Length
    <2> QED
        BY <1>2, <2>1
<1> QED
    BY <1>3, <1>4

\* A length in a field is a number.
LEMMA NumberField ==
    ASSUME NEW b \in Seq(Byte), NEW at \in Nat, NEW w \in Nat, w >= 3, at + w <= Len(b)
    PROVE  Length(Field(b, at, w)) \in Nat
<1>1. Field(b, at, w) \in Seq(Byte) /\ Len(Field(b, at, w)) = w
    BY FieldType
<1>2. Len(Field(b, at, w)) >= 3
    BY <1>1
<1> QED
    BY <1>1, <1>2, LengthType

\* Such a number is the same whatever follows.
LEMMA NumberStays ==
    ASSUME NEW b \in Seq(Byte), NEW y \in Seq(Byte), NEW at \in Nat, at + 4 <= Len(b)
    PROVE  Length(Field(b, at, 4)) \in Nat /\ Field(b \o y, at, 4) = Field(b, at, 4)
<1>1. 4 \in Nat /\ 4 >= 3
    OBVIOUS
<1>2. Length(Field(b, at, 4)) \in Nat
    BY <1>1, NumberField
<1>3. Field(b \o y, at, 4) = Field(b, at, 4)
    BY <1>1, FieldLeft
<1> QED
    BY <1>2, <1>3


\* The two readings of a packet: alone, and with something behind it.
LEMMA EventsExtend ==
    ASSUME NEW p, NEW q, NEW b, NEW y, NEW ev, NEW k \in 0 .. Len(b),
           p = Event(ev, From(b, k)), q = Event(ev, From(b, k) \o y)
    PROVE  Extends(p, q, b, y)
BY DEF Extends, Event

\* exec: the program counter.
LEMMA ExecExtends ==
    ASSUME NEW w \in {4, 8}, NEW b \in Seq(Byte), NEW y \in Seq(Byte)
    PROVE  Extends(ParseExec(w, b), ParseExec(w, b \o y), b, y)
<1>1. SUFFICES ASSUME ParseExec(w, b).out = "event"
               PROVE  Extends(ParseExec(w, b), ParseExec(w, b \o y), b, y)
    BY DEF Extends
<1>2. Len(b) \in Nat /\ Len(y) \in Nat /\ Len(b \o y) = Len(b) + Len(y)
    BY Behind
<1>3. ~(Len(b) < w)
    BY <1>1 DEF ParseExec, Ends
<1>4. Len(b) >= w /\ w \in Nat /\ ~(Len(b \o y) < w) /\ w \in 0 .. Len(b)
    BY <1>2, <1>3
<1>5. Field(b \o y, 0, w) = Field(b, 0, w)
    <2>1. 0 \in Nat /\ w \in Nat /\ 0 + w <= Len(b)
        BY <1>2, <1>4
    <2> QED
        BY <2>1, Behind
<1>6. From(b \o y, w) = From(b, w) \o y
    BY <1>4, Behind
<1> DEFINE ev == [op |-> "exec", pc |-> U64(Field(b, 0, w))]
<1>7. ParseExec(w, b) = Event(ev, From(b, w))
    BY <1>3 DEF ParseExec
<1>8. ParseExec(w, b \o y) = Event(ev, From(b, w) \o y)
    BY <1>4, <1>5, <1>6 DEF ParseExec
<1> QED
    BY <1>4, <1>7, <1>8, EventsExtend

\* munmap: address and length.
LEMMA MunmapExtends ==
    ASSUME NEW w \in {4, 8}, NEW b \in Seq(Byte), NEW y \in Seq(Byte)
    PROVE  Extends(ParseMunmap(w, b), ParseMunmap(w, b \o y), b, y)
<1>1. SUFFICES ASSUME ParseMunmap(w, b).out = "event"
               PROVE  Extends(ParseMunmap(w, b), ParseMunmap(w, b \o y), b, y)
    BY DEF Extends
<1>2. Len(b) \in Nat /\ Len(y) \in Nat /\ Len(b \o y) = Len(b) + Len(y)
    BY Behind
<1>3. ~(Len(b) < 2 * w)
    BY <1>1 DEF ParseMunmap, Ends
<1>4. Len(b) >= 2 * w /\ 2 * w \in Nat /\ ~(Len(b \o y) < 2 * w) /\ 2 * w \in 0 .. Len(b)
    BY <1>2, <1>3
<1>5. Field(b \o y, 0, w) = Field(b, 0, w)
    <2>1. 0 \in Nat /\ w \in Nat /\ 0 + w <= Len(b)
        BY <1>2, <1>4
    <2> QED
        BY <2>1, Behind
<1>6. Field(b \o y, w, w) = Field(b, w, w)
    <2>1. w \in Nat /\ w \in Nat /\ w + w <= Len(b)
        BY <1>2, <1>4
    <2> QED
        BY <2>1, Behind
<1>7. From(b \o y, 2 * w) = From(b, 2 * w) \o y
    BY <1>4, Behind
<1> DEFINE ev == [op |-> "munmap", addr |-> U64(Field(b, 0, w)),
                  len |-> U64(Field(b, w, w))]
<1>8. ParseMunmap(w, b) = Event(ev, From(b, 2 * w))
    BY <1>3 DEF ParseMunmap
<1>9. ParseMunmap(w, b \o y) = Event(ev, From(b, 2 * w) \o y)
    BY <1>4, <1>5, <1>6, <1>7 DEF ParseMunmap
<1> QED
    BY <1>4, <1>8, <1>9, EventsExtend

\* read and write: address, value and program counter.
LEMMA AccessExtends ==
    ASSUME NEW op, NEW size \in Nat, NEW w \in {4, 8}, NEW b \in Seq(Byte), NEW y \in Seq(Byte)
    PROVE  Extends(ParseAccess(op, w, size, b), ParseAccess(op, w, size, b \o y), b, y)
<1>1. SUFFICES ASSUME ParseAccess(op, w, size, b).out = "event"
               PROVE  Extends(ParseAccess(op, w, size, b), ParseAccess(op, w, size, b \o y), b, y)
    BY DEF Extends
<1>2. Len(b) \in Nat /\ Len(y) \in Nat /\ Len(b \o y) = Len(b) + Len(y)
    BY Behind
<1>3. ~(Len(b) < 2 * w + size)
    BY <1>1 DEF ParseAccess, Ends
<1>4. Len(b) >= 2 * w + size /\ 2 * w + size \in Nat /\ ~(Len(b \o y) < 2 * w + size) /\ 2 * w + size \in 0 .. Len(b)
    BY <1>2, <1>3
<1>5. Field(b \o y, 0, w) = Field(b, 0, w)
    <2>1. 0 \in Nat /\ w \in Nat /\ 0 + w <= Len(b)
        BY <1>2, <1>4
    <2> QED
        BY <2>1, Behind
<1>6. Field(b \o y, w, size) = Field(b, w, size)
    <2>1. w \in Nat /\ size \in Nat /\ w + size <= Len(b)
        BY <1>2, <1>4
    <2> QED
        BY <2>1, Behind
<1>7. Field(b \o y, w + size, w) = Field(b, w + size, w)
    <2>1. w + size \in Nat /\ w \in Nat /\ w + size + w <= Len(b)
        BY <1>2, <1>4
    <2> QED
        BY <2>1, Behind
<1>8. From(b \o y, 2 * w + size) = From(b, 2 * w + size) \o y
    BY <1>4, Behind
<1> DEFINE ev == [op |-> op, pc |-> U64(Field(b, w + size, w)), addr |-> U64(Field(b, 0, w)),
                  val |-> U64(Field(b, w, size)), size |-> size]
<1>9. ParseAccess(op, w, size, b) = Event(ev, From(b, 2 * w + size))
    BY <1>3 DEF ParseAccess
<1>10. ParseAccess(op, w, size, b \o y) = Event(ev, From(b, 2 * w + size) \o y)
    BY <1>4, <1>5, <1>6, <1>7, <1>8 DEF ParseAccess
<1> QED
    BY <1>4, <1>9, <1>10, EventsExtend

\* regs: the block of registers is as long as the packet says.
LEMMA RegsExtends ==
    ASSUME NEW w \in {4, 8}, NEW b \in Seq(Byte), NEW y \in Seq(Byte)
    PROVE  Extends(ParseRegs(w, b), ParseRegs(w, b \o y), b, y)
<1>1. SUFFICES ASSUME ParseRegs(w, b).out = "event"
               PROVE  Extends(ParseRegs(w, b), ParseRegs(w, b \o y), b, y)
    BY DEF Extends
<1>2. Len(b) \in Nat /\ Len(y) \in Nat /\ Len(b \o y) = Len(b) + Len(y)
    BY Behind
<1> DEFINE n == Length(Field(b, 0, 4))
<1>3. ~(Len(b) < (4 + w)) /\ ~(Len(b) < (4 + w) + n)
    BY <1>1 DEF ParseRegs, Ends
<1>4. Len(b) >= (4 + w) /\ (4 + w) \in Nat /\ ~(Len(b \o y) < (4 + w))
    BY <1>2, <1>3
<1>5. Field(b \o y, 0, 4) = Field(b, 0, 4) /\ n \in Nat
    <2>1. 0 \in Nat /\ 0 + 4 <= Len(b)
        BY <1>2, <1>4
    <2>2. 4 \in Nat /\ 4 >= 2
        OBVIOUS
    <2> QED
        BY <2>1, <2>2, NumberField, Behind
<1> HIDE DEF n
<1>6. (4 + w) + n <= Len(b) /\ (4 + w) + n \in 0 .. Len(b) /\ ~(Len(b \o y) < (4 + w) + n)
    BY <1>2, <1>3, <1>4, <1>5
<1>7. Field(b \o y, (4 + w), n) = Field(b, (4 + w), n)
    BY <1>4, <1>5, <1>6, Behind
<1>8. From(b \o y, (4 + w) + n) = From(b, (4 + w) + n) \o y
    <2> DEFINE k == (4 + w) + n
    <2>1. k \in Nat /\ k <= Len(b)
        BY <1>2, <1>6
    <2> HIDE DEF k
    <2>2. From(b \o y, k) = From(b, k) \o y
        BY <2>1, Behind
    <2> QED
        BY <2>2 DEF k
<1>9. Field(b \o y, 4, w) = Field(b, 4, w)
    <2>1. 4 \in Nat /\ w \in Nat /\ 4 + w <= Len(b)
        BY <1>2, <1>4
    <2> QED
        BY <2>1, Behind
<1> DEFINE ev == [op |-> "regs", pc |-> U64(Field(b, 4, w)), regs |-> Field(b, 4 + w, n)]
<1>10. ParseRegs(w, b) = Event(ev, From(b, (4 + w) + n))
    BY <1>3 DEF ParseRegs, n
<1>11. ParseRegs(w, b \o y) = Event(ev, From(b, (4 + w) + n) \o y)
    BY <1>3, <1>4, <1>5, <1>6, <1>7, <1>8, <1>9 DEF ParseRegs, n
<1> QED
    BY <1>6, <1>10, <1>11, EventsExtend

\* branch: so it is here.
LEMMA BranchExtends ==
    ASSUME NEW w \in {4, 8}, NEW b \in Seq(Byte), NEW y \in Seq(Byte)
    PROVE  Extends(ParseBranch(w, b), ParseBranch(w, b \o y), b, y)
<1>1. SUFFICES ASSUME ParseBranch(w, b).out = "event"
               PROVE  Extends(ParseBranch(w, b), ParseBranch(w, b \o y), b, y)
    BY DEF Extends
<1>2. Len(b) \in Nat /\ Len(y) \in Nat /\ Len(b \o y) = Len(b) + Len(y)
    BY Behind
<1> DEFINE n == Length(Field(b, 0, 4))
<1>3. ~(Len(b) < (4 + w + 1)) /\ ~(Len(b) < (4 + w + 1) + n)
    BY <1>1 DEF ParseBranch, Ends
<1>4. Len(b) >= (4 + w + 1) /\ (4 + w + 1) \in Nat /\ ~(Len(b \o y) < (4 + w + 1))
    BY <1>2, <1>3
<1>5. Field(b \o y, 0, 4) = Field(b, 0, 4) /\ n \in Nat
    <2>1. 0 \in Nat /\ 0 + 4 <= Len(b)
        BY <1>2, <1>4
    <2>2. 4 \in Nat /\ 4 >= 2
        OBVIOUS
    <2> QED
        BY <2>1, <2>2, NumberField, Behind
<1> HIDE DEF n
<1>6. (4 + w + 1) + n <= Len(b) /\ (4 + w + 1) + n \in 0 .. Len(b) /\ ~(Len(b \o y) < (4 + w + 1) + n)
    BY <1>2, <1>3, <1>4, <1>5
<1>7. Field(b \o y, (4 + w + 1), n) = Field(b, (4 + w + 1), n)
    BY <1>4, <1>5, <1>6, Behind
<1>8. From(b \o y, (4 + w + 1) + n) = From(b, (4 + w + 1) + n) \o y
    <2> DEFINE k == (4 + w + 1) + n
    <2>1. k \in Nat /\ k <= Len(b)
        BY <1>2, <1>6
    <2> HIDE DEF k
    <2>2. From(b \o y, k) = From(b, k) \o y
        BY <2>1, Behind
    <2> QED
        BY <2>2 DEF k
<1>9. Field(b \o y, 4, w) = Field(b, 4, w)
    <2>1. 4 \in Nat /\ w \in Nat /\ 4 + w <= Len(b)
        BY <1>2, <1>4
    <2> QED
        BY <2>1, Behind
<1>10. (b \o y)[4 + w + 1] = b[4 + w + 1]
    <2>1. 4 + w + 1 \in 1 .. Len(b)
        BY <1>2, <1>4
    <2> QED
        BY <2>1, Behind
<1> DEFINE ev == [op |-> "branch", pc |-> U64(Field(b, 4, w)), branch |-> b[4 + w + 1] # 0,
                  regs |-> Field(b, 4 + w + 1, n)]
<1>11. ParseBranch(w, b) = Event(ev, From(b, (4 + w + 1) + n))
    BY <1>3 DEF ParseBranch, n
<1>12. ParseBranch(w, b \o y) = Event(ev, From(b, (4 + w + 1) + n) \o y)
    BY <1>3, <1>4, <1>5, <1>6, <1>7, <1>8, <1>9, <1>10 DEF ParseBranch, n
<1> QED
    BY <1>6, <1>11, <1>12, EventsExtend

\* mmap: so is the path.
LEMMA MmapExtends ==
    ASSUME NEW w \in {4, 8}, NEW b \in Seq(Byte), NEW y \in Seq(Byte)
    PROVE  Extends(ParseMmap(w, b), ParseMmap(w, b \o y), b, y)
<1>1. SUFFICES ASSUME ParseMmap(w, b).out = "event"
               PROVE  Extends(ParseMmap(w, b), ParseMmap(w, b \o y), b, y)
    BY DEF Extends
<1>2. Len(b) \in Nat /\ Len(y) \in Nat /\ Len(b \o y) = Len(b) + Len(y)
    BY Behind
<1> DEFINE n == Length(Field(b, 2 * w + 4, 4))
<1>3. ~(Len(b) < (3 * w + 8)) /\ ~(Len(b) < (3 * w + 8) + n) /\ Utf8(Field(b, (3 * w + 8), n))
    BY <1>1 DEF ParseMmap, Ends
<1>4. Len(b) >= (3 * w + 8) /\ (3 * w + 8) \in Nat /\ ~(Len(b \o y) < (3 * w + 8))
    BY <1>2, <1>3
<1>5. Field(b \o y, 2 * w + 4, 4) = Field(b, 2 * w + 4, 4) /\ n \in Nat
    <2>1. PICK f \in Nat : f = 2 * w + 4
        OBVIOUS
    <2>2. f + 4 <= Len(b)
        BY <1>2, <1>4, <2>1
    <2>3. Field(b \o y, f, 4) = Field(b, f, 4) /\ Length(Field(b, f, 4)) \in Nat
        BY <2>2, NumberStays
    <2> QED
        BY <2>1, <2>3
<1> HIDE DEF n
<1>6. (3 * w + 8) + n <= Len(b) /\ (3 * w + 8) + n \in 0 .. Len(b) /\ ~(Len(b \o y) < (3 * w + 8) + n)
    BY <1>2, <1>3, <1>4, <1>5
<1>7. Field(b \o y, (3 * w + 8), n) = Field(b, (3 * w + 8), n)
    BY <1>4, <1>5, <1>6, Behind
<1>8. From(b \o y, (3 * w + 8) + n) = From(b, (3 * w + 8) + n) \o y
    <2> DEFINE k == (3 * w + 8) + n
    <2>1. k \in Nat /\ k <= Len(b)
        BY <1>2, <1>6
    <2> HIDE DEF k
    <2>2. From(b \o y, k) = From(b, k) \o y
        BY <2>1, Behind
    <2> QED
        BY <2>2 DEF k
<1>9. Field(b \o y, 0, w) = Field(b, 0, w)
    <2>1. 0 \in Nat /\ w \in Nat /\ 0 + w <= Len(b)
        BY <1>2, <1>4
    <2> QED
        BY <2>1, Behind
<1>10. Field(b \o y, w, w) = Field(b, w, w)
    <2>1. w \in Nat /\ w \in Nat /\ w + w <= Len(b)
        BY <1>2, <1>4
    <2> QED
        BY <2>1, Behind
<1>11. Field(b \o y, 2 * w + 8, w) = Field(b, 2 * w + 8, w)
    <2>1. 2 * w + 8 \in Nat /\ w \in Nat /\ 2 * w + 8 + w <= Len(b)
        BY <1>2, <1>4
    <2> QED
        BY <2>1, Behind
<1>12. (b \o y)[2 * w + 1] = b[2 * w + 1]
    <2>1. 2 * w + 1 \in 1 .. Len(b)
        BY <1>2, <1>4
    <2> QED
        BY <2>1, Behind
<1>13. (b \o y)[2 * w + 2] = b[2 * w + 2]
    <2>1. 2 * w + 2 \in 1 .. Len(b)
        BY <1>2, <1>4
    <2> QED
        BY <2>1, Behind
<1>14. (b \o y)[2 * w + 3] = b[2 * w + 3]
    <2>1. 2 * w + 3 \in 1 .. Len(b)
        BY <1>2, <1>4
    <2> QED
        BY <2>1, Behind
<1>15. (b \o y)[2 * w + 4] = b[2 * w + 4]
    <2>1. 2 * w + 4 \in 1 .. Len(b)
        BY <1>2, <1>4
    <2> QED
        BY <2>1, Behind
<1> DEFINE ev == [op |-> "mmap", addr |-> U64(Field(b, 0, w)), len |-> U64(Field(b, w, w)),
                  anon |-> b[2 * w + 1] # 0, read |-> b[2 * w + 2] # 0,
                  write |-> b[2 * w + 3] # 0, exec |-> b[2 * w + 4] # 0,
                  path |-> Field(b, 3 * w + 8, n), offset |-> U64(Field(b, 2 * w + 8, w))]
<1>16. ParseMmap(w, b) = Event(ev, From(b, (3 * w + 8) + n))
    BY <1>3 DEF ParseMmap, n
<1>17. ParseMmap(w, b \o y) = Event(ev, From(b, (3 * w + 8) + n) \o y)
    BY <1>3, <1>4, <1>5, <1>6, <1>7, <1>8, <1>9, <1>10, <1>11, <1>12, <1>13, <1>14, <1>15 DEF ParseMmap, n
<1> QED
    BY <1>6, <1>16, <1>17, EventsExtend

-----------------------------------------------------------------------------
(* Opcodes and types: what is read is behind them. *)

\* After an opcode: the rest of a sequence with more behind it.
LEMMA TailBehind ==
    ASSUME NEW b \in Seq(Byte), b # <<>>, NEW y \in Seq(Byte)
    PROVE  /\ Tail(b) \in Seq(Byte) /\ Len(b) \in Nat /\ Len(b) >= 1
           /\ Tail(b) = From(b, 1) /\ Len(b) = 1 + Len(Tail(b))
           /\ b \o y # <<>> /\ (b \o y)[1] = b[1] /\ b[1] \in Byte
           /\ Tail(b \o y) = Tail(b) \o y
<1>1. Tail(b) = From(b, 1) /\ Len(b) \in Nat /\ Len(b) >= 1
    BY TailFrom
<1>2. Tail(b) \in Seq(Byte) /\ Len(b) = 1 + Len(Tail(b))
    BY <1>1, HeadTailProperties, LenProperties
<1>3. /\ b \o y \in Seq(Byte) /\ Len(y) \in Nat /\ Len(b \o y) = Len(b) + Len(y)
      /\ From(b \o y, 1) = From(b, 1) \o y
    BY <1>1, Behind
<1>4. b \o y # <<>>
    BY <1>1, <1>3, EmptySeq
<1>5. Tail(b \o y) = From(b \o y, 1)
    BY <1>3, <1>4, TailFrom
<1>6. (b \o y)[1] = b[1] /\ b[1] \in Byte
    <2>1. 1 \in 1 .. Len(b)
        BY <1>1
    <2> QED
        BY <2>1, Behind, ElementOfSeq
<1> QED
    BY <1>1, <1>2, <1>3, <1>4, <1>5, <1>6

\* A packet takes at least its opcode.
LEMMA ExtendsTail ==
    ASSUME NEW b \in Seq(Byte), b # <<>>, NEW y \in Seq(Byte), NEW p, NEW q,
           Extends(p, q, Tail(b), y), p.out = "event"
    PROVE  /\ q = Event(p.ev, p.rest \o y)
           /\ \E k \in 1 .. Len(b) : p.rest = From(b, k)
<1>1. q = Event(p.ev, p.rest \o y)
    BY DEF Extends
<1>2. PICK k \in 0 .. Len(Tail(b)) : p.rest = From(Tail(b), k)
    BY DEF Extends
<1>3. PICK n \in Nat : n = 1 + k
    BY <1>2
<1>4. n \in 1 .. Len(b) /\ k \in Nat /\ n <= Len(b) /\ Tail(b) = From(b, 1)
    BY <1>2, <1>3, TailBehind
<1>5. From(From(b, 1), k) = From(b, n)
    <2>1. 1 \in Nat
        OBVIOUS
    <2> QED
        BY <1>3, <1>4, <2>1, FromFrom
<1> QED
    BY <1>1, <1>2, <1>4, <1>5

\* What Param does with each type.
LEMMA ParamNa ==
    ASSUME NEW c, c # <<>>, c[1] = 0
    PROVE  Param(c) = Event([type |-> c[1]], Tail(c))
BY DEF Param, SyscallParamType

\* SyscallParam::from, one lemma for each type of parameter.
LEMMA ParamByte ==
    ASSUME NEW c, c # <<>>, c[1] \in {1, 2}, Len(Tail(c)) >= 1
    PROVE  Param(c) = Event([type |-> c[1], val |-> Tail(c)[1]], Tail(Tail(c)))
BY DEF Param, SyscallParamType

\* An Int parameter: eight bytes.
LEMMA ParamInt ==
    ASSUME NEW c, c # <<>>, c[1] = 3, Len(Tail(c)) >= 8
    PROVE  Param(c) = Event([type |-> c[1], val |-> Field(Tail(c), 0, 8)], From(Tail(c), 8))
BY DEF Param, SyscallParamType

\* A RawPtr parameter: an address, a length, the bytes.
LEMMA ParamRawPtr ==
    ASSUME NEW c, c # <<>>, c[1] = 4, Len(Tail(c)) >= 12,
           Len(Tail(c)) >= 12 + Length(Field(Tail(c), 8, 4))
    PROVE  Param(c) = Event([type |-> c[1], addr |-> Field(Tail(c), 0, 8),
                             data |-> Field(Tail(c), 12, Length(Field(Tail(c), 8, 4)))],
                            From(Tail(c), 12 + Length(Field(Tail(c), 8, 4))))
BY DEF Param, SyscallParamType

\* A parameter of a system call.
LEMMA ParamExtends ==
    ASSUME NEW b \in Seq(Byte), NEW y \in Seq(Byte), Param(b).out = "event"
    PROVE  /\ Param(b \o y) = Event(Param(b).ev, Param(b).rest \o y)
           /\ \E k \in 1 .. Len(b) : Param(b).rest = From(b, k)
<1>1. b # <<>>
    BY DEF Param, Ends
<1> DEFINE r == Tail(b)  n == Length(Field(r, 8, 4))
<1>2. /\ r \in Seq(Byte) /\ b \o y # <<>> /\ (b \o y)[1] = b[1] /\ b[1] \in 0 .. 255
      /\ Tail(b \o y) = r \o y
    BY <1>1, TailBehind DEF Byte
<1> HIDE DEF r
<1>3. /\ Len(r) \in Nat /\ Len(y) \in Nat /\ Len(r \o y) = Len(r) + Len(y)
      /\ r \o y \in Seq(Byte)
    BY <1>2, Behind
<1> DEFINE c == b \o y  d == r \o y
<1>9. c # <<>> /\ c[1] = b[1] /\ Tail(c) = d
    BY <1>2
<1> HIDE DEF c, d
<1>4. ASSUME b[1] = 0 PROVE Extends(Param(b), Param(b \o y), r, y)
    <2> DEFINE ev == [type |-> b[1]]
    <2>1. Param(b) = Event(ev, r)
        BY <1>1, <1>4 DEF Param, SyscallParamType, r
    <2>2. Param(c) = Event(ev, d)
        BY <1>4, <1>9, ParamNa
    <2>3. r = From(r, 0) /\ 0 \in 0 .. Len(r)
        BY <1>2, <1>3, FromEnds
    <2> QED
        BY <2>1, <2>2, <2>3, EventsExtend DEF c, d
<1>5. ASSUME b[1] \in {1, 2} PROVE Extends(Param(b), Param(b \o y), r, y)
    <2> DEFINE ev == [type |-> b[1], val |-> r[1]]
    <2>1. Len(r) >= 1
        BY <1>1, <1>5 DEF Param, SyscallParamType, Ends, r
    <2>2. Param(b) = Event(ev, Tail(r))
        BY <1>1, <1>5, <2>1 DEF Param, SyscallParamType, r
    <2>3. r # <<>>
        BY <2>1, EmptySeq
    <2>4. /\ (r \o y)[1] = r[1] /\ Tail(r \o y) = Tail(r) \o y /\ Len(r \o y) >= 1
          /\ Tail(r) = From(r, 1)
        BY <1>2, <1>3, <2>1, <2>3, TailBehind
    <2>5. Param(c) = Event(ev, Tail(r) \o y)
        <3>1. d[1] = r[1] /\ Tail(d) = Tail(r) \o y /\ Len(d) >= 1
            BY <2>4 DEF d
        <3> QED
            BY <1>5, <1>9, <3>1, ParamByte
    <2>6. 1 \in 0 .. Len(r)
        BY <1>3, <2>1
    <2> QED
        BY <2>2, <2>4, <2>5, <2>6, EventsExtend DEF c, d
<1>6. ASSUME b[1] = 3 PROVE Extends(Param(b), Param(b \o y), r, y)
    <2> DEFINE ev == [type |-> b[1], val |-> Field(r, 0, 8)]
    <2>1. Len(r) >= 8
        BY <1>1, <1>6 DEF Param, SyscallParamType, Ends, r
    <2>2. Param(b) = Event(ev, From(r, 8))
        BY <1>1, <1>6, <2>1 DEF Param, SyscallParamType, r
    <2>3. Len(r \o y) >= 8 /\ 8 \in 0 .. Len(r) /\ 0 + 8 <= Len(r) /\ 0 \in Nat /\ 8 \in Nat
        BY <1>3, <2>1
    <2>4. Field(r \o y, 0, 8) = Field(r, 0, 8) /\ From(r \o y, 8) = From(r, 8) \o y
        <3>1. Field(r \o y, 0, 8) = Field(r, 0, 8)
            BY <1>2, <2>3, FieldLeft
        <3>2. From(r \o y, 8) = From(r, 8) \o y
            BY <1>2, <2>1, <2>3, FromConcat
        <3> QED
            BY <3>1, <3>2
    <2>5. Param(c) = Event(ev, From(r, 8) \o y)
        <3>1. Field(d, 0, 8) = Field(r, 0, 8) /\ From(d, 8) = From(r, 8) \o y /\ Len(d) >= 8
            BY <2>3, <2>4 DEF d
        <3> QED
            BY <1>6, <1>9, <3>1, ParamInt
    <2> QED
        BY <2>2, <2>3, <2>5, EventsExtend DEF c, d
<1>7. ASSUME b[1] = 4 PROVE Extends(Param(b), Param(b \o y), r, y)
    <2> DEFINE ev == [type |-> b[1], addr |-> Field(r, 0, 8), data |-> Field(r, 12, n)]
    <2>1. Len(r) >= 12 /\ Len(r) >= 12 + n
        BY <1>1, <1>7 DEF Param, SyscallParamType, Ends, r
    <2>2. Param(b) = Event(ev, From(r, 12 + n))
        BY <1>1, <1>7, <2>1 DEF Param, SyscallParamType, r
    <2>3. /\ 0 + 8 <= Len(r) /\ 8 + 4 <= Len(r) /\ 0 \in Nat /\ 8 \in Nat /\ 4 \in Nat /\ 4 >= 2
          /\ Len(r \o y) >= 12
        BY <1>3, <2>1
    <2>4. n \in Nat /\ Field(r \o y, 8, 4) = Field(r, 8, 4)
        BY <1>2, <2>3, NumberStays
    <2>5. Field(r \o y, 0, 8) = Field(r, 0, 8)
        BY <1>2, <2>3, FieldLeft
    <2> HIDE DEF n
    <2> DEFINE k == 12 + n
    <2>6. k \in Nat /\ k <= Len(r) /\ k \in 0 .. Len(r) /\ Len(r \o y) >= 12 + n
        BY <1>3, <2>1, <2>4
    <2>7. Field(r \o y, 12, n) = Field(r, 12, n)
        BY <1>2, <2>1, <2>4, Behind
    <2> HIDE DEF k
    <2>8. From(r \o y, k) = From(r, k) \o y
        BY <1>2, <2>6, Behind
    <2>9. Param(c) = Event(ev, From(r, k) \o y)
        <3>1. /\ Len(d) >= 12 /\ Len(d) >= 12 + n /\ Field(d, 0, 8) = Field(r, 0, 8)
              /\ Field(d, 12, n) = Field(r, 12, n) /\ From(d, 12 + n) = From(r, k) \o y
            BY <2>3, <2>5, <2>6, <2>7, <2>8 DEF d, k
        <3>2. Length(Field(d, 8, 4)) = n
            BY <2>4 DEF d, n
        <3> QED
            BY <1>7, <1>9, <3>1, <3>2, ParamRawPtr
    <2> QED
        BY <2>2, <2>6, <2>9, EventsExtend DEF k, c, d
<1>8. b[1] \in {0, 1, 2, 3, 4}
    BY <1>1 DEF Param, SyscallParamType, Ends
<1>10. Extends(Param(b), Param(b \o y), Tail(b), y)
    BY <1>4, <1>5, <1>6, <1>7, <1>8 DEF r
<1> QED
    BY <1>1, <1>10, ExtendsTail

\* What is read behind a first part.
LEMMA ExtendsFrom ==
    ASSUME NEW b \in Seq(Byte), NEW y \in Seq(Byte), NEW j \in 0 .. Len(b), NEW p, NEW q,
           Extends(p, q, From(b, j), y)
    PROVE  Extends(p, q, b, y)
<1>1. SUFFICES ASSUME p.out = "event" PROVE Extends(p, q, b, y)
    BY DEF Extends
<1>2. Len(b) \in Nat /\ j \in Nat
    BY LenProperties
<1>3. PICK v \in Nat : Len(b) = j + v
    <2>1. Len(b) - j \in Nat /\ Len(b) = j + (Len(b) - j)
        BY <1>2
    <2> QED
        BY <2>1
<1>4. Len(From(b, j)) = v
    BY <1>2, <1>3, FromType
<1>5. q = Event(p.ev, p.rest \o y)
    BY <1>1 DEF Extends
<1>6. PICK k \in 0 .. v : p.rest = From(From(b, j), k)
    BY <1>1, <1>4 DEF Extends
<1>7. PICK n \in Nat : n = j + k
    BY <1>2, <1>6
<1>8. n <= Len(b) /\ n \in 0 .. Len(b) /\ k \in Nat
    BY <1>2, <1>3, <1>6, <1>7
<1>9. p.rest = From(b, n)
    BY <1>2, <1>6, <1>7, <1>8, FromFrom
<1> QED
    BY <1>5, <1>8, <1>9 DEF Extends

\* What is left is a part of the chunk.
LEMMA RestType ==
    ASSUME NEW b \in Seq(Byte), NEW j \in 0 .. Len(b)
    PROVE  From(b, j) \in Seq(Byte) /\ Len(From(b, j)) = Len(b) - j
<1>1. Len(b) \in Nat
    BY LenProperties
<1>2. PICK v \in Nat : Len(b) = j + v /\ v = Len(b) - j
    BY <1>1
<1> QED
    BY <1>2, FromType

\* The next parameter.
LEMMA NextParamExtends ==
    ASSUME NEW b \in Seq(Byte), NEW y \in Seq(Byte), NEW p, NEW q, Extends(p, q, b, y)
    PROVE  Extends(NextParam(p), NextParam(q), b, y)
<1>1. SUFFICES ASSUME NextParam(p).out = "event"
               PROVE  Extends(NextParam(p), NextParam(q), b, y)
    BY DEF Extends
<1>2. p.out = "event"
    BY <1>1 DEF NextParam
<1>3. q = Event(p.ev, p.rest \o y)
    BY <1>2 DEF Extends
<1>4. PICK j \in 0 .. Len(b) : p.rest = From(b, j)
    BY <1>2 DEF Extends
<1> DEFINE r == p.rest  v == Param(r)
<1>5. r \in Seq(Byte)
    BY <1>4, RestType
<1>6. v.out = "event" /\ NextParam(p) = Event(Append(p.ev, v.ev), v.rest)
    BY <1>1, <1>2 DEF NextParam
<1>7. /\ Param(r \o y) = Event(v.ev, v.rest \o y)
      /\ \E k \in 1 .. Len(r) : v.rest = From(r, k)
    <2> HIDE DEF r
    <2> QED
        BY <1>5, <1>6, ParamExtends
<1>8. NextParam(q) = Event(Append(p.ev, v.ev), v.rest \o y)
    <2>1. q.out = "event" /\ q.ev = p.ev /\ q.rest = r \o y
        BY <1>3 DEF Event
    <2>2. /\ Param(r \o y).out = "event" /\ Param(r \o y).ev = v.ev
          /\ Param(r \o y).rest = v.rest \o y
        BY <1>7 DEF Event
    <2> HIDE DEF v, r
    <2> QED
        BY <2>1, <2>2 DEF NextParam
<1>9. Extends(NextParam(p), NextParam(q), r, y)
    <2>1. PICK k \in 1 .. Len(r) : v.rest = From(r, k)
        BY <1>7
    <2>2. k \in 0 .. Len(r)
        BY <1>5, LenProperties
    <2> HIDE DEF v, r
    <2> QED
        BY <1>6, <1>8, <2>1, <2>2, EventsExtend
<1> QED
    BY <1>4, <1>9, ExtendsFrom

\* Params reads one parameter after the other.
LEMMA ParamsSteps ==
    ASSUME NEW count \in Nat, NEW b
    PROVE  \E u : /\ u[0] = Event(<<>>, b)
                  /\ \A k \in 1 .. count : u[k] = NextParam(u[k - 1])
                  /\ Params(count, b) = u[count]
<1> DEFINE Is(u, n) == u = [k \in 0 .. n |-> IF k = 0 THEN Event(<<>>, b)
                                             ELSE NextParam(u[k - 1])]
           S == {n \in Nat : \E u : Is(u, n)}
<1>1. 0 \in S
    <2> DEFINE u == [k \in 0 .. 0 |-> Event(<<>>, b)]
    <2>1. Is(u, 0)
        OBVIOUS
    <2> QED
        BY <2>1
<1>2. ASSUME NEW n \in Nat, n \in S PROVE n + 1 \in S
    <2>1. PICK u : Is(u, n)
        BY <1>2
    <2> DEFINE v == [k \in 0 .. n + 1 |-> IF k = 0 THEN Event(<<>>, b)
                                          ELSE NextParam(u[k - 1])]
    <2>2. \A k \in 0 .. n : v[k] = u[k]
        BY <2>1
    <2>3. \A k \in 1 .. n + 1 : k - 1 \in 0 .. n
        OBVIOUS
    <2>4. ASSUME NEW k \in 0 .. n + 1
          PROVE  (IF k = 0 THEN Event(<<>>, b) ELSE NextParam(u[k - 1]))
                     = IF k = 0 THEN Event(<<>>, b) ELSE NextParam(v[k - 1])
        <3>1. CASE k = 0
            BY <3>1
        <3>2. CASE k # 0
            <4>1. v[k - 1] = u[k - 1]
                BY <2>2, <2>3, <3>2
            <4> QED
                BY <4>1
        <3> QED
            BY <3>1, <3>2
    <2>5. Is(v, n + 1)
        BY <2>4, Zenon
    <2>6. n + 1 \in Nat
        OBVIOUS
    <2> HIDE DEF v, Is
    <2> QED
        BY <2>5, <2>6
<1>3. count \in S
    <2> HIDE DEF S
    <2>1. \A n \in Nat : n \in S => n + 1 \in S
        BY <1>2
    <2> QED
        BY <1>1, <2>1, SetInduction
<1>4. PICK w : Is(w, count)
    BY <1>3
<1> DEFINE u == CHOOSE u : Is(u, count)
<1>5. Is(u, count)
    BY <1>4
<1>6. Params(count, b) = u[count]
    BY DEF Params
<1> HIDE DEF u
<1>7. u[0] = Event(<<>>, b) /\ \A k \in 1 .. count : u[k] = NextParam(u[k - 1])
    BY <1>5
<1> QED
    BY <1>6, <1>7

\* All of them.
LEMMA ParamsExtends ==
    ASSUME NEW count \in Nat, NEW b \in Seq(Byte), NEW y \in Seq(Byte)
    PROVE  Extends(Params(count, b), Params(count, b \o y), b, y)
<1>1. PICK u : /\ u[0] = Event(<<>>, b)
               /\ \A k \in 1 .. count : u[k] = NextParam(u[k - 1])
               /\ Params(count, b) = u[count]
    BY ParamsSteps
<1>2. PICK v : /\ v[0] = Event(<<>>, b \o y)
               /\ \A k \in 1 .. count : v[k] = NextParam(v[k - 1])
               /\ Params(count, b \o y) = v[count]
    BY ParamsSteps
<1> DEFINE S == {k \in Nat : k <= count => Extends(u[k], v[k], b, y)}
<1>3. 0 \in S
    <2>1. b = From(b, 0) /\ 0 \in 0 .. Len(b)
        BY FromEnds, LenProperties
    <2>2. Extends(u[0], v[0], b, y)
        BY <1>1, <1>2, <2>1, EventsExtend
    <2> QED
        BY <2>2
<1>4. ASSUME NEW n \in Nat, n \in S PROVE n + 1 \in S
    <2>1. SUFFICES ASSUME n + 1 <= count PROVE Extends(u[n + 1], v[n + 1], b, y)
        OBVIOUS
    <2>2. Extends(u[n], v[n], b, y)
        BY <1>4, <2>1
    <2>3. n + 1 \in 1 .. count /\ (n + 1) - 1 = n
        BY <2>1
    <2>4. u[n + 1] = NextParam(u[n]) /\ v[n + 1] = NextParam(v[n])
        BY <1>1, <1>2, <2>3
    <2> QED
        BY <2>2, <2>4, NextParamExtends
<1>5. count \in S
    <2> HIDE DEF S
    <2>1. \A n \in Nat : n \in S => n + 1 \in S
        BY <1>4
    <2> QED
        BY <1>3, <2>1, SetInduction
<1> QED
    BY <1>1, <1>2, <1>5

\* The parts of a system call's packet.
CallNum(feature, b) == HostSyscallNum(feature, Length(Field(b, 0, 4)))
CallRet(b) == Param(From(b, 4))
CallParams(b) ==
    Params(Length(Field(CallRet(b).rest, 0, 4)), From(CallRet(b).rest, 4))
IsCall(feature, b) ==
    /\ ~(Len(b) < 4) /\ CallNum(feature, b) # "NotHandled" /\ CallRet(b).out = "event"
    /\ ~(Len(CallRet(b).rest) < 4) /\ CallParams(b).out = "event"

\* What makes it an event, and which.
LEMMA SyscallEvent ==
    ASSUME NEW feature, NEW b
    PROVE  /\ ParseSyscall(feature, b).out = "event" => IsCall(feature, b)
           /\ IsCall(feature, b) =>
                 ParseSyscall(feature, b) =
                     Event([op |-> "syscall", num |-> CallNum(feature, b),
                            ret |-> CallRet(b).ev, params |-> CallParams(b).ev],
                           CallParams(b).rest)
<1> DEFINE num == CallNum(feature, b)  ret == CallRet(b)  p == CallParams(b)
<1>1. ParseSyscall(feature, b) =
          IF Len(b) < 4 THEN Ends("error")
          ELSE IF num = "NotHandled" THEN Ends("stop")
          ELSE IF ret.out # "event" THEN ret
          ELSE IF Len(ret.rest) < 4 THEN Ends("error")
          ELSE IF p.out # "event" THEN p
          ELSE Event([op |-> "syscall", num |-> num, ret |-> ret.ev, params |-> p.ev], p.rest)
    BY Zenon DEF ParseSyscall, CallNum, CallRet, CallParams
<1>2. Ends("error").out # "event" /\ Ends("stop").out # "event"
    BY DEF Ends
<1> HIDE DEF num, ret, p
<1>3. IsCall(feature, b) <=>
          /\ ~(Len(b) < 4) /\ num # "NotHandled" /\ ret.out = "event"
          /\ ~(Len(ret.rest) < 4) /\ p.out = "event"
    BY DEF IsCall, num, ret, p
<1>4. ParseSyscall(feature, b).out = "event" => IsCall(feature, b)
    BY <1>1, <1>2, <1>3
<1>5. IsCall(feature, b) =>
          ParseSyscall(feature, b) =
              Event([op |-> "syscall", num |-> num, ret |-> ret.ev, params |-> p.ev], p.rest)
    BY <1>1, <1>3
<1> QED
    BY <1>4, <1>5 DEF num, ret, p

\* A system call that was read is read again with more behind it.
LEMMA SyscallExtends ==
    ASSUME NEW feature, NEW b \in Seq(Byte), NEW y \in Seq(Byte)
    PROVE  Extends(ParseSyscall(feature, b), ParseSyscall(feature, b \o y), b, y)
<1>1. SUFFICES ASSUME ParseSyscall(feature, b).out = "event"
               PROVE  Extends(ParseSyscall(feature, b), ParseSyscall(feature, b \o y), b, y)
    BY DEF Extends
<1>2. Len(b) \in Nat /\ Len(y) \in Nat /\ Len(b \o y) = Len(b) + Len(y)
    BY Behind
<1> DEFINE num == HostSyscallNum(feature, Length(Field(b, 0, 4)))
           ret == Param(From(b, 4))  r == ret.rest
           count == Length(Field(r, 0, 4))
           p == Params(count, From(r, 4))
           ev == [op |-> "syscall", num |-> num, ret |-> ret.ev, params |-> p.ev]
<1>3. /\ ~(Len(b) < 4) /\ num # "NotHandled" /\ ret.out = "event"
      /\ ~(Len(r) < 4) /\ p.out = "event" /\ ParseSyscall(feature, b) = Event(ev, p.rest)
    BY <1>1, SyscallEvent DEF IsCall, CallNum, CallRet, CallParams
<1>4. 4 \in 0 .. Len(b) /\ 4 \in Nat /\ 0 \in Nat /\ 4 <= Len(b) /\ 0 + 4 <= Len(b)
    BY <1>2, <1>3
<1>5. Field(b \o y, 0, 4) = Field(b, 0, 4) /\ From(b \o y, 4) = From(b, 4) \o y
    BY <1>4, Behind
<1>6. From(b, 4) \in Seq(Byte)
    BY <1>4, RestType
<1>7. /\ Param(From(b, 4) \o y) = Event(ret.ev, r \o y)
      /\ \E k \in 1 .. Len(From(b, 4)) : r = From(From(b, 4), k)
    BY <1>3, <1>6, ParamExtends
<1>8. PICK j \in 0 .. Len(From(b, 4)) : r = From(From(b, 4), j)
    BY <1>6, <1>7, LenProperties
<1>9. r \in Seq(Byte)
    BY <1>6, <1>8, RestType
<1> HIDE DEF num, ret, r
<1>10. /\ Len(r) \in Nat /\ Len(r \o y) = Len(r) + Len(y)
    BY <1>9, Behind
<1>11. 4 \in 0 .. Len(r) /\ 0 + 4 <= Len(r) /\ 4 <= Len(r) /\ 4 >= 2 /\ ~(Len(r \o y) < 4)
    BY <1>2, <1>3, <1>10
<1>12. Field(r \o y, 0, 4) = Field(r, 0, 4) /\ From(r \o y, 4) = From(r, 4) \o y
  <2>1. /\ \A at \in Nat, w \in Nat :
              at + w <= Len(r) => Field(r \o y, at, w) = Field(r, at, w)
        /\ \A at \in Nat : at <= Len(r) => From(r \o y, at) = From(r, at) \o y
    BY <1>9, Behind
  <2> QED
    BY <1>4, <1>11, <2>1
<1>13. count \in Nat /\ From(r, 4) \in Seq(Byte)
    BY <1>4, <1>9, <1>11, NumberField, RestType
<1> HIDE DEF count
<1> DEFINE q == Params(count, From(r, 4) \o y)
<1>14. /\ Extends(p, q, From(r, 4), y) /\ q = Event(p.ev, p.rest \o y)
       /\ q.out = "event" /\ q.ev = p.ev /\ q.rest = p.rest \o y
    <2>1. Extends(p, q, From(r, 4), y)
        BY <1>13, ParamsExtends
    <2> HIDE DEF p, q
    <2>2. q = Event(p.ev, p.rest \o y)
        BY <1>3, <2>1 DEF Extends
    <2> QED
        BY <2>1, <2>2 DEF Event
<1> HIDE DEF p, q
<1>15. ParseSyscall(feature, b \o y) = Event(ev, p.rest \o y)
    <2> DEFINE c == b \o y
    <2>1. CallNum(feature, c) = num
        BY <1>5 DEF num, CallNum
    <2>2. CallRet(c) = Event(ret.ev, r \o y)
        BY <1>5, <1>7 DEF CallRet
    <2>3. CallRet(c).out = "event" /\ CallRet(c).ev = ret.ev /\ CallRet(c).rest = r \o y
        BY <2>2 DEF Event
    <2>4. CallParams(c) = q
        BY <1>12, <2>3 DEF count, q, CallParams
    <2>5. ~(Len(c) < 4)
        BY <1>2, <1>3
    <2> HIDE DEF c
    <2>6. IsCall(feature, c)
        BY <1>3, <1>11, <1>14, <2>1, <2>3, <2>4, <2>5 DEF IsCall
    <2>7. ParseSyscall(feature, c) = Event(ev, q.rest)
        BY <2>1, <2>3, <2>4, <2>6, <1>14, SyscallEvent
    <2> QED
        BY <1>14, <2>7 DEF c
<1>16. Extends(ParseSyscall(feature, b), ParseSyscall(feature, b \o y), From(r, 4), y)
    <2>1. PICK k \in 0 .. Len(From(r, 4)) : p.rest = From(From(r, 4), k)
        BY <1>3, <1>14 DEF Extends
    <2> HIDE DEF ev
    <2> QED
        BY <1>3, <1>15, <2>1, EventsExtend
<1>17. Extends(ParseSyscall(feature, b), ParseSyscall(feature, b \o y), From(b, 4), y)
    BY <1>6, <1>8, <1>9, <1>11, <1>16, ExtendsFrom
<1> QED
    BY <1>4, <1>17, ExtendsFrom

\* Which reader an opcode selects.
Wide(b) == IF b[1] >= 128 THEN 8 ELSE 4

\* The arm of the match that an opcode selects.
LEMMA OpcodeExec ==
    ASSUME NEW feature, NEW b, b[1] % 128 = 0
    PROVE  ParsePacket(feature, b) = ParseExec(Wide(b), Tail(b))
BY DEF ParsePacket, Wide

\* Opcode 1.
LEMMA OpcodeRegs ==
    ASSUME NEW feature, NEW b, b[1] % 128 = 1
    PROVE  ParsePacket(feature, b) = ParseRegs(Wide(b), Tail(b))
BY DEF ParsePacket, Wide

\* Opcode 64.
LEMMA OpcodeBranch ==
    ASSUME NEW feature, NEW b, b[1] % 128 = 64
    PROVE  ParsePacket(feature, b) = ParseBranch(Wide(b), Tail(b))
BY DEF ParsePacket, Wide

\* Opcode 48.
LEMMA OpcodeMmap ==
    ASSUME NEW feature, NEW b, b[1] % 128 = 48
    PROVE  ParsePacket(feature, b) = ParseMmap(Wide(b), Tail(b))
BY DEF ParsePacket, Wide

\* Opcode 49.
LEMMA OpcodeMunmap ==
    ASSUME NEW feature, NEW b, b[1] % 128 = 49
    PROVE  ParsePacket(feature, b) = ParseMunmap(Wide(b), Tail(b))
BY DEF ParsePacket, Wide

\* Opcode 80.
LEMMA OpcodeSyscall ==
    ASSUME NEW feature, NEW b, b[1] % 128 = 80
    PROVE  ParsePacket(feature, b) = ParseSyscall(feature, Tail(b))
BY DEF ParsePacket, Wide

\* Opcodes 17, 18, 20 and 24.
LEMMA OpcodeRead ==
    ASSUME NEW feature, NEW b, NEW size \in Nat, size \in {1, 2, 4, 8}, b[1] % 128 = 16 + size
    PROVE  ParsePacket(feature, b) = ParseAccess("read", Wide(b), size, Tail(b))
BY DEF ParsePacket, Wide

\* Opcodes 33, 34, 36 and 40.
LEMMA OpcodeWrite ==
    ASSUME NEW feature, NEW b, NEW size \in Nat, size \in {1, 2, 4, 8}, b[1] % 128 = 32 + size
    PROVE  ParsePacket(feature, b) = ParseAccess("write", Wide(b), size, Tail(b))
BY DEF ParsePacket, Wide

\* Any other opcode.
LEMMA OpcodeOther ==
    ASSUME NEW feature, NEW b,
           b[1] % 128 \notin {0, 1, 64, 48, 49, 80, 17, 18, 20, 24, 33, 34, 36, 40}
    PROVE  ParsePacket(feature, b) = Ends("error")
BY DEF ParsePacket, Wide

\* A packet, whatever its opcode is.
LEMMA PacketExtends ==
    ASSUME NEW feature, NEW b \in Seq(Byte), b # <<>>, NEW y \in Seq(Byte),
           ParsePacket(feature, b).out = "event"
    PROVE  /\ ParsePacket(feature, b \o y) =
                  Event(ParsePacket(feature, b).ev, ParsePacket(feature, b).rest \o y)
           /\ \E k \in 1 .. Len(b) : ParsePacket(feature, b).rest = From(b, k)
<1> DEFINE c == b \o y  r == Tail(b)  p == ParsePacket(feature, b)
           q == ParsePacket(feature, c)  n == b[1]  op == n % 128
           w == Wide(b)
<1>1. r \in Seq(Byte) /\ c[1] = b[1] /\ Tail(c) = r \o y
    BY TailBehind
<1>2. w \in {4, 8}
    BY DEF Wide
<1>3. p.out = "event"
    OBVIOUS
<1> HIDE DEF c
<1>4. /\ Tail(b) = r /\ Wide(b) = w /\ b[1] = n
      /\ Tail(c) = r \o y /\ Wide(c) = w /\ c[1] = n
    BY <1>1 DEF Wide
<1> HIDE DEF w, r, n
<1>5. Extends(p, q, r, y)
    <2>1. CASE op = 0
        <3>1. p = ParseExec(w, r) /\ q = ParseExec(w, r \o y)
            BY <1>4, <2>1, OpcodeExec
        <3> QED
            BY <1>1, <1>2, <3>1, ExecExtends
    <2>2. CASE op = 1
        <3>1. p = ParseRegs(w, r) /\ q = ParseRegs(w, r \o y)
            BY <1>4, <2>2, OpcodeRegs
        <3> QED
            BY <1>1, <1>2, <3>1, RegsExtends
    <2>3. CASE op = 64
        <3>1. p = ParseBranch(w, r) /\ q = ParseBranch(w, r \o y)
            BY <1>4, <2>3, OpcodeBranch
        <3> QED
            BY <1>1, <1>2, <3>1, BranchExtends
    <2>4. CASE op = 48
        <3>1. p = ParseMmap(w, r) /\ q = ParseMmap(w, r \o y)
            BY <1>4, <2>4, OpcodeMmap
        <3> QED
            BY <1>1, <1>2, <3>1, MmapExtends
    <2>5. CASE op = 49
        <3>1. p = ParseMunmap(w, r) /\ q = ParseMunmap(w, r \o y)
            BY <1>4, <2>5, OpcodeMunmap
        <3> QED
            BY <1>1, <1>2, <3>1, MunmapExtends
    <2>6. CASE op = 80
        <3>1. p = ParseSyscall(feature, r) /\ q = ParseSyscall(feature, r \o y)
            BY <1>4, <2>6, OpcodeSyscall
        <3> QED
            BY <1>1, <3>1, SyscallExtends
    <2>7. CASE op \in {17, 18, 20, 24}
        <3>1. PICK size \in {1, 2, 4, 8} : n % 128 = 16 + size
            BY <2>7
        <3>2. /\ p = ParseAccess("read", w, size, r)
              /\ q = ParseAccess("read", w, size, r \o y)
            BY <1>4, <3>1, OpcodeRead, ZenonT(30)
        <3>3. size \in Nat
            OBVIOUS
        <3> QED
            BY <1>1, <1>2, <3>2, <3>3, AccessExtends
    <2>8. CASE op \in {33, 34, 36, 40}
        <3>1. PICK size \in {1, 2, 4, 8} : n % 128 = 32 + size
            BY <2>8
        <3>2. /\ p = ParseAccess("write", w, size, r)
              /\ q = ParseAccess("write", w, size, r \o y)
            BY <1>4, <3>1, OpcodeWrite, ZenonT(30)
        <3>3. size \in Nat
            OBVIOUS
        <3> QED
            BY <1>1, <1>2, <3>2, <3>3, AccessExtends
    <2>9. op \in {0, 1, 64, 48, 49, 80, 17, 18, 20, 24, 33, 34, 36, 40}
        <3>1. SUFFICES ASSUME op \notin {0, 1, 64, 48, 49, 80, 17, 18, 20, 24, 33, 34, 36, 40}
                       PROVE  FALSE
            OBVIOUS
        <3>2. b[1] % 128 \notin {0, 1, 64, 48, 49, 80, 17, 18, 20, 24, 33, 34, 36, 40}
            BY <3>1 DEF n
        <3>3. p = Ends("error")
            BY <3>2, OpcodeOther
        <3> QED
            BY <1>3, <3>3 DEF Ends
    <2> QED
        BY <2>1, <2>2, <2>3, <2>4, <2>5, <2>6, <2>7, <2>8, <2>9
<1> QED
    BY <1>3, <1>5, ExtendsTail DEF r, c

-----------------------------------------------------------------------------
(* The loop of parse_payload. *)

\* One turn, with n bytes left; u says what later turns return.
Turn(feature, b, u, n) ==
    IF n = 0 THEN [out |-> "ok", evs |-> <<>>]
    ELSE LET p == ParsePacket(feature, From(b, Len(b) - n)) IN
         IF p.out # "event" THEN [out |-> p.out, evs |-> <<>>]
         ELSE [out |-> u[Len(p.rest)].out, evs |-> <<p.ev>> \o u[Len(p.rest)].evs]

\* Every turn makes progress.
LEMMA Progress ==
    ASSUME NEW feature, NEW b \in Seq(Byte), b # <<>>, ParsePacket(feature, b).out = "event"
    PROVE  /\ ParsePacket(feature, b).rest \in Seq(Byte)
           /\ \E k \in 1 .. Len(b) : /\ ParsePacket(feature, b).rest = From(b, k)
                                     /\ Len(ParsePacket(feature, b).rest) = Len(b) - k
<1>1. <<>> \in Seq(Byte)
    BY EmptySeq
<1>2. PICK k \in 1 .. Len(b) : ParsePacket(feature, b).rest = From(b, k)
    BY <1>1, PacketExtends
<1>3. k \in 0 .. Len(b)
    BY LenProperties
<1> QED
    BY <1>2, <1>3, RestType

\* What the last n bytes are.
LEMMA LastBytes ==
    ASSUME NEW b \in Seq(Byte), NEW n \in 0 .. Len(b)
    PROVE  /\ From(b, Len(b) - n) \in Seq(Byte) /\ Len(From(b, Len(b) - n)) = n
           /\ n # 0 => From(b, Len(b) - n) # <<>>
<1>1. Len(b) \in Nat
    BY LenProperties
<1>2. PICK k \in Nat : k = Len(b) - n /\ Len(b) = k + n
    BY <1>1
<1>3. From(b, k) \in Seq(Byte) /\ Len(From(b, k)) = n
    BY <1>2, FromType
<1> QED
    BY <1>2, <1>3, EmptySeq

\* A turn of the loop looks at shorter payloads only.
LEMMA TurnShorter ==
    ASSUME NEW feature, NEW b \in Seq(Byte), NEW n \in 1 .. Len(b), NEW u, NEW v,
           \A m \in 0 .. n - 1 : u[m] = v[m]
    PROVE  Turn(feature, b, u, n) = Turn(feature, b, v, n)
<1> DEFINE c == From(b, Len(b) - n)  p == ParsePacket(feature, c)
<1>1. c \in Seq(Byte) /\ Len(c) = n /\ c # <<>>
    <2>1. n \in 0 .. Len(b) /\ n # 0
        BY LenProperties
    <2> QED
        BY <2>1, LastBytes
<1> HIDE DEF c
<1>2. p.out = "event" => Len(p.rest) \in 0 .. n - 1
    <2>1. SUFFICES ASSUME p.out = "event" PROVE Len(p.rest) \in 0 .. n - 1
        OBVIOUS
    <2>2. PICK k \in 1 .. n : Len(p.rest) = n - k
        BY <1>1, <2>1, Progress
    <2> QED
        BY <2>2
<1> HIDE DEF p
<1>3. p.out = "event" => u[Len(p.rest)] = v[Len(p.rest)]
    BY <1>2
<1>4. n # 0
    OBVIOUS
<1> QED
    BY <1>3, <1>4 DEF Turn, p, c

\* Parsed takes one turn after the other.
LEMMA ParsedSteps ==
    ASSUME NEW feature, NEW b \in Seq(Byte)
    PROVE  \E u : /\ \A n \in 0 .. Len(b) : u[n] = Turn(feature, b, u, n)
                  /\ Parsed(feature, b) = u[Len(b)]
<1> DEFINE Is(u, m) == u = [n \in 0 .. m |-> Turn(feature, b, u, n)]
           S == {m \in Nat : m <= Len(b) => \E u : Is(u, m)}
<1>1. Len(b) \in Nat
    BY LenProperties
<1>2. 0 \in S
    <2> DEFINE u == [n \in 0 .. 0 |-> [out |-> "ok", evs |-> <<>>]]
    <2>1. \A n \in 0 .. 0 : Turn(feature, b, u, n) = [out |-> "ok", evs |-> <<>>]
        BY DEF Turn
    <2> HIDE DEF u
    <2>2. u = [n \in 0 .. 0 |-> Turn(feature, b, u, n)]
        BY <2>1 DEF u
    <2> QED
        BY <2>2
<1>3. ASSUME NEW m \in Nat, m \in S PROVE m + 1 \in S
    <2>1. SUFFICES ASSUME m + 1 <= Len(b) PROVE \E v : Is(v, m + 1)
        OBVIOUS
    <2>2. PICK u : Is(u, m)
        BY <1>1, <1>3, <2>1
    <2> DEFINE v == [n \in 0 .. m + 1 |-> Turn(feature, b, u, n)]
    <2>3. \A n \in 0 .. m : v[n] = u[n]
        BY <2>2
    <2>4. ASSUME NEW n \in 0 .. m + 1 PROVE Turn(feature, b, u, n) = Turn(feature, b, v, n)
        <3> HIDE DEF v
        <3>1. CASE n = 0
            BY <3>1 DEF Turn
        <3>2. CASE n # 0
            <4>1. n \in 1 .. Len(b) /\ \A i \in 0 .. n - 1 : i \in 0 .. m
                BY <1>1, <2>1, <3>2
            <4>2. \A i \in 0 .. n - 1 : u[i] = v[i]
                BY <2>3, <4>1
            <4> QED
                BY <4>1, <4>2, TurnShorter
        <3> QED
            BY <3>1, <3>2
    <2>5. Is(v, m + 1)
        BY <2>4, Zenon
    <2> HIDE DEF v, Is
    <2> QED
        BY <2>5
<1>4. \E u : Is(u, Len(b))
    <2> HIDE DEF S
    <2>1. \A m \in Nat : m \in S => m + 1 \in S
        BY <1>3
    <2>2. Len(b) \in S
        BY <1>1, <1>2, <2>1, SetInduction
    <2> QED
        BY <1>1, <2>2 DEF S
<1> DEFINE left == CHOOSE u : Is(u, Len(b))
<1>5. Is(left, Len(b))
    BY <1>4
<1>6. Parsed(feature, b) = left[Len(b)]
    BY Zenon DEF Parsed, Turn
<1> HIDE DEF left
<1>7. \A n \in 0 .. Len(b) : left[n] = Turn(feature, b, left, n)
    BY <1>5
<1> QED
    BY <1>6, <1>7

\* How reading ends.
LEMMA Outcomes ==
    ASSUME NEW ev, NEW rest, NEW how
    PROVE  Event(ev, rest).out = "event" /\ Ends(how).out = how
BY DEF Event, Ends

\* A parameter is read, or the thread panics.
LEMMA ParamOutcome ==
    ASSUME NEW b
    PROVE  Param(b).out \in {"event", "panic"}
<1> DEFINE r == Tail(b)
<1>1. \/ Param(b) = Ends("panic")
      \/ \E ev, rest : Param(b) = Event(ev, rest)
    BY DEF Param
<1> QED
    BY <1>1, Outcomes

\* The same for all parameters of a call.
LEMMA ParamsOutcome ==
    ASSUME NEW count \in Nat, NEW b
    PROVE  Params(count, b).out \in {"event", "panic"}
<1>1. PICK u : /\ u[0] = Event(<<>>, b)
               /\ \A k \in 1 .. count : u[k] = NextParam(u[k - 1])
               /\ Params(count, b) = u[count]
    BY ParamsSteps
<1> DEFINE S == {k \in Nat : k <= count => u[k].out \in {"event", "panic"}}
<1>2. 0 \in S
    BY <1>1, Outcomes
<1>3. ASSUME NEW n \in Nat, n \in S PROVE n + 1 \in S
    <2>1. SUFFICES ASSUME n + 1 <= count PROVE u[n + 1].out \in {"event", "panic"}
        OBVIOUS
    <2>2. n + 1 \in 1 .. count /\ (n + 1) - 1 = n /\ u[n].out \in {"event", "panic"}
        BY <1>3, <2>1
    <2>3. u[n + 1] = NextParam(u[n])
        BY <1>1, <2>2
    <2>4. \/ NextParam(u[n]) = u[n] \/ NextParam(u[n]) = Param(u[n].rest)
          \/ \E ev, rest : NextParam(u[n]) = Event(ev, rest)
        BY DEF NextParam
    <2> QED
        BY <2>2, <2>3, <2>4, ParamOutcome, Outcomes
<1>4. count \in S
    <2> HIDE DEF S
    <2>1. \A n \in Nat : n \in S => n + 1 \in S
        BY <1>3
    <2> QED
        BY <1>2, <2>1, SetInduction
<1> QED
    BY <1>1, <1>4

\* A system call is read, or ends the parse in one of the ways known.
LEMMA SyscallOutcome ==
    ASSUME NEW feature, NEW b \in Seq(Byte)
    PROVE  /\ ParseSyscall(feature, b).out \in {"event", "panic", "error", "stop"}
           /\ ParseSyscall(feature, b).out = "stop" =>
                 ~(Len(b) < 4) /\ CallNum(feature, b) = "NotHandled"
<1> DEFINE num == CallNum(feature, b)  ret == CallRet(b)  p == CallParams(b)
<1>1. \/ ParseSyscall(feature, b) = Ends("error")
      \/ ~(Len(b) < 4) /\ num = "NotHandled" /\ ParseSyscall(feature, b) = Ends("stop")
      \/ ParseSyscall(feature, b) = ret
      \/ ~(Len(b) < 4) /\ ret.out = "event" /\ ~(Len(ret.rest) < 4) /\ ParseSyscall(feature, b) = p
      \/ \E ev, rest : ParseSyscall(feature, b) = Event(ev, rest)
    BY DEF ParseSyscall, CallNum, CallRet, CallParams
<1>2. ret.out \in {"event", "panic"}
    BY ParamOutcome DEF CallRet
<1>3. ASSUME ~(Len(b) < 4), ret.out = "event", ~(Len(ret.rest) < 4)
      PROVE  p.out \in {"event", "panic"}
    <2> DEFINE r == ret.rest  count == Length(Field(r, 0, 4))
    <2>1. 4 \in 0 .. Len(b)
        BY <1>3, LenProperties
    <2>2. From(b, 4) \in Seq(Byte) /\ <<>> \in Seq(Byte)
        BY <2>1, RestType, EmptySeq
    <2>3. PICK k \in 1 .. Len(From(b, 4)) : r = From(From(b, 4), k)
        BY <1>3, <2>2, ParamExtends DEF CallRet
    <2>4. k \in 0 .. Len(From(b, 4))
        BY <2>2, LenProperties
    <2>5. r \in Seq(Byte)
        BY <2>2, <2>3, <2>4, RestType
    <2> HIDE DEF r
    <2>6. 0 + 4 <= Len(r) /\ 0 \in Nat /\ 4 \in Nat /\ 4 >= 2
        BY <1>3, <2>5, LenProperties DEF r
    <2>7. count \in Nat
        BY <2>5, <2>6, NumberField
    <2> QED
        BY <2>7, ParamsOutcome DEF CallParams, r
<1> QED
    BY <1>1, <1>2, <1>3, Outcomes

\* No packet says that the payload is at its end.
LEMMA PacketOutcome ==
    ASSUME NEW feature, NEW b \in Seq(Byte), b # <<>>
    PROVE  /\ ParsePacket(feature, b).out \in {"event", "panic", "error", "stop"}
           /\ ParsePacket(feature, b).out = "stop" => b[1] % 128 = 80
<1> DEFINE w == Wide(b)  r == Tail(b)  op == b[1] % 128
<1>1. r \in Seq(Byte)
    BY HeadTailProperties
<1>2. ASSUME NEW size, NEW kind PROVE ParseAccess(kind, w, size, r).out \in {"event", "error"}
    BY Outcomes DEF ParseAccess
<1>3. /\ ParseExec(w, r).out \in {"event", "error"}
      /\ ParseMunmap(w, r).out \in {"event", "error"}
    BY Outcomes DEF ParseExec, ParseMunmap
<1>4. /\ ParseRegs(w, r).out \in {"event", "error", "panic"}
      /\ ParseBranch(w, r).out \in {"event", "error", "panic"}
      /\ ParseMmap(w, r).out \in {"event", "error"}
    <2>1. \/ ParseRegs(w, r) = Ends("error") \/ ParseRegs(w, r) = Ends("panic")
          \/ \E ev, rest : ParseRegs(w, r) = Event(ev, rest)
        BY DEF ParseRegs
    <2>2. \/ ParseBranch(w, r) = Ends("error") \/ ParseBranch(w, r) = Ends("panic")
          \/ \E ev, rest : ParseBranch(w, r) = Event(ev, rest)
        BY DEF ParseBranch
    <2>3. \/ ParseMmap(w, r) = Ends("error")
          \/ \E ev, rest : ParseMmap(w, r) = Event(ev, rest)
        BY DEF ParseMmap
    <2> QED
        BY <2>1, <2>2, <2>3, Outcomes
<1>5. ParseSyscall(feature, r).out \in {"event", "panic", "error", "stop"}
    BY <1>1, SyscallOutcome
<1>6. \/ ParsePacket(feature, b) = ParseExec(w, r)
      \/ ParsePacket(feature, b) = ParseRegs(w, r)
      \/ ParsePacket(feature, b) = ParseBranch(w, r)
      \/ ParsePacket(feature, b) = ParseMmap(w, r)
      \/ ParsePacket(feature, b) = ParseMunmap(w, r)
      \/ op = 80 /\ ParsePacket(feature, b) = ParseSyscall(feature, r)
      \/ \E kind, size : ParsePacket(feature, b) = ParseAccess(kind, w, size, r)
      \/ ParsePacket(feature, b) = Ends("error")
    BY DEF ParsePacket, Wide
<1> HIDE DEF w, r, op
<1>7. op = b[1] % 128
    BY DEF op
<1> QED
    BY <1>2, <1>3, <1>4, <1>5, <1>6, <1>7, Outcomes

\* The turns on what is left after k bytes are those of a payload of its own.
LEMMA ParsedSuffix ==
    ASSUME NEW feature, NEW b \in Seq(Byte), NEW u,
           \A n \in 0 .. Len(b) : u[n] = Turn(feature, b, u, n),
           NEW k \in 0 .. Len(b)
    PROVE  Parsed(feature, From(b, k)) = u[Len(From(b, k))]
<1> DEFINE c == From(b, k)
<1>1. Len(b) \in Nat /\ k \in Nat /\ k <= Len(b)
    BY LenProperties
<1>2. c \in Seq(Byte) /\ Len(c) = Len(b) - k /\ Len(c) \in Nat /\ Len(b) = k + Len(c)
    BY <1>1, RestType
<1> HIDE DEF c
<1>3. PICK v : /\ \A n \in 0 .. Len(c) : v[n] = Turn(feature, c, v, n)
               /\ Parsed(feature, c) = v[Len(c)]
    BY <1>2, ParsedSteps
<1> DEFINE S == {n \in Nat : n <= Len(c) => u[n] = v[n]}
<1>4. ASSUME NEW n \in Nat, \A m \in Nat : m < n => m \in S PROVE n \in S
    <2>1. SUFFICES ASSUME n <= Len(c) PROVE u[n] = v[n]
        OBVIOUS
    <2>2. u[n] = Turn(feature, b, u, n) /\ v[n] = Turn(feature, c, v, n)
        BY <1>2, <1>3, <2>1
    <2>3. CASE n = 0
        BY <2>2, <2>3 DEF Turn
    <2>4. CASE n # 0
        <3>1. n \in 1 .. Len(c) /\ \A m \in 0 .. n - 1 : m \in Nat /\ m < n /\ m <= Len(c)
            BY <1>2, <2>1, <2>4
        <3>2. \A m \in 0 .. n - 1 : u[m] = v[m]
            BY <1>4, <3>1
        <3>3. Turn(feature, c, v, n) = Turn(feature, c, u, n)
            BY <1>2, <3>1, <3>2, TurnShorter
        <3>4. PICK at \in Nat, of \in Nat : of = Len(c) - n /\ at = Len(b) - n /\ at = k + of
            BY <1>1, <1>2, <2>1
        <3>5. From(c, of) = From(b, at)
            <4>1. at <= Len(b)
                BY <1>1, <3>4
            <4> QED
                BY <1>1, <3>4, <4>1, FromFrom DEF c
        <3>6. Turn(feature, c, u, n) = Turn(feature, b, u, n)
            BY <3>4, <3>5 DEF Turn
        <3> QED
            BY <2>2, <3>3, <3>6
    <2> QED
        BY <2>3, <2>4
<1>5. Len(c) \in S
    <2> HIDE DEF S
    <2>1. \A n \in Nat : (\A m \in Nat : m < n => m \in S) => n \in S
        BY <1>4
    <2> QED
        BY <1>2, <2>1, SetStrongInduction
<1>6. u[Len(c)] = v[Len(c)]
    BY <1>2, <1>5
<1> QED
    BY <1>3, <1>6 DEF c

\* An empty payload is no event ...
LEMMA ParsedEmpty ==
    ASSUME NEW feature
    PROVE  Parsed(feature, <<>>) = [out |-> "ok", evs |-> <<>>]
<1>1. <<>> \in Seq(Byte) /\ Len(<<>>) = 0
    BY EmptySeq
<1>2. PICK u : /\ \A n \in 0 .. Len(<<>>) : u[n] = Turn(feature, <<>>, u, n)
               /\ Parsed(feature, <<>>) = u[Len(<<>>)]
    BY <1>1, ParsedSteps
<1>3. u[0] = Turn(feature, <<>>, u, 0)
    BY <1>1, <1>2
<1> QED
    BY <1>1, <1>2, <1>3 DEF Turn

\* ... and another one is a packet and what is left, unless the packet ends it.
LEMMA ParsedTurn ==
    ASSUME NEW feature, NEW b \in Seq(Byte), b # <<>>
    PROVE  /\ ParsePacket(feature, b).out # "event" =>
                 Parsed(feature, b) = [out |-> ParsePacket(feature, b).out, evs |-> <<>>]
           /\ ParsePacket(feature, b).out = "event" =>
                 Parsed(feature, b) =
                     [out |-> Parsed(feature, ParsePacket(feature, b).rest).out,
                      evs |-> <<ParsePacket(feature, b).ev>>
                                  \o Parsed(feature, ParsePacket(feature, b).rest).evs]
<1> DEFINE p == ParsePacket(feature, b)
<1>1. Len(b) \in Nat /\ Len(b) # 0 /\ Len(b) - Len(b) = 0
    BY EmptySeq
<1>2. PICK u : /\ \A n \in 0 .. Len(b) : u[n] = Turn(feature, b, u, n)
               /\ Parsed(feature, b) = u[Len(b)]
    BY ParsedSteps
<1>3. Parsed(feature, b) = Turn(feature, b, u, Len(b))
    BY <1>1, <1>2
<1>4. From(b, Len(b) - Len(b)) = b
    BY <1>1, FromEnds
<1>5. Parsed(feature, b) =
          IF p.out # "event" THEN [out |-> p.out, evs |-> <<>>]
          ELSE [out |-> u[Len(p.rest)].out, evs |-> <<p.ev>> \o u[Len(p.rest)].evs]
    BY <1>1, <1>3, <1>4 DEF Turn
<1>6. p.out = "event" => Parsed(feature, p.rest) = u[Len(p.rest)]
    <2>1. SUFFICES ASSUME p.out = "event" PROVE Parsed(feature, p.rest) = u[Len(p.rest)]
        OBVIOUS
    <2>2. PICK k \in 1 .. Len(b) : p.rest = From(b, k)
        BY <2>1, Progress
    <2>3. k \in 0 .. Len(b)
        BY <1>1
    <2>4. \A n \in 0 .. Len(b) : u[n] = Turn(feature, b, u, n)
        BY <1>2
    <2> HIDE DEF p
    <2>5. Parsed(feature, From(b, k)) = u[Len(From(b, k))]
        BY <2>3, <2>4, ParsedSuffix
    <2> QED
        BY <2>2, <2>5
<1> QED
    BY <1>5, <1>6

\* A payload whose first packet ends the parse: its outcome is that of the packet.
LEMMA ParsedEnd ==
    ASSUME NEW feature, NEW b \in Seq(Byte), b # <<>>, ParsePacket(feature, b).out # "event"
    PROVE  Parsed(feature, b) = [out |-> ParsePacket(feature, b).out, evs |-> <<>>]
BY ParsedTurn

\* A payload whose first packet is an event: the event, then the payload behind it.
LEMMA ParsedPacket ==
    ASSUME NEW feature, NEW b \in Seq(Byte), b # <<>>, NEW ev, NEW rest,
           ParsePacket(feature, b) = Event(ev, rest)
    PROVE  Parsed(feature, b) = [out |-> Parsed(feature, rest).out,
                                 evs |-> <<ev>> \o Parsed(feature, rest).evs]
<1>1. /\ ParsePacket(feature, b).out = "event" /\ ParsePacket(feature, b).ev = ev
      /\ ParsePacket(feature, b).rest = rest
    BY DEF Event
<1> QED
    BY <1>1, ParsedTurn

\* A packet that is told is an event.
LEMMA PacketEvent ==
    ASSUME NEW feature, NEW b \in Seq(Byte), b # <<>>, ParsePacket(feature, b).out = "event"
    PROVE  ParsePacket(feature, b) =
               Event(ParsePacket(feature, b).ev, ParsePacket(feature, b).rest)
<1>1. <<>> \in Seq(Byte) /\ b \o <<>> = b
    BY EmptySeq, ConcatEmptySeq
<1>2. ParsePacket(feature, b).rest \in Seq(Byte)
    BY Progress
<1>3. ParsePacket(feature, b).rest \o <<>> = ParsePacket(feature, b).rest
    BY <1>2, ConcatEmptySeq
<1>4. ParsePacket(feature, b \o <<>>) =
          Event(ParsePacket(feature, b).ev, ParsePacket(feature, b).rest \o <<>>)
    BY <1>1, PacketExtends
<1> QED
    BY <1>1, <1>3, <1>4

\* One event as a sequence.
LEMMA OneElement ==
    ASSUME NEW e
    PROVE  IsSeq(<<e>>)
<1>1. <<e>> \in Seq({e})
    OBVIOUS
<1> QED
    BY <1>1 DEF IsSeq

\* What is told is a sequence.
LEMMA ParsedType ==
    ASSUME NEW feature, NEW b \in Seq(Byte)
    PROVE  /\ Parsed(feature, b) = [out |-> Parsed(feature, b).out,
                                    evs |-> Parsed(feature, b).evs]
           /\ IsSeq(Parsed(feature, b).evs)
<1> DEFINE Good(r) == r = [out |-> r.out, evs |-> r.evs] /\ IsSeq(r.evs)
           S == {n \in Nat : \A c \in Seq(Byte) : Len(c) = n => Good(Parsed(feature, c))}
<1>1. ASSUME NEW x PROVE Good([out |-> x, evs |-> <<>>])
    <2>1. <<>> \in Seq({})
        BY EmptySeq
    <2> QED
        BY <2>1 DEF IsSeq
<1>2. ASSUME NEW x, NEW ev, NEW evs, IsSeq(evs) PROVE Good([out |-> x, evs |-> <<ev>> \o evs])
    <2>2. IsSeq(<<ev>>)
        BY OneElement
    <2>3. IsSeq(<<ev>> \o evs)
        BY <1>2, <2>2, ConcatAssoc
    <2> QED
        BY <2>3
<1> HIDE DEF Good
<1>3. ASSUME NEW n \in Nat, \A m \in Nat : m < n => m \in S PROVE n \in S
    <2>1. SUFFICES ASSUME NEW c \in Seq(Byte), Len(c) = n PROVE Good(Parsed(feature, c))
        OBVIOUS
    <2>2. CASE c = <<>>
        BY <1>1, <2>2, ParsedEmpty
    <2>3. CASE c # <<>>
        <3> DEFINE p == ParsePacket(feature, c)
        <3>1. CASE p.out # "event"
            <4>1. Parsed(feature, c) = [out |-> p.out, evs |-> <<>>]
                BY <2>3, <3>1, ParsedEnd
            <4> QED
                BY <1>1, <4>1
        <3>2. CASE p.out = "event"
            <4>1. p.rest \in Seq(Byte) /\ \E k \in 1 .. n : Len(p.rest) = n - k
                BY <2>1, <2>3, <3>2, Progress
            <4>2. Len(p.rest) \in Nat /\ Len(p.rest) < n
                BY <4>1
            <4>3. Good(Parsed(feature, p.rest))
                BY <1>3, <4>1, <4>2
            <4>4. IsSeq(Parsed(feature, p.rest).evs)
                BY <4>3 DEF Good
            <4>5. Parsed(feature, c) = [out |-> Parsed(feature, p.rest).out,
                                        evs |-> <<p.ev>> \o Parsed(feature, p.rest).evs]
                BY <2>3, <3>2, ParsedTurn
            <4> QED
                BY <1>2, <4>4, <4>5
        <3> QED
            BY <3>1, <3>2
    <2> QED
        BY <2>2, <2>3
<1>4. Len(b) \in S
    <2> HIDE DEF S
    <2>1. \A n \in Nat : (\A m \in Nat : m < n => m \in S) => n \in S
        BY <1>3
    <2> QED
        BY <2>1, LenProperties, SetStrongInduction
<1> QED
    BY <1>4 DEF Good

\* A payload that is read to its end can be continued: then follows what the
\* continuation alone says.  Where hooks cut their chunks makes no difference.
\* (parse_payload)
THEOREM ParsedExtends ==
    ASSUME NEW feature, NEW b \in Seq(Byte), NEW y \in Seq(Byte),
           Parsed(feature, b).out = "ok"
    PROVE  Parsed(feature, b \o y) =
               [out |-> Parsed(feature, y).out,
                evs |-> Parsed(feature, b).evs \o Parsed(feature, y).evs]
<1> DEFINE q == Parsed(feature, y)
           Says(c) == Parsed(feature, c).out = "ok" =>
                          Parsed(feature, c \o y) =
                              [out |-> q.out, evs |-> Parsed(feature, c).evs \o q.evs]
           S == {n \in Nat : \A c \in Seq(Byte) : Len(c) = n => Says(c)}
<1>1. q = [out |-> q.out, evs |-> q.evs] /\ IsSeq(q.evs)
    BY ParsedType
<1>2. Says(<<>>)
    <2>1. <<>> \o y = y
        BY ConcatEmptySeq
    <2>2. <<>> \o q.evs = q.evs
        BY <1>1, ConcatEmptySeq DEF IsSeq
    <2>3. Parsed(feature, <<>>).evs = <<>>
        BY ParsedEmpty
    <2> HIDE DEF q
    <2> QED
        BY <1>1, <2>1, <2>2, <2>3 DEF q
<1> HIDE DEF q
<1>3. ASSUME NEW n \in Nat, \A m \in Nat : m < n => m \in S PROVE n \in S
    <2>1. SUFFICES ASSUME NEW c \in Seq(Byte), Len(c) = n, c # <<>>, Parsed(feature, c).out = "ok"
                   PROVE  Parsed(feature, c \o y) =
                              [out |-> q.out, evs |-> Parsed(feature, c).evs \o q.evs]
        BY <1>2
    <2>2. ParsePacket(feature, c).out = "event"
        <3>1. SUFFICES ASSUME ParsePacket(feature, c).out # "event" PROVE FALSE
            OBVIOUS
        <3>2. Parsed(feature, c) = [out |-> ParsePacket(feature, c).out, evs |-> <<>>]
            BY <2>1, <3>1, ParsedEnd
        <3> QED
            BY <2>1, <3>2, PacketOutcome
    <2>3. PICK ev, rest : ParsePacket(feature, c) = Event(ev, rest)
        <3>1. ParsePacket(feature, c) =
                  Event(ParsePacket(feature, c).ev, ParsePacket(feature, c).rest)
            BY <2>1, <2>2, PacketEvent
        <3> QED
            BY <3>1
    <2>4. ParsePacket(feature, c).ev = ev /\ ParsePacket(feature, c).rest = rest
        BY <2>3 DEF Event
    <2>5. rest \in Seq(Byte) /\ Len(rest) \in Nat /\ Len(rest) < n
        <3>1. rest \in Seq(Byte) /\ \E k \in 1 .. n : Len(rest) = n - k
            BY <2>1, <2>2, <2>4, Progress
        <3> QED
            BY <3>1
    <2> DEFINE r == Parsed(feature, rest)
    <2>6. Parsed(feature, c) = [out |-> r.out, evs |-> <<ev>> \o r.evs]
        BY <2>1, <2>3, ParsedPacket
    <2>7. r.out = "ok" /\ Parsed(feature, c).evs = <<ev>> \o r.evs
        BY <2>1, <2>6
    <2> DEFINE s == Parsed(feature, rest \o y)  z == c \o y  ry == rest \o y
               w == r.evs \o q.evs
    <2>8. s = [out |-> q.out, evs |-> w]
        BY <1>3, <2>5, <2>7
    <2> HIDE DEF S, Says, r, w
    <2>9. Parsed(feature, c \o y) = [out |-> s.out, evs |-> <<ev>> \o s.evs]
        <3>1. ParsePacket(feature, c \o y) = Event(ev, rest \o y)
            BY <2>1, <2>2, <2>4, PacketExtends
        <3>2. c \o y \in Seq(Byte) /\ c \o y # <<>>
            BY <2>1, TailBehind, Behind
        <3>3. z \in Seq(Byte) /\ z # <<>> /\ ParsePacket(feature, z) = Event(ev, ry)
            BY <3>1, <3>2
        <3> HIDE DEF z, ry
        <3>4. Parsed(feature, z) = [out |-> Parsed(feature, ry).out,
                                    evs |-> <<ev>> \o Parsed(feature, ry).evs]
            BY <3>3, ParsedPacket
        <3> QED
            BY <3>4 DEF z, ry
    <2> HIDE DEF s
    <2>10. s.out = q.out /\ s.evs = w
        BY <2>8
    <2>11. (<<ev>> \o r.evs) \o q.evs = <<ev>> \o (r.evs \o q.evs)
        <3>1. IsSeq(r.evs)
            BY <2>5, ParsedType DEF r
        <3>2. IsSeq(<<ev>>)
            BY OneElement
        <3> DEFINE t == r.evs  u == q.evs  e == <<ev>>
        <3>3. IsSeq(e) /\ IsSeq(t) /\ IsSeq(u)
            BY <1>1, <3>1, <3>2
        <3> HIDE DEF t, u, e
        <3>4. (e \o t) \o u = e \o (t \o u)
            BY <3>3, ConcatAssoc
        <3> QED
            BY <3>4 DEF t, u, e
    <2> QED
        BY <2>7, <2>9, <2>10, <2>11 DEF w
<1>4. Len(b) \in S
    <2> HIDE DEF S
    <2>1. \A n \in Nat : (\A m \in Nat : m < n => m \in S) => n \in S
        BY <1>3
    <2> QED
        BY <2>1, LenProperties, SetStrongInduction
<1>5. Says(b)
    <2> HIDE DEF Says
    <2> QED
        BY <1>4
<1> QED
    BY <1>5 DEF q

-----------------------------------------------------------------------------
(* What a hook writes is what parse_payload reads: packet by packet. *)

\* A tuple of n bytes is a sequence of that length, and the other way round.
LEMMA BytesType ==
    ASSUME NEW n \in Nat, NEW f \in Bytes(n)
    PROVE  f \in Seq(Byte) /\ Len(f) = n
<1>1. f \in Seq(Byte)
    BY SeqDef DEF Bytes
<1>2. Len(f) \in Nat /\ 1 .. Len(f) = 1 .. n
    BY <1>1, LenProperties DEF Bytes
<1> QED
    BY <1>1, <1>2

\* The other way round.
LEMMA BytesMade ==
    ASSUME NEW f \in Seq(Byte)
    PROVE  f \in Bytes(Len(f)) /\ Len(f) \in Nat
BY LenProperties DEF Bytes

\* The first bytes of a sequence, the last ones, and all of them.
LEMMA FieldBytes ==
    ASSUME NEW n \in Nat, NEW b \in Bytes(n), NEW at \in Nat, NEW w \in Nat, at + w <= n
    PROVE  /\ Field(b, at, w) \in Bytes(w)
           /\ \A i \in 1 .. w : Field(b, at, w)[i] = b[at + i]
<1>1. b \in Seq(Byte) /\ at + w <= Len(b)
    BY BytesType
<1> QED
    BY <1>1, FieldType DEF Bytes

\* All of a sequence, as a field.
LEMMA WholeBytes ==
    ASSUME NEW n \in Nat, NEW b \in Bytes(n)
    PROVE  Field(b, 0, n) = b /\ From(b, n) = <<>> /\ From(b, 0) = b /\ ~(Len(b) < n)
<1>1. b \in Seq(Byte) /\ n = Len(b)
    BY BytesType
<1> QED
    BY <1>1, FieldAll, FromEnds

\* What is left of a sequence that is cut.
LEMMA LowBytes ==
    ASSUME NEW n \in Nat, NEW b \in Bytes(n), NEW w \in Nat
    PROVE  /\ w <= n => Low(b, w) = Field(b, 0, w) /\ Low(b, w) \in Bytes(w)
           /\ n <= w => Low(b, w) = b
           /\ \A i \in 1 .. w : i <= n => Low(b, w)[i] = b[i]
<1>1. b \in Seq(Byte) /\ Len(b) = n
    BY BytesType
<1>2. CASE n < w
    BY <1>1, <1>2 DEF Low
<1>3. CASE w <= n
    <2>1. 0 \in Nat /\ 0 + w <= n
        BY <1>3
    <2>2. /\ Field(b, 0, w) \in Bytes(w)
          /\ \A i \in 1 .. w : Field(b, 0, w)[i] = b[0 + i]
        BY <2>1, FieldBytes
    <2>3. Low(b, w) = Field(b, 0, w)
        BY <1>1, <1>3 DEF Low
    <2>4. n = w => Field(b, 0, w) = b
        BY WholeBytes
    <2> QED
        BY <1>3, <2>2, <2>3, <2>4
<1> QED
    BY <1>2, <1>3

\* A word of the target crosses the pipe unchanged. ("as u32", "as u64")
LEMMA WordKept ==
    ASSUME NEW v \in Words, NEW w \in {4, 8}
    PROVE  /\ Low(v, w) \in Bytes(w)
           /\ Fits(v, w) => U64(Low(v, w)) = v
<1>1. v \in Bytes(8) /\ 8 \in Nat /\ w \in Nat /\ w <= 8
    BY DEF Words
<1>2. Low(v, w) \in Bytes(w)
    BY <1>1, LowBytes
<1>3. \A i \in 1 .. w : i <= 8 => Low(v, w)[i] = v[i]
    BY <1>1, LowBytes
<1>4. Len(Low(v, w)) = w
    BY <1>1, <1>2, BytesType
<1>5. ASSUME Fits(v, w) PROVE U64(Low(v, w)) = v
    <2>1. v = [i \in 1 .. 8 |-> v[i]]
        BY <1>1 DEF Bytes
    <2>2. \A i \in 1 .. 8 : U64(Low(v, w))[i] = v[i]
        BY <1>3, <1>4, <1>5 DEF U64, Fits
    <2>3. U64(Low(v, w)) = [i \in 1 .. 8 |-> U64(Low(v, w))[i]]
        BY DEF U64
    <2> QED
        BY <2>1, <2>2, <2>3
<1> QED
    BY <1>2, <1>5

\* A number as a length in front of what it is the length of.
LEMMA NumberKept ==
    ASSUME NEW n \in Nat, n < Huge
    PROVE  Word(n, 4) \in Bytes(4) /\ Length(Word(n, 4)) = n
<1>1. Word(n, 4) \in Bytes(4) /\ 4 \in Nat
    <2>1. n % 256 \in Byte /\ (n \div 256) % 256 \in Byte /\ (n \div 65536) % 256 \in Byte
          /\ 0 \in Byte
        BY DEF Byte, Huge
    <2> QED
        BY <2>1 DEF Word, Bytes
<1>2. Word(n, 4) \in Seq(Byte) /\ Len(Word(n, 4)) = 4
    BY <1>1, BytesType
<1>3. /\ Word(n, 4)[1] = n % 256 /\ Word(n, 4)[2] = (n \div 256) % 256
      /\ Word(n, 4)[3] = (n \div 65536) % 256 /\ Word(n, 4)[4] = 0
    BY DEF Word
<1>4. (n % 256) + 256 * ((n \div 256) % 256) + 65536 * ((n \div 65536) % 256) = n
    <2> DEFINE q == n \div 256  r == n % 256  t == n \div 65536
    <2>1. n < 16777216
        BY DEF Huge
    <2>2. q \in Nat /\ r \in Nat /\ t \in Nat /\ t < 256 /\ t = q \div 256
        BY <2>1
    <2>3. q = n \div 256 /\ r = n % 256 /\ t = n \div 65536
        OBVIOUS
    <2>4. n = 256 * q + r
        BY <2>3
    <2> HIDE DEF q, r, t
    <2>5. q = 256 * t + (q % 256) /\ (q % 256) \in Nat
        <3>1. \A k \in Nat : k = 256 * (k \div 256) + (k % 256) /\ (k % 256) \in Nat
            OBVIOUS
        <3> QED
            BY <2>2, <3>1, Zenon
    <2>6. t % 256 = t
        BY <2>2
    <2> QED
        BY <2>2, <2>3, <2>4, <2>5, <2>6
<1>5. \A i \in 4 .. 4 : Word(n, 4)[i] = 0
    BY <1>3
<1> QED
    BY <1>1, <1>2, <1>3, <1>4, <1>5 DEF Length

\* One byte as a sequence.
LEMMA OneByte ==
    ASSUME NEW x \in Byte
    PROVE  <<x>> \in Bytes(1) /\ <<x>>[1] = x
BY DEF Bytes

\* A packet grows at its end; what was written stays.
LEMMA Grows ==
    ASSUME NEW at \in Nat, NEW w \in Nat, NEW n \in Nat, n = at + w,
           NEW p \in Bytes(at), NEW t \in Bytes(w)
    PROVE  /\ p \o t \in Bytes(n)
           /\ Field(p \o t, at, w) = t
           /\ \A of \in Nat, v \in Nat : of + v <= at => Field(p \o t, of, v) = Field(p, of, v)
<1>1. p \in Seq(Byte) /\ Len(p) = at /\ t \in Seq(Byte) /\ Len(t) = w
    BY BytesType
<1>2. p \o t \in Seq(Byte) /\ Len(p \o t) = at + w
    BY <1>1, Behind
<1>3. Field(p \o t, at, w) = t
    BY <1>1, FieldLast
<1>4. ASSUME NEW of \in Nat, NEW v \in Nat, of + v <= at
      PROVE  Field(p \o t, of, v) = Field(p, of, v)
    <2>1. of + v <= Len(p)
        BY <1>1, <1>4
    <2> QED
        BY <1>1, <2>1, FieldLeft
<1>5. p \o t \in Bytes(n)
    BY <1>2, BytesMade
<1> QED
    BY <1>3, <1>4, <1>5

\* A packet opens with its opcode, and t follows.
Opens(b, n, w, t) ==
    /\ b \in Seq(Byte) /\ b # <<>> /\ Tail(b) = t
    /\ b[1] % 128 = n /\ Wide(b) = w

\* Sequences one after the other.
Cat(s, t) == s \o t

\* Parts put together in another order of grouping.
LEMMA CatAssoc ==
    ASSUME NEW s, NEW t, NEW u, IsSeq(s), IsSeq(t), IsSeq(u)
    PROVE  Cat(Cat(s, t), u) = Cat(s, Cat(t, u)) /\ IsSeq(Cat(s, t))
<1>1. (s \o t) \o u = s \o (t \o u) /\ IsSeq(s \o t)
    BY ConcatAssoc
<1> QED
    BY <1>1, Zenon DEF Cat

\* An opcode in front.
LEMMA Opened ==
    ASSUME NEW n \in Nat, n < 128, NEW w \in Widths, NEW t \in Seq(Byte)
    PROVE  Opens(Cat(Op(n, w), t), n, w, t) /\ Op(n, w) \in Bytes(1)
<1> DEFINE x == n + (IF w = 8 THEN 128 ELSE 0)
<1>1. x \in Byte /\ x % 128 = n /\ (x >= 128 <=> w = 8)
  <2>1. CASE w = 8
    <3>1. x = n + 128 /\ (n + 128) % 128 = n
      BY <2>1
    <3> QED
      BY <2>1, <3>1 DEF Byte
  <2>2. CASE w # 8
    <3>1. x = n /\ n % 128 = n
      BY <2>2
    <3> QED
      BY <2>2, <3>1 DEF Byte
  <2> QED
    BY <2>1, <2>2
<1>2. Op(n, w) = <<x>>
    BY DEF Op
<1> HIDE DEF x
<1> DEFINE b == <<x>> \o t
<1>3. <<x>> \in Bytes(1)
    BY <1>1, OneByte
<1>4. b \in Seq(Byte) /\ b # <<>> /\ Tail(b) = t /\ b[1] = x
    BY <1>1
<1>5. Cat(Op(n, w), t) = b
    BY <1>2, Zenon DEF Cat
<1> HIDE DEF b
<1>6. Wide(b) = w
    BY <1>1, <1>4 DEF Wide, Widths
<1>7. Opens(b, n, w, t)
    BY <1>1, <1>4, <1>6 DEF Opens
<1> QED
    BY <1>2, <1>3, <1>5, <1>7, Zenon

\* A packet, all of it and nothing else, is told as one event.
Tells(feature, b, ev) ==
    b \in Seq(Byte) /\ b # <<>> /\ ParsePacket(feature, b) = Event(ev, <<>>)

\* Three parts that follow one another.
LEMMA ThreeParts ==
    ASSUME NEW j \in Nat, NEW k \in Nat, NEW n \in Nat, NEW m \in Nat, m = j + k,
           NEW all \in Nat, all = m + n,
           NEW s \in Bytes(j), NEW t \in Bytes(k), NEW u \in Bytes(n)
    PROVE  /\ Cat(Cat(s, t), u) \in Bytes(all)
           /\ Field(Cat(Cat(s, t), u), 0, j) = s /\ Field(Cat(Cat(s, t), u), j, k) = t
           /\ Field(Cat(Cat(s, t), u), m, n) = u
<1> DEFINE p == Cat(s, t)
<1>1. p \in Bytes(m) /\ Field(p, j, k) = t
    BY Grows DEF Cat
<1>2. \A of \in Nat, v \in Nat : of + v <= j => Field(p, of, v) = Field(s, of, v)
    BY Grows DEF Cat
<1> HIDE DEF p
<1> DEFINE q == Cat(p, u)
<1>4. q \in Bytes(all) /\ Field(q, m, n) = u
    BY <1>1, Grows DEF Cat
<1>5. \A of \in Nat, v \in Nat : of + v <= m => Field(q, of, v) = Field(p, of, v)
    BY <1>1, Grows DEF Cat
<1> HIDE DEF q
<1>6. Field(q, 0, j) = s
    <2>1. Field(p, 0, j) = Field(s, 0, j)
        BY <1>2
    <2>2. Field(q, 0, j) = Field(p, 0, j)
        BY <1>5
    <2> QED
        BY <2>1, <2>2, WholeBytes
<1>7. Field(q, j, k) = t
    BY <1>1, <1>5
<1> QED
    BY <1>4, <1>6, <1>7 DEF p, q

\* The parser of a packet is that of its opcode.
LEMMA OpenedExec ==
    ASSUME NEW feature, NEW b, NEW w, NEW t, Opens(b, 0, w, t)
    PROVE  ParsePacket(feature, b) = ParseExec(w, t)
BY OpcodeExec, Zenon DEF Opens

\* The same for reads.
LEMMA OpenedRead ==
    ASSUME NEW feature, NEW b, NEW w, NEW t, NEW size \in Nat, size \in {1, 2, 4, 8},
           NEW n, n = 16 + size, Opens(b, n, w, t)
    PROVE  ParsePacket(feature, b) = ParseAccess("read", w, size, t)
BY OpcodeRead, Zenon DEF Opens

\* The same for writes.
LEMMA OpenedWrite ==
    ASSUME NEW feature, NEW b, NEW w, NEW t, NEW size \in Nat, size \in {1, 2, 4, 8},
           NEW n, n = 32 + size, Opens(b, n, w, t)
    PROVE  ParsePacket(feature, b) = ParseAccess("write", w, size, t)
BY OpcodeWrite, Zenon DEF Opens

\* Instruction hooks. (create_insthook, parse_payload)
LEMMA ExecTold ==
    ASSUME NEW feature, NEW w \in Widths, NEW v \in Bytes(w)
    PROVE  Tells(feature, Cat(Op(0, w), v), [op |-> "exec", pc |-> U64(v)])
<1>1. w \in Nat
    BY DEF Widths
<1>2. From(v, w) = <<>> /\ Field(v, 0, w) = v /\ ~(Len(v) < w)
    BY <1>1, WholeBytes
<1>3. ParseExec(w, v) = Event([op |-> "exec", pc |-> U64(v)], <<>>)
    BY <1>2 DEF ParseExec
<1> DEFINE b == Cat(Op(0, w), v)
<1>4. 0 \in Nat /\ 0 < 128 /\ v \in Seq(Byte)
    BY <1>1, BytesType
<1>5. Opens(b, 0, w, v)
    BY <1>4, Opened
<1> HIDE DEF b
<1>6. ParsePacket(feature, b) = ParseExec(w, v)
    BY <1>5, OpenedExec
<1>7. b \in Seq(Byte) /\ b # <<>>
    BY <1>5 DEF Opens
<1> QED
    BY <1>3, <1>6, <1>7, Zenon DEF Tells, b

\* Accesses of either kind, behind their opcode. (create_memhook, parse_payload)
LEMMA AccessRead ==
    ASSUME NEW op, NEW w \in Nat, NEW size \in Nat,
           NEW a \in Bytes(w), NEW v \in Bytes(size), NEW pc \in Bytes(w)
    PROVE  /\ Cat(Cat(a, v), pc) \in Seq(Byte)
           /\ ParseAccess(op, w, size, Cat(Cat(a, v), pc)) =
                  Event([op |-> op, pc |-> U64(pc), addr |-> U64(a), val |-> U64(v),
                         size |-> size], <<>>)
<1> DEFINE r == Cat(Cat(a, v), pc)
<1>1. PICK m \in Nat, all \in Nat : m = w + size /\ all = m + w
    OBVIOUS
<1>2. /\ r \in Bytes(all)
      /\ Field(r, 0, w) = a /\ Field(r, w, size) = v /\ Field(r, m, w) = pc
    BY <1>1, ThreeParts
<1> HIDE DEF r
<1>3. r \in Seq(Byte) /\ Len(r) = all /\ From(r, all) = <<>>
    BY <1>2, BytesType, WholeBytes
<1>4. ~(Len(r) < 2 * w + size) /\ 2 * w + size = all
    BY <1>1, <1>3
<1>5. ParseAccess(op, w, size, r) =
          Event([op |-> op, pc |-> U64(pc), addr |-> U64(a), val |-> U64(v), size |-> size], <<>>)
    BY <1>1, <1>2, <1>3, <1>4 DEF ParseAccess
<1> QED
    BY <1>3, <1>5, Zenon DEF r

\* Four parts: the last three may be put together first.
LEMMA Regroup ==
    ASSUME NEW h \in Seq(Byte), NEW s \in Seq(Byte), NEW t \in Seq(Byte), NEW u \in Seq(Byte)
    PROVE  Cat(Cat(Cat(h, s), t), u) = Cat(h, Cat(Cat(s, t), u))
<1>1. IsSeq(h) /\ IsSeq(s) /\ IsSeq(t) /\ IsSeq(u)
    BY DEF IsSeq
<1>2. Cat(Cat(h, s), t) = Cat(h, Cat(s, t)) /\ IsSeq(Cat(s, t))
    BY <1>1, CatAssoc
<1>3. Cat(Cat(h, Cat(s, t)), u) = Cat(h, Cat(Cat(s, t), u))
    BY <1>1, <1>2, CatAssoc
<1> QED
    BY <1>2, <1>3

\* A memory hook tells the read.
LEMMA ReadTold ==
    ASSUME NEW feature, NEW w \in Widths, NEW size \in Nat, size \in {1, 2, 4, 8},
           NEW a \in Bytes(w), NEW v \in Bytes(size), NEW pc \in Bytes(w)
    PROVE  Tells(feature, Op(16 + size, w) \o a \o v \o pc,
                 [op |-> "read", pc |-> U64(pc), addr |-> U64(a), val |-> U64(v),
                  size |-> size])
<1> DEFINE r == Cat(Cat(a, v), pc)
           ev == [op |-> "read", pc |-> U64(pc), addr |-> U64(a), val |-> U64(v), size |-> size]
<1>1. w \in Nat
    BY DEF Widths
<1>2. r \in Seq(Byte) /\ ParseAccess("read", w, size, r) = Event(ev, <<>>)
    BY <1>1, AccessRead
<1> HIDE DEF r, ev
<1>3. PICK n \in Nat : n < 128 /\ n = 16 + size
    OBVIOUS
<1> DEFINE b == Cat(Op(n, w), r)
<1>4. Opens(b, n, w, r) /\ Op(n, w) \in Bytes(1)
    BY <1>2, <1>3, Opened
<1>5. Op(16 + size, w) \o a \o v \o pc = b
    <2>1. Op(n, w) \in Seq(Byte) /\ a \in Seq(Byte) /\ v \in Seq(Byte) /\ pc \in Seq(Byte)
        BY <1>1, <1>4, BytesType
    <2>2. Cat(Cat(Cat(Op(n, w), a), v), pc) = b
        BY <2>1, Regroup DEF r
    <2> QED
        BY <1>3, <2>2, Zenon DEF Cat
<1> HIDE DEF b
<1>6. ParsePacket(feature, b) = ParseAccess("read", w, size, r)
    BY <1>3, <1>4, OpenedRead
<1>7. b \in Seq(Byte) /\ b # <<>>
    BY <1>4 DEF Opens
<1> QED
    BY <1>2, <1>5, <1>6, <1>7, Zenon DEF Tells, ev

\* A memory hook tells the write.
LEMMA WriteTold ==
    ASSUME NEW feature, NEW w \in Widths, NEW size \in Nat, size \in {1, 2, 4, 8},
           NEW a \in Bytes(w), NEW v \in Bytes(size), NEW pc \in Bytes(w)
    PROVE  Tells(feature, Op(32 + size, w) \o a \o v \o pc,
                 [op |-> "write", pc |-> U64(pc), addr |-> U64(a), val |-> U64(v),
                  size |-> size])
<1> DEFINE r == Cat(Cat(a, v), pc)
           ev == [op |-> "write", pc |-> U64(pc), addr |-> U64(a), val |-> U64(v), size |-> size]
<1>1. w \in Nat
    BY DEF Widths
<1>2. r \in Seq(Byte) /\ ParseAccess("write", w, size, r) = Event(ev, <<>>)
    BY <1>1, AccessRead
<1> HIDE DEF r, ev
<1>3. PICK n \in Nat : n < 128 /\ n = 32 + size
    OBVIOUS
<1> DEFINE b == Cat(Op(n, w), r)
<1>4. Opens(b, n, w, r) /\ Op(n, w) \in Bytes(1)
    BY <1>2, <1>3, Opened
<1>5. Op(32 + size, w) \o a \o v \o pc = b
    <2>1. Op(n, w) \in Seq(Byte) /\ a \in Seq(Byte) /\ v \in Seq(Byte) /\ pc \in Seq(Byte)
        BY <1>1, <1>4, BytesType
    <2>2. Cat(Cat(Cat(Op(n, w), a), v), pc) = b
        BY <2>1, Regroup DEF r
    <2> QED
        BY <1>3, <2>2, Zenon DEF Cat
<1> HIDE DEF b
<1>6. ParsePacket(feature, b) = ParseAccess("write", w, size, r)
    BY <1>3, <1>4, OpenedWrite
<1>7. b \in Seq(Byte) /\ b # <<>>
    BY <1>4 DEF Opens
<1> QED
    BY <1>2, <1>5, <1>6, <1>7, Zenon DEF Tells, ev

-----------------------------------------------------------------------------
(* Longer packets: parts added at the end, each where the parser looks for it. *)

\* The v bytes of p behind the first at are s.
Has(p, at, v, s) == p \in Seq(Byte) /\ at + v <= Len(p) /\ Field(p, at, v) = s

\* A packet that begins with opcode n for words of w bytes.
Starts(p, n, w) == p \in Seq(Byte) /\ p # <<>> /\ p[1] % 128 = n /\ Wide(p) = w

\* A part stays where it is when another one follows.
LEMMA HasKept ==
    ASSUME NEW p \in Seq(Byte), NEW t \in Seq(Byte), NEW at \in Nat, NEW v \in Nat, NEW s,
           Has(p, at, v, s)
    PROVE  Has(Cat(p, t), at, v, s)
<1>1. Field(p \o t, at, v) = Field(p, at, v) /\ p \o t \in Seq(Byte)
      /\ Len(p \o t) = Len(p) + Len(t) /\ Len(p) \in Nat /\ Len(t) \in Nat
    BY Behind DEF Has
<1>2. at + v <= Len(p \o t)
    BY <1>1 DEF Has
<1> QED
    BY <1>1, <1>2, Zenon DEF Has, Cat

\* The part that is added.
LEMMA HasAdded ==
    ASSUME NEW at \in Nat, NEW v \in Nat, NEW n \in Nat, n = at + v,
           NEW p \in Bytes(at), NEW t \in Bytes(v)
    PROVE  Cat(p, t) \in Bytes(n) /\ Has(Cat(p, t), at, v, t)
<1>1. p \o t \in Bytes(n) /\ Field(p \o t, at, v) = t
    BY Grows
<1> DEFINE q == p \o t
<1>2. q \in Bytes(n) /\ Field(q, at, v) = t
    BY <1>1
<1> HIDE DEF q
<1>3. q \in Seq(Byte) /\ Len(q) = n
    BY <1>2, BytesType
<1>4. Has(q, at, v, t)
    BY <1>2, <1>3 DEF Has
<1> QED
    BY <1>2, <1>4, Zenon DEF q, Cat

\* The opcode stays in front.
LEMMA StartsKept ==
    ASSUME NEW n, NEW w, NEW p, Starts(p, n, w), NEW t \in Seq(Byte)
    PROVE  Starts(Cat(p, t), n, w)
<1>1. p \in Seq(Byte) /\ p # <<>> /\ p[1] % 128 = n /\ Wide(p) = w
    BY DEF Starts
<1> DEFINE q == p \o t
<1>2. q \in Seq(Byte) /\ q # <<>> /\ q[1] = p[1]
    BY <1>1, TailBehind, Behind
<1> HIDE DEF q
<1>3. Starts(q, n, w)
    BY <1>1, <1>2 DEF Starts, Wide
<1> QED
    BY <1>3, Zenon DEF q, Cat

\* An opcode is the start of a packet.
LEMMA StartsOp ==
    ASSUME NEW n \in Nat, n < 128, NEW w \in Widths
    PROVE  Op(n, w) \in Bytes(1) /\ Starts(Op(n, w), n, w)
<1>1. <<>> \in Seq(Byte)
    BY EmptySeq
<1>2. Opens(Cat(Op(n, w), <<>>), n, w, <<>>) /\ Op(n, w) \in Bytes(1)
    BY <1>1, Opened
<1>3. Op(n, w) \in Seq(Byte)
    BY <1>2, BytesType
<1>4. Op(n, w) \o <<>> = Op(n, w)
    BY <1>3, ConcatEmptySeq
<1>5. Cat(Op(n, w), <<>>) = Op(n, w)
    BY <1>4, Zenon DEF Cat
<1>6. Opens(Op(n, w), n, w, <<>>)
    BY <1>2, <1>5, Zenon
<1> QED
    BY <1>2, <1>6, Zenon DEF Opens, Starts

\* What the parser of the packet sees behind the opcode.
LEMMA BehindOp ==
    ASSUME NEW b \in Seq(Byte), b # <<>>
    PROVE  /\ Tail(b) \in Seq(Byte) /\ Len(b) = 1 + Len(Tail(b))
           /\ \A s : \A at \in Nat, v \in Nat :
                 Has(b, 1 + at, v, s) => Has(Tail(b), at, v, s)
<1>1. /\ Tail(b) \in Seq(Byte) /\ Len(b) \in Nat /\ Len(b) >= 1
      /\ Tail(b) = From(b, 1) /\ Len(b) = 1 + Len(Tail(b))
    <2>1. <<>> \in Seq(Byte)
        BY EmptySeq
    <2> QED
        BY <2>1, TailBehind
<1> DEFINE t == Tail(b)
<1>2. t \in Seq(Byte) /\ Len(b) = 1 + Len(t) /\ Len(t) \in Nat /\ t = From(b, 1)
    BY <1>1, LenProperties
<1> HIDE DEF t
<1>3. ASSUME NEW at \in Nat, NEW v \in Nat, NEW s, Has(b, 1 + at, v, s)
      PROVE  Has(t, at, v, s)
    <2>1. PICK of \in Nat : of = 1 + at
        OBVIOUS
    <2>2. of + v <= Len(b) /\ Field(b, of, v) = s
        BY <1>3, <2>1 DEF Has
    <2>3. Field(From(b, 1), at, v) = Field(b, of, v)
        BY <2>1, <2>2, FieldFrom
    <2>4. at + v <= Len(t)
        BY <1>2, <2>1, <2>2
    <2> QED
        BY <1>2, <2>2, <2>3, <2>4 DEF Has
<1> QED
    BY <1>2, <1>3, Zenon DEF t

\* A single byte that was added.
LEMMA HasByte ==
    ASSUME NEW p, NEW at \in Nat, NEW x \in Byte, Has(p, at, 1, <<x>>)
    PROVE  p[at + 1] = x
<1>1. Field(p, at, 1) = <<x>> /\ p \in Seq(Byte) /\ at + 1 <= Len(p) /\ 1 \in Nat
    BY DEF Has
<1>2. \A i \in 1 .. 1 : Field(p, at, 1)[i] = p[at + i]
    BY <1>1, FieldType
<1>3. <<x>>[1] = x
    OBVIOUS
<1> QED
    BY <1>1, <1>2, <1>3

\* Register hooks tell the whole block. (create_reghook, parse_payload)
LEMMA RegsTold ==
    ASSUME NEW feature, NEW w \in Widths, NEW v \in Bytes(w), NEW n \in Nat, n < Huge,
           NEW block \in Bytes(n)
    PROVE  Tells(feature, Cat(Cat(Cat(Op(1, w), Word(n, 4)), v), block),
                 [op |-> "regs", pc |-> U64(v), regs |-> block])
<1> DEFINE ev == [op |-> "regs", pc |-> U64(v), regs |-> block]
           num == Word(n, 4)
<1>1. /\ num \in Bytes(4) /\ Length(num) = n /\ w \in Nat
      /\ num \in Seq(Byte) /\ v \in Seq(Byte) /\ block \in Seq(Byte)
    BY NumberKept, BytesType DEF Widths
<1> HIDE DEF num, ev
<1>2. PICK at \in Nat, end \in Nat, all \in Nat : at = 4 + w /\ end = at + n /\ all = 1 + end
    BY <1>1
<1> DEFINE p0 == Op(1, w)
<1>3. p0 \in Bytes(1) /\ Starts(p0, 1, w)
    BY StartsOp
<1> HIDE DEF p0
<1> DEFINE p1 == Cat(p0, num)
<1>4. p1 \in Bytes(5) /\ Has(p1, 1, 4, num) /\ Starts(p1, 1, w)
    BY <1>1, <1>3, HasAdded, StartsKept
<1> HIDE DEF p1
<1> DEFINE p2 == Cat(p1, v)
<1>5. p2 \in Bytes(1 + at) /\ Has(p2, 5, w, v) /\ Has(p2, 1, 4, num) /\ Starts(p2, 1, w)
    <2>1. PICK k \in Nat : k = 1 + at /\ k = 5 + w
        BY <1>1, <1>2
    <2>2. p2 \in Bytes(k) /\ Has(p2, 5, w, v)
        BY <1>1, <1>4, <2>1, HasAdded
    <2>3. Has(p2, 1, 4, num) /\ Starts(p2, 1, w)
        BY <1>1, <1>4, HasKept, StartsKept DEF Has
    <2> QED
        BY <2>1, <2>2, <2>3
<1> HIDE DEF p2
<1> DEFINE b == Cat(p2, block)
<1>6. /\ b \in Bytes(all) /\ Has(b, 1 + at, n, block) /\ Has(b, 5, w, v)
      /\ Has(b, 1, 4, num) /\ Starts(b, 1, w)
    <2>1. PICK k \in Nat : k = 1 + at /\ all = k + n
        BY <1>2
    <2>2. b \in Bytes(all) /\ Has(b, k, n, block)
        BY <1>5, <2>1, HasAdded
    <2>3. Has(b, 5, w, v) /\ Has(b, 1, 4, num) /\ Starts(b, 1, w)
        BY <1>1, <1>5, HasKept, StartsKept DEF Has
    <2> QED
        BY <2>1, <2>2, <2>3
<1> HIDE DEF b
<1> DEFINE t == Tail(b)
<1>7. /\ b \in Seq(Byte) /\ b # <<>> /\ Len(b) = all /\ t \in Seq(Byte) /\ Len(t) = end
      /\ Has(t, at, n, block) /\ Has(t, 4, w, v) /\ Has(t, 0, 4, num)
    <2>1. b \in Seq(Byte) /\ b # <<>> /\ Len(b) = all
        BY <1>6, BytesType DEF Starts
    <2>2. /\ t \in Seq(Byte) /\ Len(b) = 1 + Len(t)
          /\ \A s : \A of \in Nat, k \in Nat : Has(b, 1 + of, k, s) => Has(t, of, k, s)
        BY <2>1, BehindOp
    <2>3. 1 + 4 = 5 /\ 1 + 0 = 1 /\ 4 \in Nat /\ 0 \in Nat
        OBVIOUS
    <2>4. Has(t, 4, w, v) /\ Has(t, 0, 4, num) /\ Has(t, at, n, block)
        BY <1>1, <1>6, <2>2, <2>3
    <2>5. Len(t) = end
        BY <1>2, <2>1, <2>2, LenProperties
    <2> QED
        BY <2>1, <2>2, <2>4, <2>5
<1>8. ParsePacket(feature, b) = ParseRegs(w, t)
    BY <1>6, OpcodeRegs, Zenon DEF Starts
<1> HIDE DEF t
<1>9. Field(t, at, n) = block /\ Field(t, 4, w) = v /\ Field(t, 0, 4) = num /\ From(t, end) = <<>>
    BY <1>7, FromEnds DEF Has
<1>10. ~(Len(t) < at) /\ ~(Len(t) < end) /\ at = 4 + w /\ end = at + n
    BY <1>2, <1>7
<1>11. ParseRegs(w, t) = Event(ev, <<>>)
    BY <1>1, <1>9, <1>10 DEF ParseRegs, ev
<1>12. Tells(feature, b, ev)
    BY <1>7, <1>8, <1>11, Zenon DEF Tells
<1> QED
    BY <1>12, Zenon DEF b, p2, p1, p0, num, ev

\* Branch hooks tell the block too, and whether the instruction ends its basic
\* block. (create_branchhook, parse_payload)
LEMMA BranchTold ==
    ASSUME NEW feature, NEW w \in Widths, NEW v \in Bytes(w), NEW n \in Nat, n < Huge,
           NEW block \in Bytes(n), NEW branch \in BOOLEAN
    PROVE  Tells(feature, Cat(Cat(Cat(Cat(Op(64, w), Word(n, 4)), v), Flag(branch)), block),
                 [op |-> "branch", pc |-> U64(v), branch |-> branch, regs |-> block])
<1> DEFINE ev == [op |-> "branch", pc |-> U64(v), branch |-> branch, regs |-> block]
           num == Word(n, 4)  x == IF branch THEN 1 ELSE 0
<1>1. /\ num \in Bytes(4) /\ Length(num) = n /\ w \in Nat
      /\ num \in Seq(Byte) /\ v \in Seq(Byte) /\ block \in Seq(Byte)
    BY NumberKept, BytesType DEF Widths
<1>2. PICK at \in Nat, end \in Nat, all \in Nat :
          at = 4 + w + 1 /\ end = at + n /\ all = 1 + end
    BY <1>1
<1>3. x \in Byte /\ Flag(branch) = <<x>> /\ (x # 0 <=> branch)
    BY DEF Byte, Flag
<1>4. <<x>> \in Bytes(1)
    BY <1>3, OneByte
<1> HIDE DEF num, ev, x
<1> DEFINE f == <<x>>
<1>5. f \in Bytes(1) /\ f \in Seq(Byte) /\ 1 \in Nat
    BY <1>4, BytesType
<1>6. ASSUME NEW p, NEW k \in Nat, Has(p, k, 1, f) PROVE p[k + 1] = x
    BY <1>3, <1>6, HasByte
<1> HIDE DEF f
<1> DEFINE p0 == Op(64, w)
<1>7. p0 \in Bytes(1) /\ Starts(p0, 64, w)
    BY StartsOp
<1> HIDE DEF p0
<1> DEFINE p1 == Cat(p0, num)
<1>8. p1 \in Bytes(5) /\ Has(p1, 1, 4, num) /\ Starts(p1, 64, w)
    BY <1>1, <1>7, HasAdded, StartsKept
<1> HIDE DEF p1
<1> DEFINE p2 == Cat(p1, v)
<1>9. p2 \in Bytes(at) /\ Has(p2, 5, w, v) /\ Has(p2, 1, 4, num) /\ Starts(p2, 64, w)
    <2>1. at = 5 + w
        BY <1>1, <1>2
    <2>2. p2 \in Bytes(at) /\ Has(p2, 5, w, v)
        BY <1>1, <1>8, <2>1, HasAdded
    <2>3. Has(p2, 1, 4, num) /\ Starts(p2, 64, w)
        BY <1>1, <1>8, HasKept, StartsKept DEF Has
    <2> QED
        BY <2>2, <2>3
<1> HIDE DEF p2
<1> DEFINE p3 == Cat(p2, f)
<1>10. /\ p3 \in Bytes(1 + at) /\ Has(p3, at, 1, f) /\ Has(p3, 5, w, v)
       /\ Has(p3, 1, 4, num) /\ Starts(p3, 64, w)
    <2>1. PICK k \in Nat : k = 1 + at /\ k = at + 1
        BY <1>2
    <2>2. p3 \in Bytes(k) /\ Has(p3, at, 1, f)
        BY <1>5, <1>9, <2>1, HasAdded
    <2>3. Has(p3, 5, w, v) /\ Has(p3, 1, 4, num) /\ Starts(p3, 64, w)
        BY <1>1, <1>5, <1>9, HasKept, StartsKept DEF Has
    <2> QED
        BY <2>1, <2>2, <2>3
<1> HIDE DEF p3
<1> DEFINE b == Cat(p3, block)
<1>11. /\ b \in Bytes(all) /\ Has(b, 1 + at, n, block) /\ Has(b, at, 1, f) /\ Has(b, 5, w, v)
       /\ Has(b, 1, 4, num) /\ Starts(b, 64, w)
    <2>1. PICK k \in Nat : k = 1 + at /\ all = k + n
        BY <1>2
    <2>2. b \in Bytes(all) /\ Has(b, k, n, block)
        BY <1>10, <2>1, HasAdded
    <2>3. Has(b, at, 1, f) /\ Has(b, 5, w, v) /\ Has(b, 1, 4, num) /\ Starts(b, 64, w)
        BY <1>1, <1>5, <1>10, HasKept, StartsKept DEF Has
    <2> QED
        BY <2>1, <2>2, <2>3
<1> HIDE DEF b
<1> DEFINE t == Tail(b)
<1>12. /\ b \in Seq(Byte) /\ b # <<>> /\ Len(b) = all /\ t \in Seq(Byte) /\ Len(t) = end
       /\ Has(t, at, n, block) /\ Has(t, 4, w, v) /\ Has(t, 0, 4, num) /\ t[at] = x
    <2>1. b \in Seq(Byte) /\ b # <<>> /\ Len(b) = all
        BY <1>11, BytesType DEF Starts
    <2>2. /\ t \in Seq(Byte) /\ Len(b) = 1 + Len(t)
          /\ \A s : \A of \in Nat, k \in Nat : Has(b, 1 + of, k, s) => Has(t, of, k, s)
        BY <2>1, BehindOp
    <2>3. PICK j \in Nat : at = 1 + j /\ at = j + 1 /\ 1 + 4 = 5 /\ 1 + 0 = 1 /\ 4 \in Nat /\ 0 \in Nat
        BY <1>1, <1>2
    <2>4. Has(t, 4, w, v) /\ Has(t, 0, 4, num) /\ Has(t, at, n, block) /\ Has(t, j, 1, f)
        BY <1>1, <1>11, <2>2, <2>3
    <2>5. Len(t) = end
        BY <1>2, <2>1, <2>2, LenProperties
    <2>6. t[at] = x
        <3> HIDE DEF t
        <3>1. t[j + 1] = x
            BY <1>6, <2>4
        <3> QED
            BY <2>3, <3>1
    <2> QED
        BY <2>1, <2>2, <2>4, <2>5, <2>6
<1>13. ParsePacket(feature, b) = ParseBranch(w, t)
    BY <1>11, OpcodeBranch, Zenon DEF Starts
<1> HIDE DEF t
<1>14. Field(t, at, n) = block /\ Field(t, 4, w) = v /\ Field(t, 0, 4) = num /\ From(t, end) = <<>>
    BY <1>12, FromEnds DEF Has
<1>15. ~(Len(t) < at) /\ ~(Len(t) < end) /\ at = 4 + w + 1 /\ end = at + n
    BY <1>2, <1>12
<1>16. (t[at] # 0) = branch
    BY <1>3, <1>12
<1>17. ParseBranch(w, t) = Event(ev, <<>>)
    BY <1>1, <1>14, <1>15, <1>16 DEF ParseBranch, ev
<1>18. Tells(feature, b, ev)
    BY <1>12, <1>13, <1>17, Zenon DEF Tells
<1>19. Flag(branch) = f
    BY <1>3, Zenon DEF f
<1> QED
    BY <1>18, <1>19, Zenon DEF b, p3, p2, p1, p0, num, ev

\* munmap's report. (cannoli_munmap, parse_payload)
LEMMA MunmapTold ==
    ASSUME NEW feature, NEW w \in Widths, NEW u \in Bytes(w), NEW v \in Bytes(w)
    PROVE  Tells(feature, Cat(Cat(Op(49, w), u), v),
                 [op |-> "munmap", addr |-> U64(u), len |-> U64(v)])
<1> DEFINE ev == [op |-> "munmap", addr |-> U64(u), len |-> U64(v)]
<1>1. w \in Nat /\ u \in Seq(Byte) /\ v \in Seq(Byte)
    BY BytesType DEF Widths
<1> HIDE DEF ev
<1>2. PICK k \in Nat, all \in Nat : k = 1 + w /\ all = k + w
    BY <1>1
<1> DEFINE p0 == Op(49, w)
<1>3. p0 \in Bytes(1) /\ Starts(p0, 49, w)
    BY StartsOp
<1> HIDE DEF p0
<1> DEFINE p1 == Cat(p0, u)
<1>4. p1 \in Bytes(k) /\ Has(p1, 1, w, u) /\ Starts(p1, 49, w)
    BY <1>1, <1>2, <1>3, HasAdded, StartsKept
<1> HIDE DEF p1
<1> DEFINE b == Cat(p1, v)
<1>5. b \in Bytes(all) /\ Has(b, k, w, v) /\ Has(b, 1, w, u) /\ Starts(b, 49, w)
    <2>1. b \in Bytes(all) /\ Has(b, k, w, v)
        BY <1>1, <1>2, <1>4, HasAdded
    <2>2. Has(b, 1, w, u) /\ Starts(b, 49, w)
        BY <1>1, <1>4, HasKept, StartsKept DEF Has
    <2> QED
        BY <2>1, <2>2
<1> HIDE DEF b
<1> DEFINE t == Tail(b)
<1>6. /\ b \in Seq(Byte) /\ b # <<>> /\ t \in Seq(Byte) /\ Len(t) = 2 * w
      /\ Has(t, w, w, v) /\ Has(t, 0, w, u)
    <2>1. b \in Seq(Byte) /\ b # <<>> /\ Len(b) = all
        BY <1>5, BytesType DEF Starts
    <2>2. /\ t \in Seq(Byte) /\ Len(b) = 1 + Len(t)
          /\ \A s : \A of \in Nat, j \in Nat : Has(b, 1 + of, j, s) => Has(t, of, j, s)
        BY <2>1, BehindOp
    <2>3. 1 + 0 = 1 /\ 0 \in Nat
        OBVIOUS
    <2>4. Has(t, 0, w, u) /\ Has(t, w, w, v)
        BY <1>1, <1>2, <1>5, <2>2, <2>3
    <2>5. Len(t) = 2 * w
        BY <1>1, <1>2, <2>1, <2>2, LenProperties
    <2> QED
        BY <2>1, <2>2, <2>4, <2>5
<1>7. ParsePacket(feature, b) = ParseMunmap(w, t)
    BY <1>5, OpcodeMunmap, Zenon DEF Starts
<1> HIDE DEF t
<1>8. Field(t, w, w) = v /\ Field(t, 0, w) = u /\ From(t, 2 * w) = <<>> /\ ~(Len(t) < 2 * w)
    <2>1. PICK m \in Nat : m = 2 * w
        BY <1>1
    <2>2. From(t, m) = <<>>
        BY <1>6, <2>1, FromEnds
    <2> QED
        BY <1>6, <2>1, <2>2 DEF Has
<1>9. ParseMunmap(w, t) = Event(ev, <<>>)
    BY <1>8 DEF ParseMunmap, ev
<1>10. Tells(feature, b, ev)
    BY <1>6, <1>7, <1>9, Zenon DEF Tells
<1> QED
    BY <1>10, Zenon DEF b, p1, p0, ev

\* All parts of p are parts of q.
Keeps(p, q) == \A s : \A of \in Nat, k \in Nat : Has(p, of, k, s) => Has(q, of, k, s)

\* Another part: everything at once.
LEMMA Grown ==
    ASSUME NEW n, NEW w, NEW at \in Nat, NEW v \in Nat, NEW m \in Nat, m = at + v,
           NEW p \in Bytes(at), Starts(p, n, w), NEW t \in Bytes(v)
    PROVE  /\ Cat(p, t) \in Bytes(m) /\ Starts(Cat(p, t), n, w) /\ Has(Cat(p, t), at, v, t)
           /\ Keeps(p, Cat(p, t))
<1>1. p \in Seq(Byte) /\ t \in Seq(Byte)
    BY BytesType
<1>2. \A s : \A of \in Nat, k \in Nat : Has(p, of, k, s) => Has(Cat(p, t), of, k, s)
    BY <1>1, HasKept
<1> QED
    BY <1>1, <1>2, HasAdded, StartsKept DEF Keeps

\* What is kept twice is kept.
LEMMA KeepsAll ==
    ASSUME NEW p, NEW q, NEW r, Keeps(p, q), Keeps(q, r)
    PROVE  Keeps(p, r)
BY Zenon DEF Keeps

\* A part that is kept.
LEMMA KeepsOne ==
    ASSUME NEW p, NEW q, Keeps(p, q), NEW s, NEW of \in Nat, NEW k \in Nat, Has(p, of, k, s)
    PROVE  Has(q, of, k, s)
BY Zenon DEF Keeps

\* A flag is one byte, and is read as what it was.
LEMMA FlagKept ==
    ASSUME NEW f \in BOOLEAN
    PROVE  /\ Flag(f) \in Bytes(1)
           /\ \A p : \A k \in Nat : Has(p, k, 1, Flag(f)) => (p[k + 1] # 0) = f
<1> DEFINE x == IF f THEN 1 ELSE 0
<1>1. x \in Byte /\ Flag(f) = <<x>> /\ (x # 0) = f
    BY DEF Byte, Flag
<1>2. <<x>> \in Bytes(1)
    BY <1>1, OneByte
<1> HIDE DEF x
<1>3. ASSUME NEW p, NEW k \in Nat, Has(p, k, 1, Flag(f)) PROVE (p[k + 1] # 0) = f
    <2>1. Has(p, k, 1, <<x>>)
        BY <1>1, <1>3, Zenon
    <2>2. p[k + 1] = x
        BY <1>1, <2>1, HasByte
    <2> QED
        BY <1>1, <2>2
<1>4. Flag(f) \in Bytes(1)
    BY <1>1, <1>2, Zenon
<1> QED
    BY <1>3, <1>4

\* mmap's report, in which the path comes last. (cannoli_mmap)
MmapBytes(w, u, v, a, r, s, x, num, o, path) ==
    Cat(Cat(Cat(Cat(Cat(Cat(Cat(Cat(Cat(Op(48, w), u), v), a), r), s), x), num), o), path)

\* Where its parts are.
MmapLaid(w, n, u, v, a, r, s, x, num, o, path, k1, k2, k3, all, b) ==
    /\ b \in Bytes(all) /\ Starts(b, 48, w) /\ Has(b, 1, w, u) /\ Has(b, k1, w, v)
    /\ Has(b, k2, 1, a) /\ Has(b, k2 + 1, 1, r)
    /\ Has(b, k2 + 2, 1, s) /\ Has(b, k2 + 3, 1, x)
    /\ Has(b, k2 + 4, 4, num) /\ Has(b, k2 + 8, w, o) /\ Has(b, k3, n, path)

MmapOffsets(w, n, k1, k2, k3, all) ==
    k1 = 1 + w /\ k2 = k1 + w /\ k3 = k2 + 8 + w /\ all = k3 + n

\* Part by part.
LEMMA MmapParts ==
    ASSUME NEW w \in Widths, NEW u \in Bytes(w), NEW v \in Bytes(w), NEW o \in Bytes(w),
           NEW a \in Bytes(1), NEW r \in Bytes(1), NEW s \in Bytes(1), NEW x \in Bytes(1),
           NEW num \in Bytes(4), NEW n \in Nat, NEW path \in Bytes(n),
           NEW k1 \in Nat, NEW k2 \in Nat, NEW k3 \in Nat, NEW all \in Nat,
           MmapOffsets(w, n, k1, k2, k3, all), NEW b, b = MmapBytes(w, u, v, a, r, s, x, num, o, path)
    PROVE  MmapLaid(w, n, u, v, a, r, s, x, num, o, path, k1, k2, k3, all, b)
<1>1. /\ w \in Nat /\ 1 \in Nat /\ 4 \in Nat
      /\ k1 = 1 + w /\ k2 = k1 + w /\ k3 = k2 + 8 + w /\ all = k3 + n
    BY DEF Widths, MmapOffsets
<1> DEFINE f1 == k2 + 1  f2 == k2 + 2  f3 == k2 + 3  f4 == k2 + 4  f8 == k2 + 8
<1>3. /\ f1 = k2 + 1 /\ f2 = k2 + 2 /\ f3 = k2 + 3 /\ f4 = k2 + 4 /\ f8 = k2 + 8
      /\ f1 \in Nat /\ f2 \in Nat /\ f3 \in Nat /\ f4 \in Nat /\ f8 \in Nat
    OBVIOUS
<1> HIDE DEF f1, f2, f3, f4, f8
<1>4. f2 = f1 + 1 /\ f3 = f2 + 1 /\ f4 = f3 + 1 /\ f8 = f4 + 4 /\ k3 = f8 + w
    BY <1>1, <1>3
<1> DEFINE p0 == Op(48, w)
<1>5. p0 \in Bytes(1) /\ Starts(p0, 48, w)
    BY StartsOp
<1> HIDE DEF p0
<1> DEFINE p1 == Cat(p0, u)
<1>6. /\ p1 \in Bytes(k1) /\ Starts(p1, 48, w) /\ Has(p1, 1, w, u)
      /\ Keeps(p0, p1)
    BY <1>1, <1>5, Grown
<1> HIDE DEF p1
<1> DEFINE p2 == Cat(p1, v)
<1>7. /\ p2 \in Bytes(k2) /\ Starts(p2, 48, w) /\ Has(p2, k1, w, v)
      /\ Keeps(p1, p2)
    BY <1>1, <1>6, Grown
<1> HIDE DEF p2
<1> DEFINE p3 == Cat(p2, a)
<1>8. /\ p3 \in Bytes(f1) /\ Starts(p3, 48, w) /\ Has(p3, k2, 1, a)
      /\ Keeps(p2, p3)
    BY <1>1, <1>3, <1>7, Grown
<1> HIDE DEF p3
<1> DEFINE p4 == Cat(p3, r)
<1>9. /\ p4 \in Bytes(f2) /\ Starts(p4, 48, w) /\ Has(p4, f1, 1, r)
      /\ Keeps(p3, p4)
    BY <1>1, <1>3, <1>4, <1>8, Grown, ZenonT(30)
<1> HIDE DEF p4
<1> DEFINE p5 == Cat(p4, s)
<1>10. /\ p5 \in Bytes(f3) /\ Starts(p5, 48, w) /\ Has(p5, f2, 1, s)
      /\ Keeps(p4, p5)
    BY <1>1, <1>3, <1>4, <1>9, Grown
<1> HIDE DEF p5
<1> DEFINE p6 == Cat(p5, x)
<1>11. /\ p6 \in Bytes(f4) /\ Starts(p6, 48, w) /\ Has(p6, f3, 1, x)
      /\ Keeps(p5, p6)
    BY <1>1, <1>3, <1>4, <1>10, Grown
<1> HIDE DEF p6
<1> DEFINE p7 == Cat(p6, num)
<1>12. /\ p7 \in Bytes(f8) /\ Starts(p7, 48, w) /\ Has(p7, f4, 4, num)
      /\ Keeps(p6, p7)
    BY <1>1, <1>3, <1>4, <1>11, Grown
<1> HIDE DEF p7
<1> DEFINE p8 == Cat(p7, o)
<1>13. /\ p8 \in Bytes(k3) /\ Starts(p8, 48, w) /\ Has(p8, f8, w, o)
      /\ Keeps(p7, p8)
    BY <1>1, <1>3, <1>4, <1>12, Grown
<1> HIDE DEF p8
<1> DEFINE p9 == Cat(p8, path)
<1>14. /\ p9 \in Bytes(all) /\ Starts(p9, 48, w) /\ Has(p9, k3, n, path)
      /\ Keeps(p8, p9)
    BY <1>1, <1>13, Grown
<1> HIDE DEF p9
<1>15. /\ Keeps(p8, p9) /\ Keeps(p7, p9) /\ Keeps(p6, p9) /\ Keeps(p5, p9)
       /\ Keeps(p4, p9) /\ Keeps(p3, p9) /\ Keeps(p2, p9) /\ Keeps(p1, p9)
    <2>1. Keeps(p7, p9)
        BY <1>13, <1>14, KeepsAll
    <2>2. Keeps(p6, p9)
        BY <1>12, <2>1, KeepsAll
    <2>3. Keeps(p5, p9)
        BY <1>11, <2>2, KeepsAll
    <2>4. Keeps(p4, p9)
        BY <1>10, <2>3, KeepsAll
    <2>5. Keeps(p3, p9)
        BY <1>9, <2>4, KeepsAll
    <2>6. Keeps(p2, p9)
        BY <1>8, <2>5, KeepsAll
    <2>7. Keeps(p1, p9)
        BY <1>7, <2>6, KeepsAll
    <2> QED
        BY <1>14, <2>1, <2>2, <2>3, <2>4, <2>5, <2>6, <2>7
<1>16. Has(p9, 1, w, u) /\ Has(p9, k1, w, v) /\ Has(p9, k2, 1, a)
    BY <1>1, <1>6, <1>7, <1>8, <1>15, KeepsOne
<1>17. Has(p9, f1, 1, r) /\ Has(p9, f2, 1, s) /\ Has(p9, f3, 1, x)
    BY <1>1, <1>3, <1>9, <1>10, <1>11, <1>15, KeepsOne
<1>18. Has(p9, f4, 4, num) /\ Has(p9, f8, w, o)
    BY <1>1, <1>3, <1>12, <1>13, <1>15, KeepsOne
<1>19. b = p9
    BY Zenon DEF MmapBytes, p9, p8, p7, p6, p5, p4, p3, p2, p1, p0
<1> QED
    BY <1>3, <1>14, <1>16, <1>17, <1>18, <1>19 DEF MmapLaid

\* mmap's report is told if its path is UTF-8. (cannoli_mmap, parse_payload)
LEMMA MmapTold ==
    ASSUME NEW feature, NEW w \in Widths,
           NEW u \in Bytes(w), NEW v \in Bytes(w), NEW o \in Bytes(w),
           NEW a \in BOOLEAN, NEW r \in BOOLEAN, NEW s \in BOOLEAN, NEW x \in BOOLEAN,
           NEW n \in Nat, n < Huge, NEW path \in Bytes(n),
           NEW b, b = MmapBytes(w, u, v, Flag(a), Flag(r), Flag(s), Flag(x), Word(n, 4), o, path)
    PROVE  /\ b \in Seq(Byte) /\ b # <<>>
           /\ ParsePacket(feature, b) =
                  IF Utf8(path)
                  THEN Event([op |-> "mmap", addr |-> U64(u), len |-> U64(v), anon |-> a,
                              read |-> r, write |-> s, exec |-> x, path |-> path,
                              offset |-> U64(o)], <<>>)
                  ELSE Ends("error")
<1> DEFINE num == Word(n, 4)
           ev == [op |-> "mmap", addr |-> U64(u), len |-> U64(v), anon |-> a, read |-> r,
                  write |-> s, exec |-> x, path |-> path, offset |-> U64(o)]
<1>1. w \in Nat /\ num \in Bytes(4) /\ Length(num) = n
    BY NumberKept DEF Widths
<1> HIDE DEF ev
<1> DEFINE fa == Flag(a)  fr == Flag(r)  fs == Flag(s)  fx == Flag(x)
<1>0. fa \in Bytes(1) /\ fr \in Bytes(1) /\ fs \in Bytes(1) /\ fx \in Bytes(1)
    BY FlagKept
<1> HIDE DEF num, fa, fr, fs, fx
<1>2. PICK k1 \in Nat, k2 \in Nat, k3 \in Nat, all \in Nat : MmapOffsets(w, n, k1, k2, k3, all)
    BY <1>1 DEF MmapOffsets
<1>3. /\ b \in Bytes(all) /\ Starts(b, 48, w) /\ Has(b, 1, w, u) /\ Has(b, k1, w, v)
      /\ Has(b, k2, 1, Flag(a)) /\ Has(b, k2 + 1, 1, Flag(r))
      /\ Has(b, k2 + 2, 1, Flag(s)) /\ Has(b, k2 + 3, 1, Flag(x))
      /\ Has(b, k2 + 4, 4, num) /\ Has(b, k2 + 8, w, o) /\ Has(b, k3, n, path)
    <2>1. b = MmapBytes(w, u, v, fa, fr, fs, fx, num, o, path)
        BY Zenon DEF num, fa, fr, fs, fx
    <2>2. MmapLaid(w, n, u, v, fa, fr, fs, fx, num, o, path, k1, k2, k3, all, b)
        BY <1>0, <1>1, <1>2, <2>1, MmapParts
    <2> QED
        BY <2>2, Zenon DEF num, fa, fr, fs, fx, MmapLaid
<1> DEFINE t == Tail(b)
<1>4. PICK fl \in Nat, at \in Nat, end \in Nat :
          fl = 2 * w /\ at = 3 * w + 8 /\ end = at + n /\ all = 1 + end
    BY <1>1, <1>2 DEF MmapOffsets
<1>5. PICK f1 \in Nat, f2 \in Nat, f3 \in Nat, f4 \in Nat, f8 \in Nat :
          f1 = fl + 1 /\ f2 = fl + 2 /\ f3 = fl + 3 /\ f4 = fl + 4 /\ f8 = fl + 8
    OBVIOUS
<1>6. /\ b \in Seq(Byte) /\ b # <<>> /\ Len(b) = all
      /\ t \in Seq(Byte) /\ Len(b) = 1 + Len(t)
      /\ \A z : \A of \in Nat, k \in Nat : Has(b, 1 + of, k, z) => Has(t, of, k, z)
    BY <1>3, BytesType, BehindOp DEF Starts
<1>7. /\ k1 = 1 + w /\ k2 = 1 + fl /\ k2 + 1 = 1 + f1 /\ k2 + 2 = 1 + f2 /\ k2 + 3 = 1 + f3
      /\ k2 + 4 = 1 + f4 /\ k2 + 8 = 1 + f8 /\ k3 = 1 + at /\ 1 = 1 + 0
    BY <1>1, <1>2, <1>4, <1>5 DEF MmapOffsets
<1> HIDE DEF t
<1>8. /\ Has(t, 0, w, u) /\ Has(t, w, w, v) /\ Has(t, fl, 1, Flag(a)) /\ Has(t, f1, 1, Flag(r))
      /\ Has(t, f2, 1, Flag(s)) /\ Has(t, f3, 1, Flag(x)) /\ Has(t, f4, 4, num)
      /\ Has(t, f8, w, o) /\ Has(t, at, n, path)
    BY <1>1, <1>3, <1>6, <1>7
<1>9. /\ (t[fl + 1] # 0) = a /\ (t[f1 + 1] # 0) = r /\ (t[f2 + 1] # 0) = s
      /\ (t[f3 + 1] # 0) = x
    <2>1. \A f \in BOOLEAN : \A p : \A k \in Nat : Has(p, k, 1, Flag(f)) => (p[k + 1] # 0) = f
        BY FlagKept
    <2>2. /\ Has(t, fl, 1, Flag(a)) /\ Has(t, f1, 1, Flag(r)) /\ Has(t, f2, 1, Flag(s))
          /\ Has(t, f3, 1, Flag(x))
        BY <1>8
    <2> QED
        BY <2>1, <2>2, Zenon
<1>10. (t[fl + 2] # 0) = r /\ (t[fl + 3] # 0) = s /\ (t[fl + 4] # 0) = x
    <2>1. f1 + 1 = fl + 2 /\ f2 + 1 = fl + 3 /\ f3 + 1 = fl + 4
        BY <1>5
    <2> QED
        BY <1>9, <2>1
<1>11. Len(t) = end /\ From(t, end) = <<>>
    <2>1. t \in Seq(Byte) /\ Len(b) = all /\ Len(b) = 1 + Len(t)
        BY <1>6
    <2>2. Len(t) = end
        BY <1>4, <2>1, LenProperties, SMTT(30)
    <2> QED
        BY <2>1, <2>2, FromEnds
<1>12. ~(Len(t) < at) /\ ~(Len(t) < end)
    BY <1>4, <1>11
<1>13. ParsePacket(feature, b) = ParseMmap(w, t)
    BY <1>3, OpcodeMmap, Zenon DEF Starts, t
<1>14. /\ Field(t, 0, w) = u /\ Field(t, w, w) = v /\ Field(t, f4, 4) = num
       /\ Field(t, f8, w) = o /\ Field(t, at, n) = path
    BY <1>8 DEF Has
<1>15. ParseMmap(w, t) = IF Utf8(path) THEN Event(ev, <<>>) ELSE Ends("error")
    <2>1. Field(t, 2 * w + 4, 4) = num /\ Field(t, 2 * w + 8, w) = o /\ Field(t, 3 * w + 8, n) = path
        BY <1>4, <1>5, <1>14
    <2>2. ParseMmap(w, t) =
            IF Len(t) < at \/ Len(t) < at + n \/ ~Utf8(path) THEN Ends("error")
            ELSE Event([op |-> "mmap", addr |-> U64(u), len |-> U64(v),
                        anon |-> t[fl + 1] # 0, read |-> t[fl + 2] # 0,
                        write |-> t[fl + 3] # 0, exec |-> t[fl + 4] # 0, path |-> path,
                        offset |-> U64(o)], From(t, at + n))
        BY <1>1, <1>4, <1>14, <2>1, Zenon DEF ParseMmap
    <2>3. at + n = end
        BY <1>4
    <2> QED
        BY <1>9, <1>10, <1>11, <1>12, <2>2, <2>3 DEF ev
<1> QED
    BY <1>6, <1>13, <1>15, Zenon DEF ev


\* A byte in front.
LEMMA ByteBefore ==
    ASSUME NEW x \in Byte, NEW t \in Seq(Byte)
    PROVE  /\ Cat(<<x>>, t) \in Seq(Byte) /\ Cat(<<x>>, t) # <<>> /\ Tail(Cat(<<x>>, t)) = t
           /\ Cat(<<x>>, t)[1] = x
<1> DEFINE b == <<x>> \o t
<1>1. b \in Seq(Byte) /\ b # <<>> /\ Tail(b) = t /\ b[1] = x
    OBVIOUS
<1>2. Cat(<<x>>, t) = b
    BY Zenon DEF Cat
<1> HIDE DEF b
<1> QED
    BY <1>1, <1>2

\* Nothing in front, or nothing behind.
LEMMA NothingBefore ==
    ASSUME NEW t \in Seq(Byte)
    PROVE  Cat(<<>>, t) = t /\ Cat(t, <<>>) = t
BY DEF Cat

\* The first part of two, and the rest behind it.
LEMMA FirstPart ==
    ASSUME NEW n \in Nat, NEW s \in Bytes(n), NEW t \in Seq(Byte)
    PROVE  /\ Cat(s, t) \in Seq(Byte) /\ ~(Len(Cat(s, t)) < n)
           /\ Field(Cat(s, t), 0, n) = s /\ From(Cat(s, t), n) = t
<1>1. s \in Seq(Byte) /\ Len(s) = n /\ 0 + n <= Len(s) /\ n <= Len(s) /\ Len(t) \in Nat
    BY BytesType, LenProperties
<1>2. Field(s, 0, n) = s /\ From(s, n) = <<>>
    BY WholeBytes
<1> DEFINE b == s \o t
<1>3. b \in Seq(Byte) /\ Len(b) = Len(s) + Len(t)
    BY <1>1
<1> HIDE DEF b
<1>4. Field(b, 0, n) = Field(s, 0, n)
    BY <1>1, FieldLeft DEF b
<1>5. From(b, n) = From(s, n) \o t
    BY <1>1, FromConcat DEF b
<1>6. <<>> \o t = t
    OBVIOUS
<1>7. Field(b, 0, n) = s /\ From(b, n) = t
    BY <1>2, <1>4, <1>5, <1>6, Zenon
<1>8. ~(Len(b) < n)
    BY <1>1, <1>3
<1> QED
    BY <1>3, <1>7, <1>8, Zenon DEF b, Cat

\* A parameter of a system call, all of it and nothing else.
Speaks(p, val) == p \in Seq(Byte) /\ Param(p) = Event(val, <<>>)

\* What a parameter says, it also says in front of others.
LEMMA SpeaksBefore ==
    ASSUME NEW p, NEW val, Speaks(p, val), NEW t \in Seq(Byte)
    PROVE  Cat(p, t) \in Seq(Byte) /\ Param(Cat(p, t)) = Event(val, t)
<1>1. p \in Seq(Byte) /\ Param(p).out = "event" /\ Param(p).ev = val /\ Param(p).rest = <<>>
    BY DEF Speaks, Event
<1>2. Param(p \o t) = Event(val, <<>> \o t)
    BY <1>1, ParamExtends
<1>3. <<>> \o t = t /\ p \o t \in Seq(Byte)
    BY <1>1
<1> QED
    BY <1>2, <1>3, Zenon DEF Cat

\* A number. (IntParam, SyscallParam::from)
LEMMA IntTold ==
    ASSUME NEW v \in Words
    PROVE  Speaks(IntParam(v), [type |-> SyscallParamType.Int, val |-> v])
<1> DEFINE p == Cat(<<3>>, v)
<1>1. 3 \in Byte /\ v \in Bytes(8) /\ v \in Seq(Byte) /\ 8 \in Nat
    BY BytesType DEF Byte, Words
<1>2. p \in Seq(Byte) /\ p # <<>> /\ Tail(p) = v /\ p[1] = 3
    BY <1>1, ByteBefore
<1>3. Field(v, 0, 8) = v /\ From(v, 8) = <<>> /\ Len(v) = 8
    BY <1>1, WholeBytes, BytesType
<1>4. IntParam(v) = p
    BY DEF IntParam, SyscallParamType, Cat
<1> HIDE DEF p
<1>5. Param(p) = Event([type |-> p[1], val |-> Field(Tail(p), 0, 8)], From(Tail(p), 8))
    BY <1>2, <1>3, ParamInt
<1>6. SyscallParamType.Int = 3
    BY DEF SyscallParamType
<1>7. Param(p) = Event([type |-> SyscallParamType.Int, val |-> v], <<>>)
    BY <1>2, <1>3, <1>5, <1>6, Zenon
<1> QED
    BY <1>2, <1>4, <1>7, Zenon DEF Speaks

\* What a call returned, as the number of bytes behind the address: four of its
\* bytes are enough.
LEMMA LowLength ==
    ASSUME NEW v \in Words, Length(v) < Huge
    PROVE  Low(v, 4) \in Bytes(4) /\ Length(Low(v, 4)) = Length(v) /\ Length(v) \in Nat
<1>1. v \in Bytes(8) /\ v \in Seq(Byte) /\ Len(v) = 8
    BY BytesType DEF Words
<1> DEFINE l == Low(v, 4)
<1>2. l \in Bytes(4) /\ \A i \in 1 .. 4 : l[i] = v[i]
    BY <1>1, LowBytes
<1> HIDE DEF l
<1>3. Len(l) = 4 /\ l[1] = v[1] /\ l[2] = v[2] /\ l[3] = v[3] /\ l[4] = v[4]
    <2>1. Len(l) = 4
        BY <1>2, BytesType
    <2>2. 1 \in 1 .. 4 /\ 2 \in 1 .. 4 /\ 3 \in 1 .. 4 /\ 4 \in 1 .. 4
        OBVIOUS
    <2>3. l[1] = v[1] /\ l[2] = v[2] /\ l[3] = v[3] /\ l[4] = v[4]
        BY <1>2, <2>2, Zenon
    <2> QED
        BY <2>1, <2>3, Zenon
<1>4. \A i \in 4 .. 8 : v[i] = 0
    BY <1>1 DEF Length, Huge
<1>5. Length(v) = v[1] + 256 * v[2] + 65536 * v[3]
    BY <1>1, <1>4 DEF Length
<1>6. \A i \in 4 .. 4 : l[i] = 0
    BY <1>3, <1>4
<1>7. Length(l) = l[1] + 256 * l[2] + 65536 * l[3]
    BY <1>3, <1>6 DEF Length
<1>8. Length(l) = Length(v)
    <2>1. l[1] + 256 * l[2] + 65536 * l[3] = v[1] + 256 * v[2] + 65536 * v[3]
        BY <1>3
    <2> QED
        BY <1>5, <1>7, <2>1, SMT
<1>9. Length(v) \in Nat
    <2>1. Len(v) >= 3
        BY <1>1
    <2> QED
        BY <1>1, <2>1, LengthType
<1> QED
    BY <1>2, <1>8, <1>9, Zenon DEF l

\* A buffer. (RawPtrParam, SyscallParam::from)
LEMMA RawPtrTold ==
    ASSUME NEW at \in Words, NEW ret \in Words, NEW n \in Nat, n = Length(ret), n < Huge,
           NEW data \in Bytes(n)
    PROVE  Speaks(RawPtrParam(at, ret, data),
                  [type |-> SyscallParamType.RawPtr, addr |-> at, data |-> data])
<1> DEFINE num == Low(ret, 4)
<1>1. num \in Bytes(4) /\ Length(num) = n
    BY LowLength
<1>2. 4 \in Byte /\ at \in Bytes(8)
    BY DEF Byte, Words
<1>3. at \in Seq(Byte) /\ num \in Seq(Byte) /\ data \in Seq(Byte)
    BY <1>1, <1>2, BytesType
<1> DEFINE h == <<4>>
<1>4. RawPtrParam(at, ret, data) = Cat(Cat(Cat(h, at), num), data)
    BY DEF RawPtrParam, SyscallParamType, Cat
<1>5. h \in Seq(Byte)
    BY <1>2
<1> HIDE DEF num, h
<1> DEFINE t == Cat(Cat(at, num), data)
<1> HIDE DEF t
<1>6. Cat(Cat(Cat(h, at), num), data) = Cat(h, t)
    <2>1. Cat(Cat(Cat(h, at), num), data) = Cat(h, Cat(Cat(at, num), data))
        BY <1>3, <1>5, Regroup
    <2> QED
        BY <2>1, Zenon DEF t
<1>7. PICK all \in Nat : all = 12 + n
    OBVIOUS
<1>8. 12 = 8 + 4 /\ 8 \in Nat /\ 4 \in Nat /\ 12 \in Nat
    OBVIOUS
<1>9. t \in Bytes(all) /\ Field(t, 0, 8) = at /\ Field(t, 8, 4) = num /\ Field(t, 12, n) = data
    <2> USE DEF t
    <2> QED
        BY <1>1, <1>2, <1>7, <1>8, ThreeParts
<1>10. t \in Seq(Byte) /\ Len(t) = all /\ From(t, all) = <<>>
    BY <1>9, BytesType, WholeBytes
<1> DEFINE p == Cat(h, t)
<1>11. p \in Seq(Byte) /\ p # <<>> /\ Tail(p) = t /\ p[1] = 4
    BY <1>2, <1>10, ByteBefore DEF h
<1> HIDE DEF p
<1>12. Len(t) >= 12 /\ Len(t) >= 12 + Length(Field(t, 8, 4)) /\ 12 + Length(Field(t, 8, 4)) = all
    BY <1>1, <1>7, <1>9, <1>10
<1>13. Param(p) = Event([type |-> p[1], addr |-> Field(Tail(p), 0, 8),
                         data |-> Field(Tail(p), 12, Length(Field(Tail(p), 8, 4)))],
                        From(Tail(p), 12 + Length(Field(Tail(p), 8, 4))))
    BY <1>11, <1>12, ParamRawPtr
<1>14. SyscallParamType.RawPtr = 4
    BY DEF SyscallParamType
<1>15. Param(p) = Event([type |-> SyscallParamType.RawPtr, addr |-> at, data |-> data], <<>>)
    BY <1>1, <1>9, <1>10, <1>11, <1>12, <1>13, <1>14, Zenon
<1> QED
    BY <1>4, <1>6, <1>11, <1>15, Zenon DEF Speaks, p

\* Three values, one appended after the other.
LEMMA ThreeAppended ==
    ASSUME NEW v1, NEW v2, NEW v3
    PROVE  Append(Append(Append(<<>>, v1), v2), v3) = <<v1, v2, v3>>
<1> DEFINE S == {v1, v2, v3}  e1 == Append(<<>>, v1)  e2 == Append(e1, v2)  e3 == Append(e2, v3)
           t == <<v1, v2, v3>>
<1>1. v1 \in S /\ v2 \in S /\ v3 \in S
    OBVIOUS
<1>2. t \in Seq(S) /\ Len(t) = 3 /\ t[1] = v1 /\ t[2] = v2 /\ t[3] = v3
    OBVIOUS
<1> HIDE DEF S, t
<1>3. e1 \in Seq(S) /\ Len(e1) = 1 /\ e1[1] = v1
    BY <1>1
<1> HIDE DEF e1
<1>4. e2 \in Seq(S) /\ Len(e2) = 2 /\ e2[1] = v1 /\ e2[2] = v2
    BY <1>1, <1>3, AppendProperties
<1> HIDE DEF e2
<1>5. e3 \in Seq(S) /\ Len(e3) = 3 /\ e3[1] = v1 /\ e3[2] = v2 /\ e3[3] = v3
    <2>1. /\ e3 \in Seq(S) /\ Len(e3) = Len(e2) + 1 /\ e3[Len(e2) + 1] = v3
          /\ \A i \in 1 .. Len(e2) : e3[i] = e2[i]
        <3>1. \A s \in Seq(S) : \A e \in S :
                 /\ Append(s, e) \in Seq(S) /\ Len(Append(s, e)) = Len(s) + 1
                 /\ Append(s, e)[Len(s) + 1] = e
                 /\ \A i \in 1 .. Len(s) : Append(s, e)[i] = s[i]
            <4> HIDE DEF e3
            <4> QED
                BY AppendProperties
        <3> QED
            BY <1>1, <1>4, <3>1, Zenon
    <2> HIDE DEF e3
    <2>2. Len(e2) + 1 = 3 /\ 1 \in 1 .. Len(e2) /\ 2 \in 1 .. Len(e2)
        BY <1>4
    <2> QED
        BY <1>4, <2>1, <2>2, Zenon
<1> HIDE DEF e3
<1>6. \A i \in 1 .. 3 : e3[i] = t[i]
    BY <1>2, <1>5
<1>7. e3 = t
    BY <1>2, <1>5, <1>6, SeqEqual
<1> QED
    BY <1>7, Zenon DEF e1, e2, e3, t

\* Three parameters, one after the other.
LEMMA ThreeParams ==
    ASSUME NEW p1, NEW p2, NEW p3, NEW v1, NEW v2, NEW v3,
           Speaks(p1, v1), Speaks(p2, v2), Speaks(p3, v3)
    PROVE  /\ Cat(p1, Cat(p2, p3)) \in Seq(Byte)
           /\ Params(3, Cat(p1, Cat(p2, p3))) = Event(<<v1, v2, v3>>, <<>>)
<1>1. p3 \in Seq(Byte) /\ Param(p3) = Event(v3, <<>>)
    BY DEF Speaks
<1> DEFINE t2 == Cat(p2, p3)
<1>2. t2 \in Seq(Byte) /\ Param(t2) = Event(v2, p3)
    BY <1>1, SpeaksBefore
<1> HIDE DEF t2
<1> DEFINE t1 == Cat(p1, t2)
<1>3. t1 \in Seq(Byte) /\ Param(t1) = Event(v1, t2)
    BY <1>2, SpeaksBefore
<1> HIDE DEF t1
<1>4. PICK u : /\ u[0] = Event(<<>>, t1)
               /\ \A k \in 1 .. 3 : u[k] = NextParam(u[k - 1])
               /\ Params(3, t1) = u[3]
    BY ParamsSteps
<1>5. \A e, b, v, r : Param(b) = Event(v, r) => NextParam(Event(e, b)) = Event(Append(e, v), r)
    BY DEF NextParam, Event
<1>6. u[1] = NextParam(u[0]) /\ u[2] = NextParam(u[1]) /\ u[3] = NextParam(u[2])
    BY <1>4
<1> DEFINE e0 == <<>>  e1 == Append(e0, v1)  e2 == Append(e1, v2)  e3 == Append(e2, v3)
<1>7. u[0] = Event(e0, t1) /\ Params(3, t1) = u[3]
    BY <1>4, Zenon
<1>8. /\ NextParam(Event(e0, t1)) = Event(e1, t2) /\ NextParam(Event(e1, t2)) = Event(e2, p3)
      /\ NextParam(Event(e2, p3)) = Event(e3, <<>>)
    <2> HIDE DEF e0
    <2>1. NextParam(Event(e0, t1)) = Event(e1, t2)
        BY <1>3, <1>5
    <2> HIDE DEF e1
    <2>2. NextParam(Event(e1, t2)) = Event(e2, p3)
        BY <1>2, <1>5
    <2> HIDE DEF e2
    <2>3. NextParam(Event(e2, p3)) = Event(e3, <<>>)
        BY <1>1, <1>5
    <2> QED
        BY <2>1, <2>2, <2>3
<1> HIDE DEF e1, e2, e3
<1>9. u[3] = Event(e3, <<>>)
    BY <1>6, <1>7, <1>8, Zenon
<1>10. e3 = <<v1, v2, v3>>
    BY ThreeAppended DEF e1, e2, e3
<1>11. Params(3, t1) = Event(<<v1, v2, v3>>, <<>>)
    BY <1>7, <1>9, <1>10, Zenon
<1> QED
    BY <1>3, <1>11, Zenon DEF t1, t2

\* A system call of three parameters. (cannoli_syscall_*, parse_payload)
CallBytes(w, num, ret, p1, p2, p3) ==
    Cat(Cat(Cat(Cat(Cat(Cat(Op(80, w), num), ret), Word(3, 4)), p1), p2), p3)

\* Its parts are sequences.
CallParts(h, num, ret, cnt, p1, p2, p3) ==
    /\ IsSeq(h) /\ IsSeq(num) /\ IsSeq(ret) /\ IsSeq(cnt) /\ IsSeq(p1) /\ IsSeq(p2)
    /\ IsSeq(p3)

\* A call's parts, grouped from behind, as the parser takes them.
LEMMA CallGrouped ==
    ASSUME NEW h, NEW num, NEW ret, NEW cnt, NEW p1, NEW p2, NEW p3,
           CallParts(h, num, ret, cnt, p1, p2, p3)
    PROVE  Cat(Cat(Cat(Cat(Cat(Cat(h, num), ret), cnt), p1), p2), p3) =
               Cat(h, Cat(num, Cat(ret, Cat(cnt, Cat(p1, Cat(p2, p3))))))
<1>1. /\ IsSeq(h) /\ IsSeq(num) /\ IsSeq(ret) /\ IsSeq(cnt) /\ IsSeq(p1) /\ IsSeq(p2)
      /\ IsSeq(p3)
    BY DEF CallParts
<1>2. \A s, t, u : IsSeq(s) /\ IsSeq(t) /\ IsSeq(u) =>
          Cat(Cat(s, t), u) = Cat(s, Cat(t, u)) /\ IsSeq(Cat(s, t))
    BY CatAssoc
<1> DEFINE a1 == Cat(h, num)  a2 == Cat(a1, ret)  a3 == Cat(a2, cnt)  a4 == Cat(a3, p1)
           b4 == Cat(p2, p3)  b3 == Cat(p1, b4)  b2 == Cat(cnt, b3)  b1 == Cat(ret, b2)
           b0 == Cat(num, b1)
<1>3. IsSeq(a1) /\ IsSeq(a2) /\ IsSeq(a3) /\ IsSeq(a4)
    BY <1>1, <1>2
<1>4. IsSeq(b4) /\ IsSeq(b3) /\ IsSeq(b2) /\ IsSeq(b1)
    BY <1>1, <1>2
<1>5. Cat(Cat(a4, p2), p3) = Cat(a4, b4) /\ Cat(a4, b4) = Cat(a3, b3)
    BY <1>1, <1>2, <1>3, <1>4
<1>6. Cat(a3, b3) = Cat(a2, b2) /\ Cat(a2, b2) = Cat(a1, b1) /\ Cat(a1, b1) = Cat(h, b0)
    BY <1>1, <1>2, <1>3, <1>4
<1> QED
    BY <1>5, <1>6, Zenon

\* A handled call of three parameters is told. (parse_payload)
LEMMA CallTold ==
    ASSUME NEW feature, NEW w \in Widths, NEW n \in Nat, n < Huge,
           HostSyscallNum(feature, n) # "NotHandled",
           NEW ret, NEW p1, NEW p2, NEW p3, NEW v0, NEW v1, NEW v2, NEW v3,
           Speaks(ret, v0), Speaks(p1, v1), Speaks(p2, v2), Speaks(p3, v3)
    PROVE  Tells(feature, CallBytes(w, Word(n, 4), ret, p1, p2, p3),
                 [op |-> "syscall", num |-> HostSyscallNum(feature, n), ret |-> v0,
                  params |-> <<v1, v2, v3>>])
<1> DEFINE num == Word(n, 4)  cnt == Word(3, 4)
           ev == [op |-> "syscall", num |-> HostSyscallNum(feature, n), ret |-> v0,
                  params |-> <<v1, v2, v3>>]
<1>1. /\ num \in Bytes(4) /\ Length(num) = n /\ cnt \in Bytes(4) /\ Length(cnt) = 3
      /\ 3 \in Nat /\ 4 \in Nat
    BY NumberKept DEF Huge
<1> HIDE DEF num, cnt
<1>2. num \in Seq(Byte) /\ cnt \in Seq(Byte)
    BY <1>1, BytesType
<1>3. ret \in Seq(Byte) /\ p1 \in Seq(Byte) /\ p2 \in Seq(Byte) /\ p3 \in Seq(Byte)
    BY DEF Speaks
<1> DEFINE y == Cat(p1, Cat(p2, p3))
<1>4. y \in Seq(Byte) /\ Params(3, y) = Event(<<v1, v2, v3>>, <<>>)
    BY ThreeParams
<1> HIDE DEF y
<1> DEFINE x == Cat(cnt, y)
<1>5. x \in Seq(Byte) /\ ~(Len(x) < 4) /\ Field(x, 0, 4) = cnt /\ From(x, 4) = y
    BY <1>1, <1>4, FirstPart
<1> HIDE DEF x
<1> DEFINE r == Cat(ret, x)
<1>6. r \in Seq(Byte) /\ Param(r) = Event(v0, x)
    BY <1>5, SpeaksBefore
<1> HIDE DEF r
<1> DEFINE t == Cat(num, r)
<1>7. t \in Seq(Byte) /\ ~(Len(t) < 4) /\ Field(t, 0, 4) = num /\ From(t, 4) = r
    BY <1>1, <1>6, FirstPart
<1> HIDE DEF t
<1> DEFINE b == Cat(Op(80, w), t)
<1>8. Opens(b, 80, w, t)
    BY <1>7, Opened
<1> HIDE DEF b
<1>9. ParsePacket(feature, b) = ParseSyscall(feature, t)
    BY <1>8, OpcodeSyscall DEF Opens
<1>10. CallNum(feature, t) = HostSyscallNum(feature, n) /\ CallRet(t) = Event(v0, x)
    BY <1>1, <1>6, <1>7, Zenon DEF CallNum, CallRet
<1>11. CallRet(t).out = "event" /\ CallRet(t).ev = v0 /\ CallRet(t).rest = x
    BY <1>10 DEF Event
<1>12. ~(Len(CallRet(t).rest) < 4) /\ CallParams(t) = Event(<<v1, v2, v3>>, <<>>)
    BY <1>1, <1>4, <1>5, <1>11, Zenon DEF CallParams
<1>13. CallParams(t).out = "event" /\ CallParams(t).ev = <<v1, v2, v3>> /\ CallParams(t).rest = <<>>
    BY <1>12 DEF Event
<1>14. IsCall(feature, t)
    BY <1>7, <1>10, <1>11, <1>12, <1>13, Zenon DEF IsCall
<1>15. ParseSyscall(feature, t) = Event(ev, <<>>)
    BY <1>10, <1>11, <1>13, <1>14, SyscallEvent, Zenon
<1>16. Tells(feature, b, ev)
    BY <1>8, <1>9, <1>15, Zenon DEF Opens, Tells
<1>17. Op(80, w) \in Seq(Byte)
    BY <1>7, Opened, BytesType
<1>18. Cat(Cat(Cat(Cat(Cat(Cat(Op(80, w), num), ret), cnt), p1), p2), p3) = b
    <2>1. CallParts(Op(80, w), num, ret, cnt, p1, p2, p3)
        BY <1>2, <1>3, <1>17 DEF CallParts, IsSeq
    <2>2. Cat(Cat(Cat(Cat(Cat(Cat(Op(80, w), num), ret), cnt), p1), p2), p3) =
              Cat(Op(80, w), Cat(num, Cat(ret, Cat(cnt, Cat(p1, Cat(p2, p3))))))
        BY <2>1, CallGrouped
    <2> QED
        BY <2>2, Zenon DEF b, t, r, x, y
<1> QED
    BY <1>16, <1>18, Zenon DEF CallBytes, num, cnt, ev

-----------------------------------------------------------------------------
(* The reports of system calls. *)

\* A handled call, as three values and a buffer, in some order.
IntVals(v) == [type |-> SyscallParamType.Int, val |-> v]
BufferVal(at, data) == [type |-> SyscallParamType.RawPtr, addr |-> at, data |-> data]

\* The report of a handled read is one event: what it returned, the descriptor,
\* the bytes that were read and the count. (cannoli_syscall_read, parse_payload)
THEOREM ReadReported ==
    ASSUME NEW feature, NEW w \in Widths, NEW num \in Nat, num < Huge,
           HostSyscallNum(feature, num) # "NotHandled",
           NEW ret \in Words, NEW n \in Nat, n = Length(ret), n < Huge, NEW data \in Bytes(n),
           NEW args, args[1] \in Words, args[2] \in Words, args[3] \in Words
    PROVE  Tells(feature, ReadPacket(w, Word(num, 4), ret, args, data),
                 [op |-> "syscall", num |-> HostSyscallNum(feature, num), ret |-> IntVals(ret),
                  params |-> <<IntVals(args[1]), BufferVal(args[2], data), IntVals(args[3])>>])
<1> DEFINE a1 == args[1]  a2 == args[2]  a3 == args[3]
           p0 == IntParam(ret)  p1 == IntParam(a1)  p2 == RawPtrParam(a2, ret, data)
           p3 == IntParam(a3)
<1>1. a1 \in Words /\ a2 \in Words /\ a3 \in Words
    OBVIOUS
<1> HIDE DEF a1, a2, a3
<1>2. Speaks(p0, IntVals(ret)) /\ Speaks(p1, IntVals(a1)) /\ Speaks(p3, IntVals(a3))
    BY <1>1, IntTold DEF IntVals
<1>3. Speaks(p2, BufferVal(a2, data))
    BY <1>1, RawPtrTold DEF BufferVal
<1> HIDE DEF p0, p1, p2, p3
<1>4. Tells(feature, CallBytes(w, Word(num, 4), p0, p1, p2, p3),
            [op |-> "syscall", num |-> HostSyscallNum(feature, num), ret |-> IntVals(ret),
             params |-> <<IntVals(a1), BufferVal(a2, data), IntVals(a3)>>])
    BY <1>2, <1>3, CallTold
<1>5. ReadPacket(w, Word(num, 4), ret, args, data) = CallBytes(w, Word(num, 4), p0, p1, p2, p3)
    BY Zenon DEF ReadPacket, CallBytes, Cat, p0, p1, p2, p3, a1, a2, a3
<1> QED
    BY <1>4, <1>5, Zenon DEF a1, a2, a3

\* The report of a handled getrandom. (cannoli_syscall_getrandom, parse_payload)
THEOREM GetrandomReported ==
    ASSUME NEW feature, NEW w \in Widths, NEW num \in Nat, num < Huge,
           HostSyscallNum(feature, num) # "NotHandled",
           NEW ret \in Words, NEW n \in Nat, n = Length(ret), n < Huge, NEW data \in Bytes(n),
           NEW args, args[1] \in Words, args[2] \in Words, args[3] \in Words
    PROVE  Tells(feature, GetrandomPacket(w, Word(num, 4), ret, args, data),
                 [op |-> "syscall", num |-> HostSyscallNum(feature, num), ret |-> IntVals(ret),
                  params |-> <<BufferVal(args[1], data), IntVals(args[2]), IntVals(args[3])>>])
<1> DEFINE a1 == args[1]  a2 == args[2]  a3 == args[3]
           p0 == IntParam(ret)  p1 == RawPtrParam(a1, ret, data)  p2 == IntParam(a2)
           p3 == IntParam(a3)
<1>1. a1 \in Words /\ a2 \in Words /\ a3 \in Words
    OBVIOUS
<1> HIDE DEF a1, a2, a3
<1>2. Speaks(p0, IntVals(ret)) /\ Speaks(p2, IntVals(a2)) /\ Speaks(p3, IntVals(a3))
    BY <1>1, IntTold DEF IntVals
<1>3. Speaks(p1, BufferVal(a1, data))
    BY <1>1, RawPtrTold DEF BufferVal
<1> HIDE DEF p0, p1, p2, p3
<1>4. Tells(feature, CallBytes(w, Word(num, 4), p0, p1, p2, p3),
            [op |-> "syscall", num |-> HostSyscallNum(feature, num), ret |-> IntVals(ret),
             params |-> <<BufferVal(a1, data), IntVals(a2), IntVals(a3)>>])
    BY <1>2, <1>3, CallTold
<1>5. GetrandomPacket(w, Word(num, 4), ret, args, data) =
          CallBytes(w, Word(num, 4), p0, p1, p2, p3)
    BY Zenon DEF GetrandomPacket, CallBytes, Cat, p0, p1, p2, p3, a1, a2, a3
<1> QED
    BY <1>4, <1>5, Zenon DEF a1, a2, a3

\* The report of munmap. (cannoli_munmap, parse_payload)
THEOREM MunmapReported ==
    ASSUME NEW feature, NEW w \in Widths, NEW addr \in Words, NEW len \in Words,
           Fits(addr, w), Fits(len, w)
    PROVE  Tells(feature, MunmapPacket(w, addr, len),
                 [op |-> "munmap", addr |-> addr, len |-> len])
<1> DEFINE u == Low(addr, w)  v == Low(len, w)
<1>1. w \in {4, 8}
    BY DEF Widths
<1>2. u \in Bytes(w) /\ v \in Bytes(w) /\ U64(u) = addr /\ U64(v) = len
    BY <1>1, WordKept
<1> HIDE DEF u, v
<1>3. Tells(feature, Cat(Cat(Op(49, w), u), v), [op |-> "munmap", addr |-> U64(u), len |-> U64(v)])
    BY <1>2, MunmapTold
<1> QED
    BY <1>2, <1>3, Zenon DEF MunmapPacket, Cat, u, v

\* The report of mmap; a path that is not UTF-8 is an error. (cannoli_mmap,
\* parse_payload)
THEOREM MmapReported ==
    ASSUME NEW feature, NEW w \in Widths, NEW r,
           r.addr \in Words, r.len \in Words, r.offset \in Words,
           Fits(r.addr, w), Fits(r.len, w), Fits(r.offset, w),
           r.anon \in BOOLEAN, r.read \in BOOLEAN, r.write \in BOOLEAN, r.exec \in BOOLEAN,
           r.path \in Seq(Byte), Len(r.path) < Huge
    PROVE  /\ MmapPacket(w, r) \in Seq(Byte) /\ MmapPacket(w, r) # <<>>
           /\ ParsePacket(feature, MmapPacket(w, r)) =
                  IF Utf8(r.path)
                  THEN Event([op |-> "mmap", addr |-> r.addr, len |-> r.len, anon |-> r.anon,
                              read |-> r.read, write |-> r.write, exec |-> r.exec,
                              path |-> r.path, offset |-> r.offset], <<>>)
                  ELSE Ends("error")
<1> DEFINE addr == r.addr  len == r.len  offset == r.offset  anon == r.anon  read == r.read
           write == r.write  exec == r.exec  path == r.path
<1>1. /\ addr \in Words /\ len \in Words /\ offset \in Words
      /\ Fits(addr, w) /\ Fits(len, w) /\ Fits(offset, w)
      /\ anon \in BOOLEAN /\ read \in BOOLEAN /\ write \in BOOLEAN /\ exec \in BOOLEAN
      /\ path \in Seq(Byte) /\ Len(path) < Huge /\ w \in {4, 8}
    BY DEF Widths
<1> HIDE DEF addr, len, offset, anon, read, write, exec, path
<1> DEFINE u == Low(addr, w)  v == Low(len, w)  o == Low(offset, w)
<1>2. /\ u \in Bytes(w) /\ v \in Bytes(w) /\ o \in Bytes(w)
      /\ U64(u) = addr /\ U64(v) = len /\ U64(o) = offset
    BY <1>1, WordKept
<1> HIDE DEF u, v, o
<1> DEFINE n == Len(path)
<1>3. n \in Nat /\ n < Huge /\ path \in Bytes(n)
    BY <1>1, BytesMade
<1> HIDE DEF n
<1> DEFINE b == MmapBytes(w, u, v, Flag(anon), Flag(read), Flag(write), Flag(exec),
                          Word(n, 4), o, path)
<1>4. b = MmapBytes(w, u, v, Flag(anon), Flag(read), Flag(write), Flag(exec), Word(n, 4), o, path)
    OBVIOUS
<1>5. MmapPacket(w, r) = b
    BY Zenon DEF MmapPacket, MmapBytes, Cat, u, v, o, n, addr, len, offset, anon, read, write,
                 exec, path
<1> HIDE DEF b
<1>6. /\ b \in Seq(Byte) /\ b # <<>>
      /\ ParsePacket(feature, b) =
             IF Utf8(path)
             THEN Event([op |-> "mmap", addr |-> U64(u), len |-> U64(v), anon |-> anon,
                         read |-> read, write |-> write, exec |-> exec, path |-> path,
                         offset |-> U64(o)], <<>>)
             ELSE Ends("error")
    BY <1>1, <1>2, <1>3, <1>4, MmapTold
<1> QED
    BY <1>2, <1>5, <1>6, Zenon DEF addr, len, offset, anon, read, write, exec, path

-----------------------------------------------------------------------------
(* Chunks. *)

\* A chunk that says these events, and one the server fails at.
Says(feature, b, evs) ==
    b \in Seq(Byte) /\ IsSeq(evs) /\ Parsed(feature, b) = [out |-> "ok", evs |-> evs]
Fails(feature, b) ==
    b \in Seq(Byte) /\ Parsed(feature, b).out \in {"error", "panic"}

\* A packet alone is a chunk of one event.
LEMMA TellsAlone ==
    ASSUME NEW feature, NEW b, NEW ev, Tells(feature, b, ev)
    PROVE  Says(feature, b, <<ev>>)
<1>1. b \in Seq(Byte) /\ b # <<>> /\ ParsePacket(feature, b) = Event(ev, <<>>)
    BY DEF Tells
<1> DEFINE rest == <<>>  one == <<ev>>
<1>2. Parsed(feature, rest) = [out |-> "ok", evs |-> <<>>]
    BY ParsedEmpty
<1>7. ParsePacket(feature, b) = Event(ev, rest)
    BY <1>1
<1> HIDE DEF rest
<1>3. Parsed(feature, b) = [out |-> Parsed(feature, rest).out,
                            evs |-> one \o Parsed(feature, rest).evs]
    BY <1>1, <1>7, ParsedPacket
<1>4. Parsed(feature, rest).out = "ok" /\ Parsed(feature, rest).evs = <<>>
    BY <1>2
<1>5. one \o <<>> = one
    <2>1. IsSeq(one)
        BY OneElement
    <2> HIDE DEF one
    <2> QED
        BY <2>1 DEF IsSeq
<1>6. Parsed(feature, b) = [out |-> "ok", evs |-> one]
    BY <1>3, <1>4, <1>5, Zenon
<1> QED
    BY <1>1, <1>6, OneElement, Zenon DEF Says

\* Nothing says nothing.
LEMMA SaysNothing ==
    ASSUME NEW feature
    PROVE  Says(feature, <<>>, <<>>)
<1>1. <<>> \in Seq(Byte) /\ IsSeq(<<>>)
    BY DEF IsSeq
<1> QED
    BY <1>1, ParsedEmpty, Zenon DEF Says

\* One chunk behind another says what they say, one after the other.
LEMMA SaysBoth ==
    ASSUME NEW feature, NEW b, NEW e, NEW c, NEW g, Says(feature, b, e), Says(feature, c, g)
    PROVE  Says(feature, Cat(b, c), Cat(e, g))
<1>1. /\ b \in Seq(Byte) /\ c \in Seq(Byte) /\ IsSeq(e) /\ IsSeq(g)
      /\ Parsed(feature, b) = [out |-> "ok", evs |-> e]
      /\ Parsed(feature, c) = [out |-> "ok", evs |-> g]
    BY DEF Says
<1>2. Parsed(feature, b).out = "ok" /\ Parsed(feature, b).evs = e
    BY <1>1
<1>3. Parsed(feature, c).out = "ok" /\ Parsed(feature, c).evs = g
    BY <1>1
<1>4. Parsed(feature, b \o c) =
          [out |-> Parsed(feature, c).out,
           evs |-> Parsed(feature, b).evs \o Parsed(feature, c).evs]
    BY <1>1, <1>2, ParsedExtends, Zenon
<1>5. Parsed(feature, b \o c) = [out |-> "ok", evs |-> e \o g]
    BY <1>2, <1>3, <1>4, Zenon
<1>6. b \o c \in Seq(Byte) /\ IsSeq(e \o g)
    BY <1>1, ConcatAssoc
<1> QED
    BY <1>5, <1>6, Zenon DEF Says, Cat

\* A packet whose parse stops early does so whatever comes behind.
LEMMA StopExtends ==
    ASSUME NEW feature, NEW b \in Seq(Byte), b # <<>>, NEW y \in Seq(Byte),
           ParsePacket(feature, b).out = "stop"
    PROVE  ParsePacket(feature, b \o y).out = "stop"
<1> DEFINE t == Tail(b)  d == Tail(b \o y)  c == b \o y
<1>1. /\ t \in Seq(Byte) /\ c # <<>> /\ c[1] = b[1] /\ b[1] \in Byte /\ d = t \o y
    BY TailBehind
<1> HIDE DEF t, d, c
<1>2. b[1] % 128 = 80
    BY PacketOutcome
<1>3. ParsePacket(feature, b) = ParseSyscall(feature, t) /\ ParsePacket(feature, c) = ParseSyscall(feature, d)
    BY <1>1, <1>2, OpcodeSyscall DEF t, d, c
<1>4. ~(Len(t) < 4) /\ CallNum(feature, t) = "NotHandled"
    BY <1>1, <1>3, SyscallOutcome
<1>5. Len(d) >= 4 /\ Field(d, 0, 4) = Field(t, 0, 4)
    <2>1. /\ Len(t) \in Nat /\ Len(y) \in Nat /\ Len(t \o y) = Len(t) + Len(y)
          /\ 0 + 4 <= Len(t)
        BY <1>1, <1>4, Behind
    <2>2. Field(t \o y, 0, 4) = Field(t, 0, 4)
        BY <1>1, <2>1, NumberStays
    <2>3. Len(t \o y) >= 4
        BY <2>1
    <2> QED
        BY <1>1, <2>2, <2>3, Zenon
<1>6. ~(Len(d) < 4) /\ CallNum(feature, d) = "NotHandled"
    <2>1. Len(d) \in Nat
        BY <1>1, Behind
    <2> QED
        BY <1>4, <1>5, <2>1 DEF CallNum
<1>7. ParseSyscall(feature, d) = Ends("stop")
    BY <1>6 DEF ParseSyscall, CallNum
<1> QED
    BY <1>3, <1>7 DEF c, Ends

\* A report that was cut makes the server fail; it is never taken for another
\* event, or for none. (ChunkWriter::send, parse_payload)
THEOREM CutFails ==
    ASSUME NEW feature, NEW p \in Seq(Byte), p # <<>>, NEW y \in Seq(Byte), y # <<>>,
           \/ \E ev : ParsePacket(feature, p \o y) = Event(ev, <<>>)
           \/ ParsePacket(feature, p \o y) = Ends("error")
    PROVE  Fails(feature, p)
<1> DEFINE q == ParsePacket(feature, p)
<1>1. q.out \in {"event", "panic", "error", "stop"}
    BY PacketOutcome
<1>2. q.out # "event"
    <2>1. SUFFICES ASSUME q.out = "event" PROVE FALSE
        OBVIOUS
    <2>2. PICK k \in 1 .. Len(p) : q.rest = From(p, k)
        BY <2>1, PacketExtends
    <2>3. ParsePacket(feature, p \o y) = Event(q.ev, q.rest \o y)
        BY <2>1, PacketExtends
    <2>4. q.rest \in Seq(Byte)
        <3>1. k \in 0 .. Len(p)
            BY <2>2
        <3> QED
            BY <2>2, <3>1, RestType
    <2> HIDE DEF q
    <2>5. q.rest \o y # <<>>
        <3> DEFINE r == q.rest
        <3>1. r \in Seq(Byte)
            BY <2>4
        <3> HIDE DEF r
        <3>2. r \o y # <<>>
            BY <3>1
        <3> QED
            BY <3>2 DEF r
    <2>6. CASE \E ev : ParsePacket(feature, p \o y) = Event(ev, <<>>)
        BY <2>3, <2>5, <2>6 DEF Event
    <2>7. CASE ParsePacket(feature, p \o y) = Ends("error")
        <3>1. Event(q.ev, q.rest \o y).out # Ends("error").out
            BY DEF Event, Ends
        <3> QED
            BY <2>3, <2>7, <3>1, Zenon
    <2> QED
        BY <2>6, <2>7
<1>3. q.out # "stop"
    <2>1. SUFFICES ASSUME q.out = "stop" PROVE FALSE
        OBVIOUS
    <2>2. ParsePacket(feature, p \o y).out = "stop"
        BY <2>1, StopExtends
    <2>3. \A ev : Event(ev, <<>>).out # "stop"
        BY DEF Event
    <2>4. Ends("error").out # "stop"
        BY DEF Ends
    <2> QED
        BY <2>2, <2>3, <2>4, Zenon
<1>4. Parsed(feature, p) = [out |-> q.out, evs |-> <<>>]
    BY <1>2, ParsedEnd
<1> QED
    BY <1>1, <1>2, <1>3, <1>4 DEF Fails
=============================================================================
