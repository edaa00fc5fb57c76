--------------------------- MODULE PipelineProofs ---------------------------
(* Proofs about Pipeline: what the callbacks of the client get is what the    *)
(* guest did, for every program, target, library and size of the buffers.     *)
EXTENDS Pipeline, LiftingProofs, FiniteSetTheorems

-----------------------------------------------------------------------------
(* Chunks on their way: the events t are in the chunks of a queue q and in    *)
(* the active chunk c, behind those that were parsed, p.                      *)

\* A chunk that was spoilt: the server will fail at it, for a reason that is known.
Spoilt(feature, why, b) == Fails(feature, b) /\ why \cap {"cut", "path"} # {}

\* The events from the one behind the first a to the b-th.
Slice(t, a, b) == Field(t, a, b - a)

\* x cuts t: the i-th chunk says the events between two cuts, or is spoilt.
Cuts(feature, why, x, q, t) ==
    /\ \A i \in 0 .. Len(q) : x[i] \in Nat /\ x[i] <= Len(t)
    /\ \A i \in 1 .. Len(q) :
          /\ x[i - 1] <= x[i]
          /\ \/ Says(feature, q[i].bytes, Slice(t, x[i - 1], x[i]))
             \/ Spoilt(feature, why, q[i].bytes)

Told(feature, why, p, q, c, t) ==
    /\ IsSeq(t) /\ IsSeq(q)
    /\ \E x : /\ Cuts(feature, why, x, q, t)
              /\ p = Slice(t, 0, x[0])
              /\ Says(feature, c, From(t, x[Len(q)]))

\* A slice stays the same when events are added.
LEMMA SliceKept ==
    ASSUME NEW t, NEW g, IsSeq(t), IsSeq(g), NEW a \in Nat, NEW b \in Nat, a <= b, b <= Len(t)
    PROVE  Slice(Cat(t, g), a, b) = Slice(t, a, b)
<1>1. PICK S : t \in Seq(S) /\ g \in Seq(S)
    BY CommonSet
<1>2. PICK n \in Nat : n = b - a
    OBVIOUS
<1>3. a + n <= Len(t)
    BY <1>2
<1>4. Field(t \o g, a, n) = Field(t, a, n)
    BY <1>1, <1>3, FieldLeft
<1> QED
    BY <1>2, <1>4, Zenon DEF Slice, Cat

\* What is behind a cut, when events are added.
LEMMA RestGrows ==
    ASSUME NEW t, NEW g, IsSeq(t), IsSeq(g), NEW a \in Nat, a <= Len(t)
    PROVE  /\ From(Cat(t, g), a) = Cat(From(t, a), g)
           /\ IsSeq(Cat(t, g)) /\ Len(Cat(t, g)) = Len(t) + Len(g)
           /\ Len(t) \in Nat /\ Len(g) \in Nat
<1>1. PICK S : t \in Seq(S) /\ g \in Seq(S)
    BY CommonSet
<1>2. From(t \o g, a) = From(t, a) \o g
    BY <1>1, FromConcat
<1>3. t \o g \in Seq(S) /\ Len(t \o g) = Len(t) + Len(g) /\ Len(t) \in Nat /\ Len(g) \in Nat
    BY <1>1, ConcatProperties, LenProperties
<1> QED
    BY <1>2, <1>3 DEF Cat, IsSeq

\* The cuts stay when events are added behind the last one.
LEMMA CutsKept ==
    ASSUME NEW feature, NEW why, NEW x, NEW q, NEW t, NEW g, IsSeq(q), IsSeq(t), IsSeq(g),
           Cuts(feature, why, x, q, t)
    PROVE  Cuts(feature, why, x, q, Cat(t, g))
<1>1. Len(q) \in Nat /\ Len(t) \in Nat /\ Len(g) \in Nat
    BY LenProperties DEF IsSeq
<1>2. 0 \in Nat /\ 0 <= Len(t)
    BY <1>1
<1>3. Len(Cat(t, g)) = Len(t) + Len(g)
    BY <1>2, RestGrows
<1>4. ASSUME NEW i \in 0 .. Len(q) PROVE x[i] \in Nat /\ x[i] <= Len(Cat(t, g))
    <2>1. x[i] \in Nat /\ x[i] <= Len(t)
        BY DEF Cuts
    <2> QED
        BY <1>1, <1>3, <2>1
<1>5. ASSUME NEW i \in 1 .. Len(q)
      PROVE  /\ x[i - 1] <= x[i]
             /\ \/ Says(feature, q[i].bytes, Slice(Cat(t, g), x[i - 1], x[i]))
                \/ Spoilt(feature, why, q[i].bytes)
    <2> DEFINE a == x[i - 1]  b == x[i]
    <2>1. i \in 0 .. Len(q) /\ i - 1 \in 0 .. Len(q)
        BY <1>1
    <2>2. a \in Nat /\ b \in Nat /\ b <= Len(t)
        BY <2>1 DEF Cuts
    <2>3. a <= b /\ (Says(feature, q[i].bytes, Slice(t, a, b)) \/ Spoilt(feature, why, q[i].bytes))
        BY DEF Cuts
    <2> HIDE DEF a, b
    <2>4. Slice(Cat(t, g), a, b) = Slice(t, a, b)
        BY <2>2, <2>3, SliceKept
    <2> QED
        BY <2>3, <2>4 DEF a, b
<1> QED
    BY <1>4, <1>5 DEF Cuts

\* In the beginning nothing is told.
LEMMA ToldStart ==
    ASSUME NEW feature, NEW why
    PROVE  Told(feature, why, <<>>, <<>>, <<>>, <<>>)
<1> DEFINE x == [i \in 0 .. 0 |-> 0]  none == <<>>
<1>1. IsSeq(none) /\ Len(none) = 0 /\ none \in Seq({})
    BY DEF IsSeq
<1>2. Says(feature, none, none)
    BY SaysNothing
<1>3. From(none, 0) = none
    BY <1>1, FromEnds
<1>4. Slice(none, 0, 0) = none
    BY FieldNone DEF Slice
<1>5. x[0] = 0
    OBVIOUS
<1> HIDE DEF x, none
<1>6. Cuts(feature, why, x, none, none)
    BY <1>1, <1>5 DEF Cuts
<1>7. Told(feature, why, none, none, none, none)
    BY <1>1, <1>2, <1>3, <1>4, <1>5, <1>6 DEF Told
<1> QED
    BY <1>7 DEF none

\* A packet is added to the active chunk, its event to the events.
LEMMA ToldAdd ==
    ASSUME NEW feature, NEW why, NEW p, NEW q, NEW c, NEW t, Told(feature, why, p, q, c, t),
           NEW b, NEW g, Says(feature, b, g)
    PROVE  Told(feature, why, p, q, Cat(c, b), Cat(t, g))
<1>1. IsSeq(t) /\ IsSeq(q) /\ IsSeq(g)
    BY DEF Told, Says
<1>2. PICK x : /\ Cuts(feature, why, x, q, t) /\ p = Slice(t, 0, x[0])
               /\ Says(feature, c, From(t, x[Len(q)]))
    BY DEF Told
<1>3. Cuts(feature, why, x, q, Cat(t, g))
    BY <1>1, <1>2, CutsKept
<1> DEFINE m == x[0]  n == x[Len(q)]
<1>4. m \in Nat /\ m <= Len(t) /\ n \in Nat /\ n <= Len(t)
    <2>1. Len(q) \in Nat
        BY <1>1, LenProperties DEF IsSeq
    <2> QED
        BY <1>2, <2>1 DEF Cuts
<1>5. p = Slice(t, 0, m) /\ Says(feature, c, From(t, n))
    BY <1>2
<1> HIDE DEF m, n
<1>6. Slice(Cat(t, g), 0, m) = Slice(t, 0, m)
    <2>1. 0 \in Nat /\ 0 <= m
        BY <1>4
    <2> QED
        BY <1>1, <1>4, <2>1, SliceKept
<1>7. From(Cat(t, g), n) = Cat(From(t, n), g) /\ IsSeq(Cat(t, g))
    BY <1>1, <1>4, RestGrows
<1>8. Says(feature, Cat(c, b), Cat(From(t, n), g))
    BY <1>5, SaysBoth
<1>9. Says(feature, Cat(c, b), From(Cat(t, g), n))
    BY <1>7, <1>8
<1> QED
    BY <1>1, <1>3, <1>5, <1>6, <1>7, <1>9 DEF Told, m, n

\* A sequence with one more element.
LEMMA AppendKnown ==
    ASSUME NEW q, IsSeq(q), NEW r
    PROVE  /\ IsSeq(Append(q, r)) /\ Len(q) \in Nat /\ Len(Append(q, r)) = Len(q) + 1
           /\ \A i \in 1 .. Len(q) : Append(q, r)[i] = q[i]
           /\ Append(q, r)[Len(q) + 1] = r
<1>1. PICK S : q \in Seq(S)
    BY DEF IsSeq
<1>2. q \in Seq(S \cup {r}) /\ r \in S \cup {r}
    BY <1>1, SeqMonotonic, S \subseteq S \cup {r}
<1>3. Append(q, r) \in Seq(S \cup {r}) /\ Len(q) \in Nat
    BY <1>2, AppendProperties, LenProperties
<1> QED
    BY <1>2, <1>3, AppendProperties DEF IsSeq

\* What nothing says.
LEMMA SaysOfNothing ==
    ASSUME NEW feature, NEW g, Says(feature, <<>>, g)
    PROVE  g = <<>>
<1>1. Parsed(feature, <<>>) = [out |-> "ok", evs |-> g]
    BY DEF Says
<1>2. Parsed(feature, <<>>) = [out |-> "ok", evs |-> <<>>]
    BY ParsedEmpty
<1>3. Parsed(feature, <<>>).evs = g
    BY <1>1
<1>4. Parsed(feature, <<>>).evs = <<>>
    BY <1>2
<1> QED
    BY <1>3, <1>4

\* Nothing is behind the end.
LEMMA RestNone ==
    ASSUME NEW t, IsSeq(t)
    PROVE  From(t, Len(t)) = <<>> /\ Len(t) \in Nat
<1>1. PICK S : t \in Seq(S)
    BY DEF IsSeq
<1> QED
    BY <1>1, FromEnds, LenProperties

\* What is behind a cut, as a slice.
LEMMA RestSlice ==
    ASSUME NEW t, IsSeq(t), NEW a \in Nat, a <= Len(t)
    PROVE  From(t, a) = Slice(t, a, Len(t))
<1>1. PICK S : t \in Seq(S)
    BY DEF IsSeq
<1>2. Len(t) \in Nat
    BY <1>1, LenProperties
<1>3. PICK n \in Nat : n = Len(t) - a
    BY <1>2
<1>4. Len(t) = a + n
    BY <1>2, <1>3
<1>5. From(t, a) = Field(t, a, n)
    BY <1>1, <1>4, FromField
<1> QED
    BY <1>3, <1>5 DEF Slice

\* One more chunk: it says what is behind the last cut.
LEMMA CutsLonger ==
    ASSUME NEW feature, NEW why, NEW x, NEW q, NEW t, NEW r, IsSeq(q), IsSeq(t),
           Cuts(feature, why, x, q, t), NEW n, n = x[Len(q)],
           Says(feature, r.bytes, From(t, n)) \/ Spoilt(feature, why, r.bytes)
    PROVE  \E y : /\ Cuts(feature, why, y, Append(q, r), t) /\ y[0] = x[0]
                  /\ y[Len(Append(q, r))] = Len(t)
<1> DEFINE m == Len(q)  z == Append(q, r)  l == Len(t)
           y == [i \in 0 .. m + 1 |-> IF i <= m THEN x[i] ELSE l]
<1>1. m \in Nat /\ Len(z) = m + 1 /\ (\A i \in 1 .. m : z[i] = q[i]) /\ z[m + 1] = r /\ l \in Nat
    BY AppendKnown, RestNone
<1>2. /\ \A i \in 0 .. m : x[i] \in Nat /\ x[i] <= l
      /\ \A i \in 1 .. m : /\ x[i - 1] <= x[i]
                           /\ \/ Says(feature, q[i].bytes, Slice(t, x[i - 1], x[i]))
                              \/ Spoilt(feature, why, q[i].bytes)
    BY DEF Cuts
<1>3. n \in Nat /\ n <= l /\ From(t, n) = Slice(t, n, l)
    BY <1>1, <1>2, RestSlice
<1> HIDE DEF l
<1>4. (\A i \in 0 .. m : y[i] = x[i]) /\ y[m + 1] = l
    BY <1>1
<1> HIDE DEF y, z
<1>5. \A i \in 0 .. Len(z) : y[i] \in Nat /\ y[i] <= Len(t)
    BY <1>1, <1>2, <1>4 DEF l
<1>6. ASSUME NEW i \in 1 .. Len(z)
      PROVE  /\ y[i - 1] <= y[i]
             /\ \/ Says(feature, z[i].bytes, Slice(t, y[i - 1], y[i]))
                \/ Spoilt(feature, why, z[i].bytes)
    <2>1. CASE i \in 1 .. m
        <3>1. i \in 0 .. m /\ i - 1 \in 0 .. m
            BY <1>1, <2>1
        <3>2. y[i] = x[i] /\ y[i - 1] = x[i - 1] /\ z[i] = q[i]
            BY <1>1, <1>4, <2>1, <3>1
        <3> QED
            BY <1>2, <2>1, <3>2
    <2>2. CASE i = m + 1
        <3>1. i - 1 = m /\ m \in 0 .. m
            BY <1>1, <2>2
        <3>2. y[i] = l /\ y[i - 1] = n /\ z[i] = r
            BY <1>1, <1>4, <2>2, <3>1
        <3>3. Says(feature, r.bytes, Slice(t, n, l)) \/ Spoilt(feature, why, r.bytes)
            BY <1>3
        <3> QED
            BY <1>3, <3>2, <3>3
    <2> QED
        BY <1>1, <2>1, <2>2
<1>7. Cuts(feature, why, y, z, t)
    BY <1>5, <1>6 DEF Cuts
<1>8. y[0] = x[0] /\ y[Len(z)] = l
    BY <1>1, <1>4
<1> QED
    BY <1>7, <1>8 DEF z, l

\* The active chunk is sent.
LEMMA ToldExit ==
    ASSUME NEW feature, NEW why, NEW p, NEW q, NEW c, NEW t, Told(feature, why, p, q, c, t),
           NEW r, r.bytes = c
    PROVE  Told(feature, why, p, Append(q, r), <<>>, t)
<1>1. IsSeq(t) /\ IsSeq(q)
    BY DEF Told
<1>2. PICK x : /\ Cuts(feature, why, x, q, t) /\ p = Slice(t, 0, x[0])
               /\ Says(feature, c, From(t, x[Len(q)]))
    BY DEF Told
<1> DEFINE z == Append(q, r)  n == x[Len(q)]
<1>7. n = x[Len(q)] /\ Says(feature, r.bytes, From(t, n))
    BY <1>2
<1> HIDE DEF n
<1>3. PICK y : Cuts(feature, why, y, z, t) /\ y[0] = x[0] /\ y[Len(z)] = Len(t)
    BY <1>1, <1>2, <1>7, CutsLonger
<1>4. IsSeq(z)
    BY <1>1, AppendKnown
<1> HIDE DEF z
<1>5. Says(feature, <<>>, From(t, Len(t)))
    BY <1>1, RestNone, SaysNothing
<1>6. p = Slice(t, 0, y[0]) /\ Says(feature, <<>>, From(t, y[Len(z)]))
    BY <1>2, <1>3, <1>5
<1> QED
    BY <1>1, <1>3, <1>4, <1>6 DEF Told, z

\* A report is a chunk of its own, between those of the hooks.
LEMMA ToldReport ==
    ASSUME NEW feature, NEW why, NEW p, NEW q, NEW t, Told(feature, why, p, q, <<>>, t),
           NEW r, NEW ev, Says(feature, r.bytes, <<ev>>) \/ Spoilt(feature, why, r.bytes)
    PROVE  Told(feature, why, p, Append(q, r), <<>>, Append(t, ev))
<1> DEFINE g == <<ev>>  d == Cat(t, g)  z == Append(q, r)
<1>1. IsSeq(t) /\ IsSeq(q) /\ IsSeq(g)
    BY OneElement DEF Told
<1>2. PICK x : /\ Cuts(feature, why, x, q, t) /\ p = Slice(t, 0, x[0])
               /\ Says(feature, <<>>, From(t, x[Len(q)]))
    BY DEF Told
<1> DEFINE m == x[0]  n == x[Len(q)]
<1>3. m \in Nat /\ m <= Len(t) /\ n \in Nat /\ n <= Len(t) /\ 0 \in Nat /\ 0 <= m
    <2>1. Len(q) \in Nat
        BY <1>1, LenProperties DEF IsSeq
    <2> QED
        BY <1>2, <2>1 DEF Cuts
<1>4. n = x[Len(q)] /\ From(t, n) = <<>>
    BY <1>2, SaysOfNothing
<1>9. Says(feature, r.bytes, g) \/ Spoilt(feature, why, r.bytes)
    OBVIOUS
<1>10. Append(t, ev) = d
    <2>1. PICK S : t \in Seq(S)
        BY <1>1 DEF IsSeq
    <2>2. Append(t, ev) = t \o <<ev>>
        BY <2>1
    <2> QED
        BY <2>2, Zenon DEF Cat
<1> HIDE DEF g
<1>5. From(d, n) = Cat(From(t, n), g) /\ IsSeq(d)
    BY <1>1, <1>3, RestGrows
<1>6. Cuts(feature, why, x, q, d) /\ Slice(d, 0, m) = Slice(t, 0, m)
    BY <1>1, <1>2, <1>3, CutsKept, SliceKept
<1>7. Cat(<<>>, g) = g
    <2>1. PICK S : g \in Seq(S)
        BY <1>1 DEF IsSeq
    <2>2. <<>> \o g = g
        BY <2>1
    <2> QED
        BY <2>2, Zenon DEF Cat
<1> HIDE DEF d, n
<1>8. Says(feature, r.bytes, From(d, n)) \/ Spoilt(feature, why, r.bytes)
    BY <1>4, <1>5, <1>7, <1>9
<1>11. PICK y : Cuts(feature, why, y, z, d) /\ y[0] = x[0] /\ y[Len(z)] = Len(d)
    BY <1>1, <1>4, <1>5, <1>6, <1>8, CutsLonger
<1>12. IsSeq(z)
    BY <1>1, AppendKnown
<1> HIDE DEF z
<1>13. Says(feature, <<>>, From(d, Len(d)))
    BY <1>5, RestNone, SaysNothing
<1>14. p = Slice(d, 0, y[0]) /\ Says(feature, <<>>, From(d, y[Len(z)]))
    BY <1>2, <1>6, <1>11, <1>13
<1>15. Told(feature, why, p, z, <<>>, d)
    BY <1>5, <1>11, <1>12, <1>14 DEF Told
<1> QED
    BY <1>10, <1>15 DEF z

\* The first chunk is parsed: it was spoilt, or gives the events behind p.
LEMMA ToldParse ==
    ASSUME NEW feature, NEW why, NEW p, NEW q, NEW c, NEW t, Told(feature, why, p, q, c, t),
           q # <<>>, NEW r, r = Parsed(feature, Head(q).bytes)
    PROVE  /\ r.out \in {"error", "panic"} => why \cap {"cut", "path"} # {}
           /\ r.out \notin {"error", "panic"} =>
                 Told(feature, why, Cat(p, r.evs), Tail(q), c, t)
<1>1. IsSeq(t) /\ IsSeq(q)
    BY DEF Told
<1>2. PICK x : /\ Cuts(feature, why, x, q, t) /\ p = Slice(t, 0, x[0])
               /\ Says(feature, c, From(t, x[Len(q)]))
    BY DEF Told
<1> DEFINE m == Len(q)  z == Tail(q)  l == Len(t)  y == [i \in 0 .. m - 1 |-> x[i + 1]]
<1>3. PICK S : q \in Seq(S)
    BY <1>1 DEF IsSeq
<1>4. /\ m \in Nat /\ m >= 1 /\ Head(q) = q[1]
      /\ z \in Seq(S) /\ Len(z) = m - 1 /\ \A i \in 1 .. m - 1 : z[i] = q[i + 1]
    <2>1. m \in Nat /\ m # 0
        BY <1>3, EmptySeq, LenProperties
    <2>2. Tail(q) \in Seq(S) /\ Len(Tail(q)) = Len(q) - 1
          /\ \A i \in 1 .. Len(Tail(q)) : Tail(q)[i] = q[i + 1]
        BY <1>3, HeadTailProperties
    <2>3. Head(q) = q[1]
        BY <1>3, HeadTailProperties
    <2> QED
        BY <2>1, <2>2, <2>3
<1>5. l \in Nat
    BY <1>1, RestNone
<1>6. /\ \A i \in 0 .. m : x[i] \in Nat /\ x[i] <= l
      /\ \A i \in 1 .. m : /\ x[i - 1] <= x[i]
                           /\ \/ Says(feature, q[i].bytes, Slice(t, x[i - 1], x[i]))
                              \/ Spoilt(feature, why, q[i].bytes)
    BY <1>2 DEF Cuts
<1>7. /\ x[0] \in Nat /\ x[1] \in Nat /\ x[0] <= x[1] /\ x[1] <= l
      /\ \/ Says(feature, Head(q).bytes, Slice(t, x[0], x[1]))
         \/ Spoilt(feature, why, Head(q).bytes)
    <2>1. 0 \in 0 .. m /\ 1 \in 0 .. m /\ 1 \in 1 .. m /\ 1 - 1 = 0
        BY <1>4
    <2> QED
        BY <1>4, <1>6, <2>1
<1> DEFINE e == Slice(t, x[0], x[1])
<1>8. Says(feature, Head(q).bytes, e) => r.out = "ok" /\ r.evs = e
    BY DEF Says
<1>9. Spoilt(feature, why, Head(q).bytes) =>
          r.out \in {"error", "panic"} /\ why \cap {"cut", "path"} # {}
    BY DEF Spoilt, Fails
<1>10. r.out \in {"error", "panic"} => why \cap {"cut", "path"} # {}
    BY <1>7, <1>8, <1>9
<1>11. ASSUME r.out \notin {"error", "panic"}
       PROVE  Told(feature, why, Cat(p, r.evs), z, c, t)
    <2>1. r.evs = e
        BY <1>7, <1>8, <1>9, <1>11
    <2>2. Cat(p, e) = Slice(t, 0, x[1])
        <3>1. PICK T : t \in Seq(T)
            BY <1>1 DEF IsSeq
        <3>2. PICK a \in Nat : a = x[0]
            BY <1>7
        <3>3. PICK b \in Nat : b = x[1]
            BY <1>7
        <3>4. PICK n \in Nat : n = b - a
            BY <1>7, <3>2, <3>3
        <3>5. 0 \in Nat /\ a = 0 + a /\ b = a + n /\ a + n <= Len(t)
            BY <1>7, <3>2, <3>3, <3>4
        <3>6. Field(t, 0, b) = Field(t, 0, a) \o Field(t, a, n)
            BY <3>1, <3>5, FieldSplit
        <3>7. p = Field(t, 0, a) /\ e = Field(t, a, n) /\ Slice(t, 0, x[1]) = Field(t, 0, b)
            <4>1. a - 0 = a /\ b - 0 = b /\ b - a = n
                BY <3>4
            <4> QED
                BY <1>2, <3>2, <3>3, <4>1 DEF Slice
        <3> HIDE DEF e
        <3> QED
            BY <3>6, <3>7, Zenon DEF Cat
    <2> HIDE DEF z, l, e
    <2>3. \A i \in 0 .. m - 1 : y[i] = x[i + 1]
        OBVIOUS
    <2> HIDE DEF y
    <2>4. \A i \in 0 .. Len(z) : y[i] \in Nat /\ y[i] <= Len(t)
        <3>1. SUFFICES ASSUME NEW i \in 0 .. Len(z) PROVE y[i] \in Nat /\ y[i] <= Len(t)
            OBVIOUS
        <3>2. i \in 0 .. m - 1 /\ i + 1 \in 0 .. m
            BY <1>4
        <3> QED
            BY <1>6, <2>3, <3>2 DEF l
    <2>5. ASSUME NEW i \in 1 .. Len(z)
          PROVE  /\ y[i - 1] <= y[i]
                 /\ \/ Says(feature, z[i].bytes, Slice(t, y[i - 1], y[i]))
                    \/ Spoilt(feature, why, z[i].bytes)
        <3>1. PICK j \in 1 .. m : j = i + 1
            BY <1>4
        <3>2. i \in 0 .. m - 1 /\ i - 1 \in 0 .. m - 1 /\ j - 1 = i /\ (i - 1) + 1 = j - 1
              /\ i \in 1 .. m - 1
            BY <1>4, <3>1
        <3>3. y[i] = x[j] /\ y[i - 1] = x[j - 1] /\ z[i] = q[j]
            BY <1>4, <2>3, <3>1, <3>2
        <3> QED
            BY <1>6, <3>3
    <2>6. Cuts(feature, why, y, z, t)
        BY <2>4, <2>5 DEF Cuts
    <2>7. y[0] = x[1] /\ y[Len(z)] = x[m]
        <3>1. 0 \in 0 .. m - 1 /\ m - 1 \in 0 .. m - 1 /\ 0 + 1 = 1 /\ (m - 1) + 1 = m /\ Len(z) = m - 1
            BY <1>4
        <3> QED
            BY <2>3, <3>1
    <2>8. IsSeq(z)
        BY <1>4 DEF IsSeq
    <2>9. Cat(p, r.evs) = Slice(t, 0, y[0]) /\ Says(feature, c, From(t, y[Len(z)]))
        BY <1>2, <2>1, <2>2, <2>7
    <2> HIDE DEF m
    <2> QED
        BY <1>1, <2>6, <2>8, <2>9 DEF Told
<1> QED
    BY <1>10, <1>11

\* What was parsed is a part of the events.
LEMMA ToldParsed ==
    ASSUME NEW feature, NEW why, NEW p, NEW q, NEW c, NEW t, Told(feature, why, p, q, c, t)
    PROVE  \E n \in Nat : n <= Len(t) /\ p = Field(t, 0, n)
<1>1. IsSeq(t) /\ IsSeq(q)
    BY DEF Told
<1>2. PICK x : /\ Cuts(feature, why, x, q, t) /\ p = Slice(t, 0, x[0])
               /\ Says(feature, c, From(t, x[Len(q)]))
    BY DEF Told
<1>3. Len(q) \in Nat
    BY <1>1, LenProperties DEF IsSeq
<1>4. x[0] \in Nat /\ x[0] <= Len(t)
    BY <1>2, <1>3 DEF Cuts
<1>5. x[0] - 0 = x[0]
    BY <1>4
<1> QED
    BY <1>2, <1>4, <1>5 DEF Slice

\* If no chunk is on its way everything was parsed.
LEMMA ToldAll ==
    ASSUME NEW feature, NEW why, NEW p, NEW t, Told(feature, why, p, <<>>, <<>>, t)
    PROVE  p = t
<1> DEFINE none == <<>>
<1>1. IsSeq(t) /\ Len(none) = 0
    BY DEF Told
<1>2. PICK x : /\ Cuts(feature, why, x, none, t) /\ p = Slice(t, 0, x[0])
               /\ Says(feature, none, From(t, x[Len(none)]))
    BY DEF Told
<1>3. From(t, x[0]) = none
    BY <1>1, <1>2, SaysOfNothing
<1>4. x[0] \in Nat /\ x[0] <= Len(t)
    BY <1>1, <1>2 DEF Cuts
<1>5. PICK T : t \in Seq(T)
    BY <1>1 DEF IsSeq
<1>6. PICK a \in Nat : a = x[0]
    BY <1>4
<1>7. Len(t) \in Nat
    BY <1>5, LenProperties
<1>8. \E n \in Nat : n = Len(t) - a
    BY <1>4, <1>6, <1>7
<1>13. PICK n \in Nat : Len(t) = a + n
    BY <1>6, <1>7, <1>8
<1>9. Len(From(t, a)) = n
    BY <1>5, <1>13, FromType
<1>10. n = 0 /\ a = Len(t)
    BY <1>1, <1>3, <1>6, <1>13, <1>9
<1>11. Field(t, 0, a) = t
    BY <1>5, <1>10, FieldAll
<1>12. a - 0 = a
    OBVIOUS
<1> QED
    BY <1>2, <1>6, <1>11, <1>12 DEF Slice

\* More reasons for a chunk to be spoilt.
LEMMA ToldMore ==
    ASSUME NEW feature, NEW why, NEW p, NEW q, NEW c, NEW t, Told(feature, why, p, q, c, t),
           NEW more, why \subseteq more
    PROVE  Told(feature, more, p, q, c, t)
<1>1. ASSUME NEW b, Spoilt(feature, why, b) PROVE Spoilt(feature, more, b)
    BY <1>1 DEF Spoilt
<1>2. ASSUME NEW x, Cuts(feature, why, x, q, t) PROVE Cuts(feature, more, x, q, t)
    BY <1>1, <1>2 DEF Cuts
<1> QED
    BY <1>2 DEF Told

-----------------------------------------------------------------------------
(* The hooks of an instruction write to the active chunk, one after the other. *)

\* A hook tells the event ev, with a packet of the size it makes room for.
HookSays(h, feature, ev) ==
    /\ h.flush = FLUSH /\ h.packet \in Seq(Byte)
    /\ Len(h.packet) = h.room /\ h.room <= ChunkSize[lib.inst]
    /\ Tells(feature, h.packet, ev)

\* The hooks tell the events g, in this order.
HooksTell(hooks, feature, g) ==
    /\ IsSeq(hooks) /\ IsSeq(g) /\ Len(hooks) = Len(g)
    /\ \A i \in 1 .. Len(hooks) : HookSays(hooks[i], feature, g[i])

\* What was told before the hooks and what is told after them.
ToldIn(feature, why, p, st, t) ==
    st = [chunk |-> st.chunk, sent |-> st.sent] /\ Told(feature, why, p, st.sent, st.chunk, t)

\* A state of the buffers that is made of its parts.
LEMMA ToldMade ==
    ASSUME NEW feature, NEW why, NEW p, NEW q, NEW c, NEW t, Told(feature, why, p, q, c, t)
    PROVE  ToldIn(feature, why, p, [chunk |-> c, sent |-> q], t)
BY DEF ToldIn

\* One hook.
LEMMA LogTold ==
    ASSUME NEW feature, NEW why, NEW p, NEW st, NEW t, ToldIn(feature, why, p, st, t),
           NEW h, NEW ev, Tells(feature, h.packet, ev)
    PROVE  ToldIn(feature, why, p, Log(st, h), Cat(t, <<ev>>))
<1> DEFINE g == <<ev>>
<1>1. Says(feature, h.packet, g)
    BY TellsAlone
<1>2. /\ st = [chunk |-> st.chunk, sent |-> st.sent]
      /\ Told(feature, why, p, st.sent, st.chunk, t)
    BY DEF ToldIn
<1> HIDE DEF g
<1>3. CASE Len(st.chunk) + h.room <= ChunkSize[lib.inst]
    <2>1. Log(st, h) = [st EXCEPT !.chunk = @ \o h.packet]
        BY <1>3 DEF Log
    <2> DEFINE c == st.chunk  q == st.sent  d == Cat(c, h.packet)
    <2>2. st = [chunk |-> c, sent |-> q]
        BY <1>2
    <2>3. c \o h.packet = d
        BY DEF Cat
    <2>4. Told(feature, why, p, q, c, t)
        BY <1>2
    <2>5. Log(st, h) = [st EXCEPT !.chunk = c \o h.packet]
        BY <2>1, <2>2
    <2> HIDE DEF c, q
    <2>6. Told(feature, why, p, q, d, Cat(t, g))
        BY <1>1, <2>4, ToldAdd
    <2> HIDE DEF d
    <2>7. Log(st, h) = [chunk |-> d, sent |-> q]
        BY <2>2, <2>3, <2>5
    <2>8. ToldIn(feature, why, p, [chunk |-> d, sent |-> q], Cat(t, g))
        BY <2>6, ToldMade
    <2> QED
        BY <2>7, <2>8 DEF g
<1>4. CASE ~(Len(st.chunk) + h.room <= ChunkSize[lib.inst])
    <2> DEFINE r == [bytes |-> st.chunk, report |-> FALSE]  q == Append(st.sent, r)
               none == <<>>
    <2>1. Log(st, h) = [chunk |-> h.packet, sent |-> q]
        BY <1>4 DEF Log
    <2>2. r.bytes = st.chunk
        OBVIOUS
    <2> HIDE DEF r
    <2>3. Told(feature, why, p, q, none, t)
        BY <1>2, <2>2, ToldExit
    <2>4. h.packet = Cat(none, h.packet)
        BY <1>1, NothingBefore DEF Says
    <2> HIDE DEF q, none
    <2>5. Told(feature, why, p, q, Cat(none, h.packet), Cat(t, g))
        BY <1>1, <2>3, ToldAdd
    <2> DEFINE d == Cat(none, h.packet)
    <2>6. Log(st, h) = [chunk |-> d, sent |-> q]
        BY <2>1, <2>4
    <2> HIDE DEF d
    <2>7. ToldIn(feature, why, p, [chunk |-> d, sent |-> q], Cat(t, g))
        BY <2>5, ToldMade DEF d
    <2> QED
        BY <2>6, <2>7 DEF g
<1> QED
    BY <1>3, <1>4

\* The states u of the buffers, from hook to hook.
Logging(st, hooks, count, u) ==
    u[0] = st /\ \A k \in 1 .. count : u[k] = Log(u[k - 1], hooks[k])

\* Logged runs one hook after the other.
LEMMA LoggedSteps ==
    ASSUME NEW st, NEW hooks, NEW count \in Nat, count = Len(hooks)
    PROVE  \E u : Logging(st, hooks, count, u) /\ Logged(st, hooks) = u[count]
<1> DEFINE Is(u, n) == u = [k \in 0 .. n |-> IF k = 0 THEN st ELSE Log(u[k - 1], hooks[k])]
           S == {n \in Nat : \E u : Is(u, n)}
<1>1. 0 \in S
    <2> DEFINE u == [k \in 0 .. 0 |-> st]
    <2>1. Is(u, 0)
        OBVIOUS
    <2> QED
        BY <2>1
<1>2. ASSUME NEW n \in Nat, n \in S PROVE n + 1 \in S
    <2>1. PICK u : Is(u, n)
        BY <1>2
    <2> DEFINE v == [k \in 0 .. n + 1 |-> IF k = 0 THEN st ELSE Log(u[k - 1], hooks[k])]
    <2>2. \A k \in 0 .. n : v[k] = u[k]
        BY <2>1
    <2>3. \A k \in 1 .. n + 1 : k - 1 \in 0 .. n
        OBVIOUS
    <2>4. ASSUME NEW k \in 0 .. n + 1
          PROVE  (IF k = 0 THEN st ELSE Log(u[k - 1], hooks[k]))
                     = IF k = 0 THEN st ELSE Log(v[k - 1], hooks[k])
        <3>1. CASE k = 0
            BY <3>1
        <3>2. CASE k # 0
            <4>1. v[k - 1] = u[k - 1]
                <5> HIDE DEF v, Is
                <5>1. k - 1 \in 0 .. n
                    BY <3>2
                <5> QED
                    BY <2>2, <5>1
            <4> QED
                BY <4>1
        <3> QED
            BY <3>1, <3>2
    <2>5. Is(v, n + 1)
        BY <2>4, Zenon
    <2>6. n + 1 \in Nat
        OBVIOUS
    <2> HIDE DEF v, Is
    <2> QED
        BY <2>5, <2>6
<1>3. count \in S
    <2> HIDE DEF S
    <2>1. \A n \in Nat : n \in S => n + 1 \in S
        BY <1>2
    <2> QED
        BY <1>1, <2>1, SetInduction
<1>4. PICK x : Is(x, count)
    BY <1>3
<1> DEFINE u == CHOOSE u : u = [k \in 0 .. Len(hooks) |->
                                  IF k = 0 THEN st ELSE Log(u[k - 1], hooks[k])]
<1>5. u = [k \in 0 .. Len(hooks) |-> IF k = 0 THEN st ELSE Log(u[k - 1], hooks[k])]
    BY <1>4
<1>6. Logged(st, hooks) = u[Len(hooks)]
    BY DEF Logged
<1> HIDE DEF u
<1>7. Logging(st, hooks, count, u)
    BY <1>5 DEF Logging
<1> QED
    BY <1>6, <1>7

\* The first events, and those that follow.
LEMMA FirstMore ==
    ASSUME NEW t, IsSeq(t), NEW a \in Nat, NEW n \in Nat, NEW b \in Nat, b = a + n, b <= Len(t)
    PROVE  Field(t, 0, b) = Cat(Field(t, 0, a), Field(t, a, n))
<1>1. PICK S : t \in Seq(S)
    BY DEF IsSeq
<1>2. 0 \in Nat /\ a = 0 + a /\ b = a + n /\ a + n <= Len(t)
    OBVIOUS
<1>3. Field(t, 0, b) = Field(t, 0, a) \o Field(t, a, n)
    BY <1>1, <1>2, FieldSplit
<1> QED
    BY <1>3 DEF Cat

\* The first events, and the one that follows.
LEMMA OneMore ==
    ASSUME NEW t, IsSeq(t), NEW n \in Nat, n + 1 <= Len(t)
    PROVE  Field(t, 0, n + 1) = Cat(Field(t, 0, n), <<t[n + 1]>>)
<1>1. PICK S : t \in Seq(S)
    BY DEF IsSeq
<1>2. PICK o \in Nat : o = 1
    OBVIOUS
<1>3. PICK m \in Nat : m = n + o
    OBVIOUS
<1> DEFINE e == Field(t, n, o)
<1>4. 0 \in Nat /\ n = 0 + n /\ m = n + o /\ n + o <= Len(t)
    BY <1>2, <1>3
<1>5. Field(t, 0, m) = Cat(Field(t, 0, n), Field(t, n, o))
    BY <1>4, FirstMore
<1>6. e \in Seq(S) /\ Len(e) = o /\ \A i \in 1 .. o : e[i] = t[n + i]
    BY <1>1, <1>4, FieldType
<1>7. e[1] = t[m] /\ Len(e) = 1
    BY <1>2, <1>3, <1>6
<1>8. e = <<t[m]>>
    <2> HIDE DEF e
    <2> QED
        BY <1>6, <1>7
<1>9. Field(t, 0, m) = Cat(Field(t, 0, n), <<t[m]>>)
    BY <1>5, <1>8
<1> QED
    BY <1>2, <1>3, <1>9

\* All hooks of an instruction.
LEMMA LoggedTold ==
    ASSUME NEW feature, NEW why, NEW p, NEW st, NEW t, ToldIn(feature, why, p, st, t),
           NEW hooks, NEW g, HooksTell(hooks, feature, g)
    PROVE  ToldIn(feature, why, p, Logged(st, hooks), Cat(t, g))
<1>1. /\ IsSeq(hooks) /\ IsSeq(g) /\ Len(hooks) = Len(g)
      /\ \A i \in 1 .. Len(hooks) : HookSays(hooks[i], feature, g[i])
    BY DEF HooksTell
<1>2. PICK n \in Nat : n = Len(hooks)
    BY <1>1, LenProperties DEF IsSeq
<1>11. PICK u : Logging(st, hooks, n, u) /\ Logged(st, hooks) = u[n]
    BY <1>2, LoggedSteps, Zenon
<1>3. /\ u[0] = st /\ \A k \in 1 .. n : u[k] = Log(u[k - 1], hooks[k])
      /\ Logged(st, hooks) = u[n]
    BY <1>11 DEF Logging
<1> DEFINE Done(k) == ToldIn(feature, why, p, u[k], Cat(t, Field(g, 0, k)))
           S == {k \in Nat : k <= n => Done(k)}
<1>4. IsSeq(t)
    BY DEF ToldIn, Told
<1>5. PICK T : t \in Seq(T) /\ g \in Seq(T)
    BY <1>1, <1>4, CommonSet
<1>6. Done(0)
    <2>1. Field(g, 0, 0) = <<>>
        BY FieldNone
    <2>2. Cat(t, <<>>) = t
        BY <1>5 DEF Cat
    <2> QED
        BY <1>3, <2>1, <2>2
<1>7. ASSUME NEW k \in Nat, k \in S PROVE k + 1 \in S
    <2>1. SUFFICES ASSUME k + 1 <= n PROVE Done(k + 1)
        OBVIOUS
    <2>2. Done(k)
        BY <1>7, <2>1
    <2>3. k + 1 \in 1 .. n /\ (k + 1) - 1 = k
        BY <2>1
    <2> DEFINE h == hooks[k + 1]  ev == g[k + 1]  one == <<ev>>  f == Field(g, 0, k)
    <2>4. u[k + 1] = Log(u[k], h) /\ Tells(feature, h.packet, ev)
        BY <1>1, <1>2, <1>3, <2>3 DEF HookSays
    <2>5. ToldIn(feature, why, p, u[k + 1], Cat(Cat(t, f), one))
        <3> HIDE DEF h, ev, f
        <3> DEFINE v == u[k]  s == Cat(t, f)
        <3>1. ToldIn(feature, why, p, v, s)
            BY <2>2 DEF f
        <3> HIDE DEF v, s
        <3>2. ToldIn(feature, why, p, Log(v, h), Cat(s, <<ev>>))
            BY <2>4, <3>1, LogTold
        <3> QED
            BY <2>4, <3>2 DEF v, s
    <2>6. Cat(Cat(t, f), one) = Cat(t, Cat(f, one))
        <3>1. f \in Seq(T)
            <4>1. 0 \in Nat /\ 0 + k <= Len(g)
                BY <1>1, <1>2, <2>1
            <4> QED
                BY <1>5, <4>1, FieldType
        <3>2. IsSeq(f) /\ IsSeq(one)
            BY <3>1, OneElement DEF IsSeq
        <3> HIDE DEF f, one
        <3> QED
            BY <1>4, <3>2, CatAssoc
    <2>7. Cat(f, one) = Field(g, 0, k + 1)
        <3>1. k + 1 <= Len(g)
            BY <1>1, <1>2, <2>1
        <3> QED
            BY <1>1, <3>1, OneMore, Zenon
    <2> HIDE DEF one, f
    <2> QED
        BY <2>5, <2>6, <2>7
<1>8. n \in S
    <2>1. 0 \in S
        BY <1>6
    <2> HIDE DEF S
    <2>2. \A k \in Nat : k \in S => k + 1 \in S
        BY <1>7
    <2> QED
        BY <1>2, <2>1, <2>2, SetInduction
<1>9. Done(n)
    BY <1>8
<1>10. Field(g, 0, n) = g
    BY <1>1, <1>2, <1>5, FieldAll
<1> QED
    BY <1>3, <1>9, <1>10

-----------------------------------------------------------------------------
(* The guest's addresses and registers. *)

\* Addresses are bounded by a number.
LEMMA BoundType == AddressBound \in Nat
BY SMT DEF AddressBound

\* What SetupsAssumption says of the setup.
Target ==
    /\ w \in Widths /\ setup.high \in Bytes(5)
    /\ w = 4 => \A i \in 2 .. 5 : setup.high[i] = 0
    /\ lib.inst \in {"Always", "Once", "Register", "Branch"} /\ lib.mem \in BOOLEAN
    /\ \/ w = 4 /\ Abi[setup.arch].n \in {16, 32} /\ Abi[setup.arch].ra \in 0 .. 31
       \/ w = 8 /\ Abi[setup.arch].n = 32 /\ Abi[setup.arch].ra \in 0 .. 31

\* Every setup is one.
LEMMA TargetOK ==
    ASSUME setup \in Setups
    PROVE  Target
<1>1. /\ setup.arch \in DOMAIN Abi /\ setup.width = (IF setup.arch = "aarch64" THEN 8 ELSE 4)
      /\ setup.high \in Bytes(5) /\ (setup.width = 4 => \A i \in 2 .. 5 : setup.high[i] = 0)
      /\ setup.lib.inst \in {"Always", "Once", "Register", "Branch"}
      /\ setup.lib.mem \in BOOLEAN
    BY SetupsAssumption
<1>2. /\ DOMAIN Abi = {"mips", "armv5tel", "aarch64"}
      /\ Abi["mips"].n = 32 /\ Abi["mips"].ra = 31
      /\ Abi["armv5tel"].n = 16 /\ Abi["armv5tel"].ra = 14
      /\ Abi["aarch64"].n = 32 /\ Abi["aarch64"].ra = 30
    BY DEF Abi
<1>3. w \in Widths
    BY <1>1 DEF w, Widths
<1>4. \/ w = 4 /\ Abi[setup.arch].n \in {16, 32} /\ Abi[setup.arch].ra \in 0 .. 31
      \/ w = 8 /\ Abi[setup.arch].n = 32 /\ Abi[setup.arch].ra \in 0 .. 31
    <2>1. CASE setup.arch = "mips"
        BY <1>1, <1>2, <2>1 DEF w
    <2>2. CASE setup.arch = "armv5tel"
        BY <1>1, <1>2, <2>2 DEF w
    <2>3. CASE setup.arch = "aarch64"
        BY <1>1, <1>2, <2>3 DEF w
    <2> QED
        BY <1>1, <1>2, <2>1, <2>2, <2>3
<1> QED
    BY <1>1, <1>3, <1>4 DEF Target, w, lib

\* An address is a word that ends with the high bytes of the target.
LEMMA AddressParts ==
    ASSUME Target, NEW n \in Nat
    PROVE  /\ Address(n) \in Words /\ \A i \in 1 .. 3 : Address(n)[i] = Word(n, 3)[i]
           /\ \A i \in 1 .. 5 : Address(n)[3 + i] = setup.high[i]
<1> DEFINE a == Word(n, 3)  h == setup.high  b == Cat(a, h)
<1>1. h \in Bytes(5) /\ (w = 4 => \A i \in 2 .. 5 : h[i] = 0)
    BY DEF Target
<1>2. a \in Bytes(3)
    BY DEF Word, Bytes, Byte
<1> HIDE DEF a, h
<1>3. b \in Bytes(8) /\ (\A i \in 1 .. 3 : b[i] = a[i]) /\ \A i \in 1 .. 5 : b[3 + i] = h[i]
    <2>1. a \in Seq(Byte) /\ Len(a) = 3 /\ h \in Seq(Byte) /\ Len(h) = 5
        <3>1. 3 \in Nat /\ 5 \in Nat
            OBVIOUS
        <3> QED
            BY <1>1, <1>2, <3>1, BytesType
    <2>2. /\ a \o h \in Seq(Byte) /\ Len(a \o h) = 8
          /\ \A i \in 1 .. 8 : (a \o h)[i] = IF i <= 3 THEN a[i] ELSE h[i - 3]
        <3>1. /\ a \o h \in Seq(Byte) /\ Len(a \o h) = Len(a) + Len(h)
              /\ \A i \in 1 .. Len(a) + Len(h) :
                    (a \o h)[i] = IF i <= Len(a) THEN a[i] ELSE h[i - Len(a)]
            BY <2>1, ConcatProperties
        <3>2. Len(a) + Len(h) = 8 /\ Len(a) = 3
            BY <2>1
        <3> QED
            BY <3>1, <3>2
    <2>3. b \in Bytes(Len(b)) /\ b = a \o h
        BY <2>2, BytesMade DEF Cat
    <2> HIDE DEF b
    <2>4. Len(b) = 8 /\ \A i \in 1 .. 8 : b[i] = IF i <= 3 THEN a[i] ELSE h[i - 3]
        BY <2>2, <2>3
    <2>5. ASSUME NEW i \in 1 .. 5 PROVE b[3 + i] = h[i]
        <3>1. 3 + i \in 1 .. 8 /\ ~(3 + i <= 3) /\ (3 + i) - 3 = i
            OBVIOUS
        <3> QED
            BY <2>4, <3>1
    <2>6. \A i \in 1 .. 3 : b[i] = a[i]
        BY <2>4
    <2> QED
        BY <2>3, <2>4, <2>5, <2>6
<1>4. Address(n) = Low(b, 8)
    BY Zenon DEF Address, Cat, a, h
<1> HIDE DEF b
<1>5. Low(b, 8) = b
    <2>1. 8 \in Nat /\ 8 <= 8
        OBVIOUS
    <2> QED
        BY <1>3, <2>1, LowBytes
<1> QED
    BY <1>3, <1>4, <1>5 DEF Words, a, h

\* An address is a word of the target.
LEMMA AddressType ==
    ASSUME Target, NEW n \in Nat
    PROVE  Address(n) \in Words /\ Fits(Address(n), w)
<1> DEFINE b == Address(n)  h == setup.high
<1>1. b \in Words /\ \A i \in 1 .. 5 : b[3 + i] = h[i]
    BY AddressParts
<1>2. w = 4 => \A i \in 2 .. 5 : h[i] = 0
    BY DEF Target
<1> HIDE DEF b, h
<1>3. ASSUME w = 4, NEW i \in 5 .. 8 PROVE b[i] = 0
    <2>1. i - 3 \in 2 .. 5 /\ i - 3 \in 1 .. 5 /\ 3 + (i - 3) = i
        OBVIOUS
    <2>2. h[i - 3] = 0 /\ b[3 + (i - 3)] = h[i - 3]
        BY <1>1, <1>2, <1>3, <2>1
    <2> QED
        BY <2>1, <2>2
<1>4. b \in Words /\ Fits(b, w)
    BY <1>1, <1>3 DEF Fits
<1> QED
    BY <1>4 DEF b

\* The address of flush is a word in which no placeholder is.
LEMMA FlushClear ==
    /\ FLUSH \in Words
    /\ ~Occurs(FLUSH, REPLACE_WITH_REGHOOK_OFFSET) /\ ~Occurs(FLUSH, REPLACE_WITH_REGHOOK_SIZE)
<1> DEFINE f == FLUSH  o == REPLACE_WITH_REGHOOK_OFFSET  s == REPLACE_WITH_REGHOOK_SIZE
<1>1. f \in Bytes(8) /\ \A i \in 1 .. 8 : f[i] > 200 /\ f[i] < 209 /\ f[i] # 163 /\ f[i] # 33
    BY DEF FLUSH, Bytes, Byte
<1>2. o \in Bytes(4) /\ s \in Bytes(4) /\ o[1] = 163 /\ s[1] = 33
    BY DEF REPLACE_WITH_REGHOOK_OFFSET, REPLACE_WITH_REGHOOK_SIZE, Bytes, Byte
<1> HIDE DEF f, o, s
<1>3. 8 \in Nat /\ 4 \in Nat /\ 4 > 0
    OBVIOUS
<1>4. ~Occurs(f, o)
    BY <1>1, <1>2, <1>3, Absent
<1>5. ~Occurs(f, s)
    BY <1>1, <1>2, <1>3, Absent
<1> QED
    BY <1>1, <1>4, <1>5 DEF f, o, s, Words

\* The register block is a string of bytes behind the fields of Cannoli.
LEMMA BlockType ==
    ASSUME Target, guest.ra \in Nat
    PROVE  /\ Gprs.offset = 24 /\ Gprs.size = Abi[setup.arch].n * w
           /\ Gprs.size \in Nat /\ Gprs.size <= 256 /\ Gprs.size > 0
           /\ Block \in Bytes(Gprs.size)
           /\ Env \in Seq(Byte) /\ Gprs.offset + Gprs.size <= Len(Env)
           /\ Field(Env, Gprs.offset, Gprs.size) = Block
<1> DEFINE n == Abi[setup.arch].n  link == Abi[setup.arch].ra  a == Address(guest.ra)
           m == n * w  b == Block
<1>1. a \in Words
    BY AddressType
<1>2. (w = 4 /\ n = 16) \/ (w = 4 /\ n = 32) \/ (w = 8 /\ n = 32)
    BY DEF Target
<1>3. b = [i \in 1 .. m |-> IF (i - 1) \div w = link THEN a[((i - 1) % w) + 1]
                            ELSE (i - 1) \div w + 1]
    BY DEF Block
<1>4. Gprs.offset = 24 /\ Gprs.size = m
    BY DEF Gprs
<1>5. m \in {64, 128, 256}
    BY <1>2
<1> HIDE DEF n, link, a
<1>6. \A i \in 1 .. m : ((i - 1) % w) + 1 \in 1 .. 8 /\ (i - 1) \div w + 1 \in 0 .. 255
    BY <1>2
<1>7. \A j \in 1 .. 8 : a[j] \in 0 .. 255
    BY <1>1 DEF Words, Bytes, Byte
<1> HIDE DEF m, b
<1>8. b \in Bytes(m)
    <2>1. ASSUME NEW i \in 1 .. m PROVE b[i] \in 0 .. 255
        <3> DEFINE j == ((i - 1) % w) + 1  k == (i - 1) \div w + 1
        <3>1. j \in 1 .. 8 /\ k \in 0 .. 255
            BY <1>6
        <3>2. b[i] = IF (i - 1) \div w = link THEN a[j] ELSE k
            BY <1>3
        <3> HIDE DEF j, k
        <3>3. a[j] \in 0 .. 255
            BY <1>7, <3>1
        <3> QED
            BY <3>1, <3>2, <3>3
    <2> QED
        BY <1>3, <2>1 DEF Bytes, Byte
<1> DEFINE x == [i \in 1 .. 24 |-> 238]  y == [i \in 1 .. 16 |-> 238]  xb == Cat(x, b)
           k == 24 + m  env == Cat(xb, y)
<1>9. x \in Bytes(24) /\ y \in Bytes(16)
    BY DEF Bytes, Byte
<1>10. env = Env
    BY Zenon DEF Env, Cat, b
<1> HIDE DEF x, y
<1>11. 24 \in Nat /\ 16 \in Nat /\ m \in Nat /\ k \in Nat /\ k = 24 + m
    BY <1>5
<1> HIDE DEF k, xb, env
<1>12. xb \in Bytes(k) /\ Field(xb, 24, m) = b
    BY <1>8, <1>9, <1>11, Grows DEF xb, Cat
<1>13. xb \in Seq(Byte) /\ Len(xb) = k /\ y \in Seq(Byte) /\ Len(y) = 16
    BY <1>9, <1>11, <1>12, BytesType
<1>14. env \in Seq(Byte) /\ Len(env) = k + 16
    <2>1. xb \o y \in Seq(Byte) /\ Len(xb \o y) = Len(xb) + Len(y)
        BY <1>13, ConcatProperties
    <2> QED
        BY <1>13, <2>1 DEF env, Cat
<1>16. m = Abi[setup.arch].n * w /\ b = Block
    BY DEF m, n, b
<1>17. Gprs.offset = 24 /\ Gprs.size = m /\ m <= 256 /\ m > 0 /\ 24 + m <= Len(env)
    BY <1>4, <1>5, <1>11, <1>14
<1>15. Field(env, 24, m) = Field(xb, 24, m)
    <2>1. 24 + m <= Len(xb)
        BY <1>11, <1>13
    <2> QED
        BY <1>11, <1>13, <2>1, FieldLeft DEF env, Cat
<1> QED
    BY <1>8, <1>10, <1>11, <1>12, <1>14, <1>15, <1>16, <1>17

-----------------------------------------------------------------------------
(* The hooks of an instruction tell its events. *)

\* One hook, ...
LEMMA OneHook ==
    ASSUME NEW h, NEW feature, NEW ev, HookSays(h, feature, ev)
    PROVE  HooksTell(<<h>>, feature, <<ev>>)
<1>1. IsSeq(<<h>>) /\ IsSeq(<<ev>>)
    BY OneElement
<1>2. /\ Len(<<h>>) = 1 /\ Len(<<ev>>) = 1
      /\ \A i \in 1 .. 1 : <<h>>[i] = h /\ <<ev>>[i] = ev
    OBVIOUS
<1> DEFINE s == <<h>>  t == <<ev>>
<1> HIDE DEF s, t
<1>3. /\ IsSeq(s) /\ IsSeq(t) /\ Len(s) = 1 /\ Len(t) = 1
      /\ \A i \in 1 .. 1 : s[i] = h /\ t[i] = ev
    BY <1>1, <1>2 DEF s, t
<1>4. HooksTell(s, feature, t)
    BY <1>3 DEF HooksTell
<1> QED
    BY <1>4 DEF s, t

\* ... none, ...
LEMMA NoHook ==
    ASSUME NEW feature
    PROVE  HooksTell(<<>>, feature, <<>>)
<1> DEFINE none == <<>>
<1>1. none \in Seq({}) /\ Len(none) = 0
    OBVIOUS
<1> HIDE DEF none
<1>2. HooksTell(none, feature, none)
    BY <1>1 DEF HooksTell, IsSeq
<1> QED
    BY <1>2 DEF none

\* Two sequences, element by element.
LEMMA CatAt ==
    ASSUME NEW s, NEW t, IsSeq(s), IsSeq(t)
    PROVE  /\ IsSeq(Cat(s, t)) /\ Len(s) \in Nat /\ Len(t) \in Nat
           /\ Len(Cat(s, t)) = Len(s) + Len(t)
           /\ \A i \in 1 .. Len(s) + Len(t) :
                 Cat(s, t)[i] = IF i <= Len(s) THEN s[i] ELSE t[i - Len(s)]
<1>1. PICK S : s \in Seq(S) /\ t \in Seq(S)
    BY CommonSet
<1>2. Len(s) \in Nat /\ Len(t) \in Nat
    BY <1>1, LenProperties
<1> QED
    BY <1>1, <1>2, ConcatProperties DEF Cat, IsSeq

\* ... and some more.
LEMMA HooksBoth ==
    ASSUME NEW s, NEW t, NEW feature, NEW g, NEW e,
           HooksTell(s, feature, g), HooksTell(t, feature, e)
    PROVE  HooksTell(Cat(s, t), feature, Cat(g, e))
<1>1. /\ IsSeq(s) /\ IsSeq(g) /\ Len(s) = Len(g)
      /\ \A i \in 1 .. Len(s) : HookSays(s[i], feature, g[i])
    BY DEF HooksTell
<1>2. /\ IsSeq(t) /\ IsSeq(e) /\ Len(t) = Len(e)
      /\ \A i \in 1 .. Len(t) : HookSays(t[i], feature, e[i])
    BY DEF HooksTell
<1> DEFINE m == Len(s)  n == Len(t)  st == Cat(s, t)  ge == Cat(g, e)
<1>3. /\ IsSeq(st) /\ m \in Nat /\ n \in Nat /\ Len(st) = m + n
      /\ \A i \in 1 .. m + n : st[i] = IF i <= m THEN s[i] ELSE t[i - m]
    BY <1>1, <1>2, CatAt
<1>4. /\ IsSeq(ge) /\ Len(ge) = m + n
      /\ \A i \in 1 .. m + n : ge[i] = IF i <= m THEN g[i] ELSE e[i - m]
    BY <1>1, <1>2, CatAt
<1> HIDE DEF m, n, st, ge
<1>5. ASSUME NEW i \in 1 .. m + n PROVE HookSays(st[i], feature, ge[i])
    <2>1. CASE i <= m
        <3>1. i \in 1 .. m
            BY <1>3, <2>1
        <3>2. st[i] = s[i] /\ ge[i] = g[i]
            BY <1>3, <1>4, <2>1
        <3> QED
            BY <1>1, <3>1, <3>2 DEF m
    <2>2. CASE ~(i <= m)
        <3>1. i - m \in 1 .. n
            BY <1>3, <2>2
        <3>2. st[i] = t[i - m] /\ ge[i] = e[i - m]
            BY <1>3, <1>4, <2>2
        <3> QED
            BY <1>2, <3>1, <3>2 DEF n
    <2> QED
        BY <2>1, <2>2
<1>6. HooksTell(st, feature, ge)
    BY <1>3, <1>4, <1>5 DEF HooksTell
<1> QED
    BY <1>6 DEF st, ge

\* What a client cannot stand in an event happens for known reasons only.
Harmless(program, why, ev) ==
    /\ ev.op \in Kinds /\ (ev.op \in {"read", "write"} => ev.addr \in Words)
    /\ Panics(program, ev) => why \cap {"foreign", "elf"} # {}
    /\ program = "visualization" /\ ev.op \in {"read", "write"} /\ ev.addr[4] >= ADDR_MAX =>
          why \cap {"address", "placeholder"} # {}

\* An event is told as it happened, but for the address of the second half of a
\* load of 128 bits and program counters that contain a placeholder.
SameEvent(program, why, g, e) ==
    /\ g = e \/ (e.op = "read" /\ "load128" \in why) \/ "placeholder" \in why
    /\ g.op = e.op /\ (e.op \in {"regs", "branch"} => g.regs = e.regs)
    /\ Harmless(program, why, g)
Alike(program, why, t, e) ==
    /\ IsSeq(t) /\ IsSeq(e) /\ Len(t) = Len(e)
    /\ \A i \in 1 .. Len(e) : SameEvent(program, why, t[i], e[i])

\* No events.
LEMMA AlikeNone ==
    ASSUME NEW program, NEW why, NEW none, none = <<>>
    PROVE  Alike(program, why, none, none)
<1>1. IsSeq(none) /\ Len(none) = 0
    BY DEF IsSeq
<1> QED
    BY <1>1 DEF Alike

\* An event that is told at another program counter, too, is the same.
SameAt(program, why, pc, ev) == \A e : AtSome(pc, e, ev) => SameEvent(program, why, e, ev)

\* A hook that tells an event fits a chunk and tells the same event.
LEMMA HookSame ==
    ASSUME NEW h, NEW feature, NEW pc, NEW ev, HookTells(h, feature, FLUSH, pc, ev),
           ChunkSize[lib.inst] \in Nat, Room(ev) \in Nat, Room(ev) <= ChunkSize[lib.inst],
           NEW program, NEW why, SameAt(program, why, pc, ev)
    PROVE  \E e : HookSays(h, feature, e) /\ SameEvent(program, why, e, ev)
<1>1. /\ h.flush = FLUSH /\ h.packet \in Seq(Byte)
      /\ Len(h.packet) = h.room /\ h.room <= Room(ev)
    BY DEF HookTells
<1>2. PICK e : AtSome(pc, e, ev) /\ Tells(feature, h.packet, e)
    BY DEF HookTells
<1>3. h.room \in Nat
    BY <1>1, LenProperties
<1>4. h.room <= ChunkSize[lib.inst]
    BY <1>1, <1>3
<1>5. HookSays(h, feature, e)
    BY <1>1, <1>2, <1>4 DEF HookSays
<1> QED
    BY <1>2, <1>5 DEF SameAt

\* A program counter is told as it is, unless it contains a placeholder.
LEMMA ExecSame ==
    ASSUME NEW program, NEW why, NEW pc, ~Clear(pc) => "placeholder" \in why
    PROVE  SameAt(program, why, pc, [op |-> "exec", pc |-> pc])
<1> DEFINE ev == [op |-> "exec", pc |-> pc]
<1>1. SUFFICES ASSUME NEW e, AtSome(pc, e, ev) PROVE SameEvent(program, why, e, ev)
    BY DEF SameAt
<1>2. e.op = "exec" /\ (e = ev \/ "placeholder" \in why)
    <2>1. CASE e = ev
        BY <2>1
    <2>2. CASE ~Clear(pc) /\ \E v : e = [ev EXCEPT !.pc = v]
        <3>1. PICK v : e = [ev EXCEPT !.pc = v]
            BY <2>2
        <3> QED
            BY <2>2, <3>1
    <2> QED
        BY <1>1, <2>1, <2>2 DEF AtSome
<1>3. ev.op = "exec"
    OBVIOUS
<1> HIDE DEF ev
<1> QED
    BY <1>2, <1>3 DEF SameEvent, Harmless, Kinds, Panics

\* So are the registers, ...
LEMMA RegsSame ==
    ASSUME NEW program, NEW why, NEW pc, ~Clear(pc) => "placeholder" \in why, NEW block,
           program = "regtrace" /\ Len(block) \div 4 > 32 => "foreign" \in why
    PROVE  SameAt(program, why, pc, [op |-> "regs", pc |-> pc, regs |-> block])
<1> DEFINE ev == [op |-> "regs", pc |-> pc, regs |-> block]
<1>1. SUFFICES ASSUME NEW e, AtSome(pc, e, ev) PROVE SameEvent(program, why, e, ev)
    BY DEF SameAt
<1>2. e.op = "regs" /\ e.regs = block /\ (e = ev \/ "placeholder" \in why)
    <2>1. CASE e = ev
        BY <2>1
    <2>2. CASE ~Clear(pc) /\ \E v : e = [ev EXCEPT !.pc = v]
        <3>1. PICK v : e = [ev EXCEPT !.pc = v]
            BY <2>2
        <3> QED
            BY <2>2, <3>1
    <2> QED
        BY <1>1, <2>1, <2>2 DEF AtSome
<1>3. ev.op = "regs" /\ ev.regs = block
    OBVIOUS
<1> HIDE DEF ev
<1> QED
    BY <1>2, <1>3 DEF SameEvent, Harmless, Kinds, Panics

\* ... with a branch, ...
LEMMA BranchSame ==
    ASSUME NEW program, NEW why, NEW pc, ~Clear(pc) => "placeholder" \in why, NEW block,
           NEW bb_end, program = "backtrace" /\ Len(block) < 32 * 4 => "foreign" \in why
    PROVE  SameAt(program, why, pc,
                  [op |-> "branch", pc |-> pc, branch |-> bb_end, regs |-> block])
<1> DEFINE ev == [op |-> "branch", pc |-> pc, branch |-> bb_end, regs |-> block]
<1>1. SUFFICES ASSUME NEW e, AtSome(pc, e, ev) PROVE SameEvent(program, why, e, ev)
    BY DEF SameAt
<1>2. e.op = "branch" /\ e.regs = block /\ (e = ev \/ "placeholder" \in why)
    <2>1. CASE e = ev
        BY <2>1
    <2>2. CASE ~Clear(pc) /\ \E v : e = [ev EXCEPT !.pc = v]
        <3>1. PICK v : e = [ev EXCEPT !.pc = v]
            BY <2>2
        <3> QED
            BY <2>2, <3>1
    <2> QED
        BY <1>1, <2>1, <2>2 DEF AtSome
<1>3. ev.op = "branch" /\ ev.regs = block
    OBVIOUS
<1> HIDE DEF ev
<1> QED
    BY <1>2, <1>3 DEF SameEvent, Harmless, Kinds, Panics

\* More events.
LEMMA AlikeCat ==
    ASSUME NEW program, NEW why, NEW s, NEW t, NEW g, NEW e, Alike(program, why, s, g), Alike(program, why, t, e)
    PROVE  Alike(program, why, Cat(s, t), Cat(g, e))
<1>1. /\ IsSeq(s) /\ IsSeq(g) /\ Len(s) = Len(g)
      /\ \A i \in 1 .. Len(g) : SameEvent(program, why, s[i], g[i])
    BY DEF Alike
<1>2. /\ IsSeq(t) /\ IsSeq(e) /\ Len(t) = Len(e)
      /\ \A i \in 1 .. Len(e) : SameEvent(program, why, t[i], e[i])
    BY DEF Alike
<1> DEFINE m == Len(s)  n == Len(t)  st == Cat(s, t)  ge == Cat(g, e)
<1>3. /\ IsSeq(st) /\ m \in Nat /\ n \in Nat /\ Len(st) = m + n
      /\ \A i \in 1 .. m + n : st[i] = IF i <= m THEN s[i] ELSE t[i - m]
    BY <1>1, <1>2, CatAt
<1>4. /\ IsSeq(ge) /\ Len(ge) = m + n
      /\ \A i \in 1 .. m + n : ge[i] = IF i <= m THEN g[i] ELSE e[i - m]
    BY <1>1, <1>2, CatAt
<1> HIDE DEF st, ge
<1>7. (\A i \in 1 .. m : SameEvent(program, why, s[i], g[i])) /\ \A i \in 1 .. n : SameEvent(program, why, t[i], e[i])
    BY <1>1, <1>2
<1> HIDE DEF m, n
<1>5. ASSUME NEW i \in 1 .. m + n PROVE SameEvent(program, why, st[i], ge[i])
    <2>1. CASE i <= m
        <3>1. i \in 1 .. m
            BY <1>3, <2>1
        <3>2. st[i] = s[i] /\ ge[i] = g[i]
            BY <1>3, <1>4, <2>1
        <3> QED
            BY <1>7, <3>1, <3>2
    <2>2. CASE ~(i <= m)
        <3>1. i - m \in 1 .. n
            BY <1>3, <2>2
        <3>2. st[i] = t[i - m] /\ ge[i] = e[i - m]
            BY <1>3, <1>4, <2>2
        <3> QED
            BY <1>7, <3>1, <3>2
    <2> QED
        BY <2>1, <2>2
<1>6. Alike(program, why, st, ge)
    BY <1>3, <1>4, <1>5 DEF Alike
<1> QED
    BY <1>6 DEF st, ge

\* One event.
LEMMA AlikeOne ==
    ASSUME NEW program, NEW why, NEW g, NEW e, SameEvent(program, why, g, e)
    PROVE  Alike(program, why, <<g>>, <<e>>)
<1> DEFINE s == <<g>>  t == <<e>>
<1>1. /\ IsSeq(s) /\ IsSeq(t) /\ Len(s) = 1 /\ Len(t) = 1
      /\ \A i \in 1 .. 1 : s[i] = g /\ t[i] = e
    BY OneElement
<1> HIDE DEF s, t
<1>2. Alike(program, why, s, t)
    BY <1>1 DEF Alike
<1> QED
    BY <1>2 DEF s, t

\* More reasons.
LEMMA AlikeMore ==
    ASSUME NEW program, NEW why, NEW more, why \subseteq more, NEW t, NEW e, Alike(program, why, t, e)
    PROVE  Alike(program, more, t, e)
<1>1. ASSUME NEW g, NEW h, SameEvent(program, why, g, h) PROVE SameEvent(program, more, g, h)
    BY <1>1 DEF SameEvent, Harmless
<1> QED
    BY <1>1 DEF Alike

\* Without placeholders and loads of 128 bits all events are told as they happened.
LEMMA AlikeSame ==
    ASSUME NEW program, NEW why, "load128" \notin why, "placeholder" \notin why,
           NEW t, NEW e, Alike(program, why, t, e)
    PROVE  t = e
<1>1. /\ IsSeq(t) /\ IsSeq(e) /\ Len(t) = Len(e)
      /\ \A i \in 1 .. Len(e) : t[i] = e[i]
    BY DEF Alike, SameEvent
<1>2. PICK S : t \in Seq(S) /\ e \in Seq(S)
    BY <1>1, CommonSet
<1> QED
    BY <1>1, <1>2, SeqEqual

\* The events of an instruction's hook.
Armed == ~(lib.inst = "Once" /\ guest.pc \in disarmed)
InstEvents(bb_end) == IF Armed THEN <<InstEvent(bb_end)>> ELSE <<>>

\* What is known to go wrong with the instruction's hook.
Blamed(why) ==
    /\ ~Clear(Address(guest.pc)) => "placeholder" \in why
    /\ <<setup.client, setup.arch>> \in {<<"regtrace", "aarch64">>, <<"backtrace", "armv5tel">>}
          => "foreign" \in why

\* Every packet of a hook fits a chunk.
LEMMA RoomFits ==
    ASSUME setup \in Setups
    PROVE  /\ ChunkSize[lib.inst] \in Nat /\ ChunkSize[lib.inst] >= 25
           /\ lib.inst \in {"Register", "Branch"} => ChunkSize[lib.inst] >= 14 + Gprs.size
BY SetupsAssumption DEF lib, w, Gprs

\* Only a client for another target cannot stand a register block.
LEMMA BlockStood ==
    ASSUME setup \in Setups, guest.ra \in Nat, NEW why, Blamed(why)
    PROVE  /\ Len(Block) = Gprs.size
           /\ setup.client = "regtrace" /\ Len(Block) \div 4 > 32 => "foreign" \in why
           /\ setup.client = "backtrace" /\ Len(Block) < 32 * 4 => "foreign" \in why
<1> DEFINE arch == setup.arch  n == Abi[arch].n * w
<1>1. Block \in Bytes(Gprs.size) /\ Gprs.size = n /\ Gprs.size \in Nat
    BY TargetOK, BlockType
<1>2. Len(Block) = n
    BY <1>1, BytesType
<1>3. arch \in {"mips", "armv5tel", "aarch64"} /\ w = IF arch = "aarch64" THEN 8 ELSE 4
    BY SetupsAssumption DEF Abi, w
<1>4. Abi["mips"].n = 32 /\ Abi["armv5tel"].n = 16 /\ Abi["aarch64"].n = 32
    BY DEF Abi
<1>5. \/ arch = "mips" /\ n = 128
      \/ arch = "armv5tel" /\ n = 64
      \/ arch = "aarch64" /\ n = 256
    BY <1>3, <1>4
<1> HIDE DEF n
<1>6. n \div 4 > 32 => arch = "aarch64"
    BY <1>5
<1>7. n < 32 * 4 => arch = "armv5tel"
    BY <1>5
<1> QED
    BY <1>1, <1>2, <1>6, <1>7 DEF Blamed

\* The instruction's hook tells that it ran, and its registers.
LEMMA InstHookTold ==
    ASSUME setup \in Setups, guest.pc \in Nat, guest.ra \in Nat, NEW bb_end \in BOOLEAN,
           NEW why, Blamed(why)
    PROVE  \E g : /\ HooksTell(InstHook(bb_end), setup.feature, g)
                  /\ Alike(setup.client, why, g, InstEvents(bb_end))
<1> DEFINE feature == setup.feature  pc == Address(guest.pc)  program == setup.client
           code == lift_instruction(w, pc, bb_end, lib.inst, FLUSH, Gprs)
           ev == InstEvent(bb_end)  size == ChunkSize[lib.inst]
<1>0. Target
    BY TargetOK
<1>1. pc \in Words /\ Fits(pc, w) /\ w \in Widths
    BY <1>0, AddressType DEF Target
<1>2. /\ Gprs.offset = 24 /\ Gprs.size \in Nat /\ Gprs.size <= 256
      /\ Env \in Seq(Byte) /\ Gprs.offset + Gprs.size <= Len(Env)
      /\ Field(Env, Gprs.offset, Gprs.size) = Block
    BY <1>0, BlockType
<1>3. lib.inst \in {"Always", "Once", "Register", "Branch"}
    BY <1>0 DEF Target
<1>8. ~Clear(pc) => "placeholder" \in why
    BY DEF Blamed
<1>9. size \in Nat /\ size >= 25 /\ (lib.inst \in {"Register", "Branch"} => size >= 14 + Gprs.size)
    BY RoomFits
<1>7. ASSUME NEW h, HookTells(h, feature, FLUSH, pc, ev), Room(ev) \in Nat, Room(ev) <= size,
             SameAt(program, why, pc, ev)
      PROVE  \E g : HooksTell(<<h>>, feature, g) /\ Alike(program, why, g, <<ev>>)
    <2> HIDE DEF feature, pc, program, ev
    <2>1. PICK e : HookSays(h, feature, e) /\ SameEvent(program, why, e, ev)
        BY <1>7, <1>9, HookSame
    <2>2. HooksTell(<<h>>, feature, <<e>>) /\ Alike(program, why, <<e>>, <<ev>>)
        BY <2>1, OneHook, AlikeOne
    <2> QED
        BY <2>2
<1>4. CASE ~Armed
    <2> DEFINE none == <<>>
    <2>1. InstHook(bb_end) = none /\ InstEvents(bb_end) = none
        BY <1>4 DEF InstHook, InstEvents, Armed
    <2>2. HooksTell(none, feature, none)
        BY NoHook
    <2>4. none = <<>>
        OBVIOUS
    <2> HIDE DEF none
    <2>3. Alike(program, why, none, none)
        BY <2>4, AlikeNone
    <2> QED
        BY <2>1, <2>2, <2>3
<1>5. CASE Armed /\ lib.inst \in {"Always", "Once"}
    <2>1. InstHook(bb_end) = <<RunInst(code, w)>>
        BY <1>5 DEF InstHook, Armed
    <2>2. ev = [op |-> "exec", pc |-> pc]
        BY <1>5 DEF InstEvent
    <2>3. InstEvents(bb_end) = <<ev>>
        BY <1>5 DEF InstEvents
    <2> DEFINE type == lib.inst  h == RunInst(lift_instruction(w, pc, bb_end, type, FLUSH, Gprs), w)
    <2>4. type \in {"Always", "Once"} /\ FLUSH \in Words
        BY <1>5, FlushClear
    <2>8. Room(ev) = 25
        BY <2>2 DEF Room
    <2> HIDE DEF pc, type, ev, program, size
    <2>5. HookTells(h, feature, FLUSH, pc, [op |-> "exec", pc |-> pc])
        BY <1>1, <2>4, InstHookTells
    <2>9. SameAt(program, why, pc, [op |-> "exec", pc |-> pc])
        BY <1>8, ExecSame
    <2>6. HookTells(h, feature, FLUSH, pc, ev) /\ SameAt(program, why, pc, ev)
        <3> HIDE DEF h
        <3> QED
            BY <2>2, <2>5, <2>9
    <2> HIDE DEF h
    <2>7. \E g : HooksTell(<<h>>, feature, g) /\ Alike(program, why, g, <<ev>>)
        BY <1>7, <1>9, <2>6, <2>8
    <2> QED
        BY <2>1, <2>3, <2>7 DEF type, pc, h, program
<1>6. CASE Armed /\ lib.inst \in {"Register", "Branch"}
    <2>1. InstHook(bb_end) = <<RunRegs(code, w, Env)>>
        BY <1>6 DEF InstHook, Armed
    <2>2. InstEvents(bb_end) = <<ev>>
        BY <1>6 DEF InstEvents
    <2> DEFINE gprs == Gprs  env == Env  flush == FLUSH  block == Field(env, gprs.offset, gprs.size)
               h(type) == RunRegs(lift_instruction(w, pc, bb_end, type, flush, gprs), w, env)
    <2>3. /\ flush \in Words /\ ~Occurs(flush, REPLACE_WITH_REGHOOK_OFFSET)
          /\ ~Occurs(flush, REPLACE_WITH_REGHOOK_SIZE)
        BY FlushClear
    <2>4. /\ gprs.offset \in Nat /\ gprs.offset < Huge /\ gprs.size \in Nat /\ gprs.size < Huge
          /\ env \in Seq(Byte) /\ gprs.offset + gprs.size <= Len(env) /\ block = Block
        <3>1. gprs.offset \in Nat /\ gprs.offset < Huge /\ gprs.size \in Nat /\ gprs.size < Huge
            BY <1>2 DEF Huge
        <3> QED
            BY <1>2, <3>1
    <2>8. /\ Len(block) = gprs.size
          /\ program = "regtrace" /\ Len(block) \div 4 > 32 => "foreign" \in why
          /\ program = "backtrace" /\ Len(block) < 32 * 4 => "foreign" \in why
        <3> HIDE DEF block
        <3> QED
            BY <2>4, BlockStood
    <2>9. gprs.size \in Nat /\ size >= 14 + gprs.size
        BY <1>2, <1>6, <1>9
    <2> HIDE DEF pc, gprs, env, flush, ev, program, size
    <2>5. /\ HookTells(h("Register"), feature, flush, pc,
                       [op |-> "regs", pc |-> pc, regs |-> block])
          /\ HookTells(h("Branch"), feature, flush, pc,
                       [op |-> "branch", pc |-> pc, branch |-> bb_end, regs |-> block])
        BY <1>1, <2>3, <2>4, RegsHookTells
    <2>6. /\ HookTells(h(lib.inst), feature, flush, pc, ev)
          /\ SameAt(program, why, pc, ev)
          /\ Room(ev) \in Nat /\ Room(ev) <= size
        <3>1. CASE lib.inst = "Register"
            <4>1. ev = [op |-> "regs", pc |-> pc, regs |-> block]
                BY <2>4, <3>1 DEF ev, InstEvent, pc
            <4>2. ev.op = "regs" /\ ev.regs = block
                BY <4>1
            <4> HIDE DEF h, block
            <4>3. SameAt(program, why, pc, [op |-> "regs", pc |-> pc, regs |-> block])
                BY <1>8, <2>8, RegsSame
            <4>4. Room(ev) = 14 + gprs.size
                BY <2>8, <4>2 DEF Room
            <4>5. HookTells(h(lib.inst), feature, flush, pc, ev)
                BY <2>5, <3>1, <4>1
            <4> QED
                BY <1>9, <2>9, <4>1, <4>3, <4>4, <4>5
        <3>2. CASE lib.inst = "Branch"
            <4>1. ev = [op |-> "branch", pc |-> pc, branch |-> bb_end, regs |-> block]
                BY <2>4, <3>2 DEF ev, InstEvent, pc
            <4>2. ev.op = "branch" /\ ev.regs = block
                BY <4>1
            <4> HIDE DEF h, block
            <4>3. SameAt(program, why, pc, [op |-> "branch", pc |-> pc, branch |-> bb_end,
                                            regs |-> block])
                BY <1>8, <2>8, BranchSame
            <4>4. Room(ev) = 14 + gprs.size
                BY <2>8, <4>2 DEF Room
            <4>5. HookTells(h(lib.inst), feature, flush, pc, ev)
                BY <2>5, <3>2, <4>1
            <4> QED
                BY <1>9, <2>9, <4>1, <4>3, <4>4, <4>5
        <3> QED
            BY <1>6, <3>1, <3>2
    <2>7. \E g : HooksTell(<<h(lib.inst)>>, feature, g) /\ Alike(program, why, g, <<ev>>)
        <3> DEFINE k == h(lib.inst)
        <3>1. HookTells(k, feature, FLUSH, pc, ev)
            BY <2>6 DEF flush
        <3> HIDE DEF h, k
        <3>2. \E g : HooksTell(<<k>>, feature, g) /\ Alike(program, why, g, <<ev>>)
            BY <1>7, <2>6, <3>1
        <3> QED
            BY <3>2 DEF k
    <2> QED
        BY <2>1, <2>2, <2>7 DEF pc, gprs, env, flush, program
<1> QED
    BY <1>3, <1>4, <1>5, <1>6

-----------------------------------------------------------------------------
(* The hooks of an access. *)

\* What WorkAssumption says of an access.
Work(a) ==
    /\ a.write \in BOOLEAN /\ a.size \in {1, 2, 4, 8, 16} /\ a.at \in Nat
    /\ {a.data, a.hi, a.addr} \subseteq HostRegisters \ {14}
    /\ a.size = 16 => w = 8

\* The size of a hook's access.
LEMMA MemopSize ==
    ASSUME NEW a, a.size \in {1, 2, 4, 8, 16}
    PROVE  /\ memop(a) \in 0 .. 3
           /\ a.size # 16 => AccessSize(memop(a)) = a.size
           /\ a.size = 16 => AccessSize(memop(a)) = 8
<1>1. CASE a.size = 1
    BY <1>1 DEF memop, AccessSize
<1>2. CASE a.size = 2
    BY <1>2 DEF memop, AccessSize
<1>3. CASE a.size = 4
    BY <1>3 DEF memop, AccessSize
<1>4. CASE a.size = 8
    BY <1>4 DEF memop, AccessSize
<1>5. CASE a.size = 16
    BY <1>5 DEF memop, AccessSize
<1> QED
    BY <1>1, <1>2, <1>3, <1>4, <1>5

\* The registers around an access.
LEMMA HostWords ==
    ASSUME Target, NEW a, Work(a)
    PROVE  /\ \A r \in HostRegisters : Host(a)[r] \in Words /\ HostLoaded(a)[r] \in Words
           /\ Host(a)[a.addr] = Address(a.at) /\ HostLoaded(a)[14] = Address(a.at)
           /\ DOMAIN Host(a) = HostRegisters /\ DOMAIN HostLoaded(a) = HostRegisters
<1> DEFINE at == Address(a.at)  fill == [i \in 1 .. 8 |-> 238]
<1>1. at \in Words
    BY AddressType DEF Work
<1>2. Lo \in Words /\ Hi \in Words /\ fill \in Words
    <2>1. Lo \in Words
        BY DEF Lo, Words, Bytes, Byte
    <2>2. Hi \in Words
        BY DEF Hi, Words, Bytes, Byte
    <2>3. fill \in Words
        BY DEF Words, Bytes, Byte
    <2> QED
        BY <2>1, <2>2, <2>3
<1>3. a.data \in HostRegisters /\ a.hi \in HostRegisters /\ a.addr \in HostRegisters
      /\ a.data # 14 /\ a.hi # 14 /\ a.addr # 14
    BY DEF Work
<1>4. 14 \in HostRegisters
    BY DEF HostRegisters
<1> DEFINE R == HostRegisters
           host == [r \in R |-> CASE r = a.addr -> at
                                  [] r # a.addr /\ r = a.data -> Lo
                                  [] r \notin {a.addr, a.data} /\ r = a.hi -> Hi
                                  [] OTHER -> fill]
           after == [r \in R |-> CASE r = a.data -> Lo
                                   [] r # a.data /\ r = a.hi -> Hi
                                   [] r = 14 -> at
                                   [] OTHER -> host[r]]
<1>5. host = Host(a)
    BY DEF Host, HostRegisters
<1>6. after = HostLoaded(a)
    <2>1. HostLoaded(a) = [r \in R |-> CASE r = a.data -> Lo
                                       [] r # a.data /\ r = a.hi -> Hi
                                       [] r = 14 -> at
                                       [] OTHER -> Host(a)[r]]
        BY DEF HostLoaded, HostRegisters
    <2> QED
        BY <1>5, <2>1, Zenon
<1> HIDE DEF at, fill, R
<1>7. \A r \in R : host[r] \in Words
    BY <1>1, <1>2
<1>8. host[a.addr] = at
    BY <1>3 DEF R
<1>9. DOMAIN host = R
    OBVIOUS
<1> HIDE DEF host
<1>10. (\A r \in R : after[r] \in Words) /\ DOMAIN after = R
    <2>1. SUFFICES ASSUME NEW r \in R PROVE after[r] \in Words
        OBVIOUS
    <2>2. after[r] \in {Lo, Hi, at, host[r]}
        <3>1. CASE r = a.data
            BY <3>1
        <3>2. CASE r # a.data /\ r = a.hi
            BY <3>2
        <3>3. CASE r \notin {a.data, a.hi} /\ r = 14
            BY <3>3
        <3>4. CASE r \notin {a.data, a.hi} /\ r # 14
            BY <3>4
        <3> QED
            BY <3>1, <3>2, <3>3, <3>4
    <2> QED
        BY <1>1, <1>2, <1>7, <2>2
<1>11. after[14] = at
    BY <1>3, <1>4 DEF R
<1> HIDE DEF after
<1> QED
    BY <1>5, <1>6, <1>7, <1>8, <1>9, <1>10, <1>11 DEF R, at

\* A word as the event of an access has it.
AccessEvent(write, at, val, size) ==
    [op |-> IF write THEN "write" ELSE "read", pc |-> Address(guest.pc), addr |-> at,
     val |-> U64(Low(val, size)), size |-> size]

\* What a hook leaves behind: the registers, but for r14.
Leaves(h, host) ==
    \E v \in Words : /\ w = 8 => h.host = [host EXCEPT ![14] = v]
                     /\ Clear(Address(guest.pc)) => v = Address(guest.pc)

\* Addresses a client does not draw have a reason.
Drawn(why, at) ==
    setup.client = "visualization" /\ at[4] >= ADDR_MAX => why \cap {"address", "placeholder"} # {}

\* An access is told at its address, unless the program counter has a placeholder.
LEMMA AccessSame ==
    ASSUME NEW program, NEW why, NEW pc, ~Clear(pc) => "placeholder" \in why,
           NEW op \in {"read", "write"}, NEW at \in Words, NEW val, NEW size,
           program = "visualization" /\ at[4] >= ADDR_MAX => why \cap {"address", "placeholder"} # {}
    PROVE  SameAt(program, why, pc,
                  [op |-> op, pc |-> pc, addr |-> at, val |-> val, size |-> size])
<1> DEFINE ev == [op |-> op, pc |-> pc, addr |-> at, val |-> val, size |-> size]
<1>1. SUFFICES ASSUME NEW e, AtSome(pc, e, ev) PROVE SameEvent(program, why, e, ev)
    BY DEF SameAt
<1>2. e.op = op /\ e.addr = at /\ (e = ev \/ "placeholder" \in why)
    <2>1. CASE e = ev
        BY <2>1
    <2>2. CASE ~Clear(pc) /\ \E v : e = [ev EXCEPT !.pc = v]
        <3>1. PICK v : e = [ev EXCEPT !.pc = v]
            BY <2>2
        <3> QED
            BY <2>2, <3>1
    <2> QED
        BY <1>1, <2>1, <2>2 DEF AtSome
<1>3. ev.op = op
    OBVIOUS
<1> HIDE DEF ev
<1> QED
    BY <1>2, <1>3 DEF SameEvent, Harmless, Kinds, Panics

\* One hook of an access.
LEMMA MemHookTold ==
    ASSUME setup \in Setups, guest.pc \in Nat, NEW write \in BOOLEAN, NEW d \in HostRegisters,
           NEW r \in HostRegisters, NEW m \in 0 .. 3, NEW host, NEW at \in Words, Fits(at, w),
           NEW val \in Words, host[r] = at, host[d] = val, NEW h,
           h = RunMem(lift_memop(w, Address(guest.pc), write, d, r, m, FLUSH), host),
           NEW why, Blamed(why), Drawn(why, at)
    PROVE  /\ \E g : /\ HookSays(h, setup.feature, g)
                     /\ SameEvent(setup.client, why, g, AccessEvent(write, at, val, AccessSize(m)))
           /\ Leaves(h, host)
<1> DEFINE feature == setup.feature  pc == Address(guest.pc)  flush == FLUSH
           program == setup.client
           size == AccessSize(m)  op == IF write THEN "write" ELSE "read"
           u == U64(Low(host[d], size))
           ev == [op |-> op, pc |-> pc, addr |-> host[r], val |-> u, size |-> size]
<1>0. Target
    BY TargetOK
<1>1. pc \in Words /\ Fits(pc, w) /\ w \in Widths /\ flush \in Words
    BY <1>0, AddressType, FlushClear DEF Target
<1>2. ev = AccessEvent(write, at, val, size)
    BY DEF AccessEvent
<1>3. host[r] \in Words /\ host[d] \in Words /\ Fits(host[r], w)
    OBVIOUS
<1>4. h = RunMem(lift_memop(w, pc, write, d, r, m, flush), host)
    OBVIOUS
<1>10. ~Clear(pc) => "placeholder" \in why
    BY DEF Blamed
<1>11. program = "visualization" /\ at[4] >= ADDR_MAX => why \cap {"address", "placeholder"} # {}
    BY DEF Drawn
<1>12. ChunkSize[lib.inst] \in Nat /\ ChunkSize[lib.inst] >= 25
    BY RoomFits
<1>13. op \in {"read", "write"} /\ Room(ev) = 25
    BY DEF Room
<1> HIDE DEF pc, flush, program, op, u
<1>8. AccessTold(feature, w, pc, write, d, r, m, flush, host)
    BY <1>1, <1>3, MemHookTells, Zenon
<1>5. HookTells(h, feature, flush, pc, ev) /\ Leaves(h, host)
    <2>1. /\ HookTells(h, feature, flush, pc, ev)
          /\ w = 4 => h.host = host
          /\ \E v \in Words : (w = 8 => h.host = [host EXCEPT ![14] = v]) /\ (Clear(pc) => v = pc)
        BY <1>4, <1>8, Zenon DEF AccessTold, op, u
    <2> QED
        BY <2>1, Zenon DEF Leaves, pc
<1>14. SameAt(program, why, pc, ev)
    <2>1. SameAt(program, why, pc,
                 [op |-> op, pc |-> pc, addr |-> at, val |-> u, size |-> size])
        <3> HIDE DEF size
        <3> QED
            BY <1>10, <1>11, <1>13, AccessSame
    <2>2. host[r] = at
        OBVIOUS
    <2> QED
        BY <2>1, <2>2
<1> HIDE DEF ev, size
<1>6. \E g : HookSays(h, feature, g) /\ SameEvent(program, why, g, ev)
    <2>1. HookTells(h, feature, FLUSH, pc, ev) /\ Room(ev) \in Nat
          /\ Room(ev) <= ChunkSize[lib.inst]
        BY <1>5, <1>12, <1>13 DEF flush
    <2> HIDE DEF feature
    <2> QED
        BY <1>12, <1>14, <2>1, HookSame
<1>7. \E g : HookSays(h, feature, g)
           /\ SameEvent(program, why, g, AccessEvent(write, at, val, size))
    BY <1>2, <1>6
<1> QED
    BY <1>5, <1>7 DEF size, program

\* The event of an access, or of half of one.
LEMMA HalfOne ==
    ASSUME NEW a, NEW at, NEW val, NEW size
    PROVE  HalfEvent(a, at, val, size) = AccessEvent(a.write, Address(at), val, size)
BY DEF HalfEvent, AccessEvent

\* One element behind another.
LEMMA TwoElements ==
    ASSUME NEW x, NEW y
    PROVE  Cat(<<x>>, <<y>>) = <<x, y>>
<1> DEFINE s == <<x>>  t == <<y>>  c == Cat(s, t)  d == <<x, y>>
<1>1. /\ IsSeq(s) /\ IsSeq(t) /\ Len(s) = 1 /\ Len(t) = 1 /\ s[1] = x /\ t[1] = y
    BY OneElement
<1>2. d \in Seq({x, y}) /\ Len(d) = 2 /\ d[1] = x /\ d[2] = y
    OBVIOUS
<1> HIDE DEF s, t, d
<1>9. /\ IsSeq(c) /\ Len(c) = Len(s) + Len(t)
      /\ \A i \in 1 .. Len(s) + Len(t) : c[i] = IF i <= Len(s) THEN s[i] ELSE t[i - Len(s)]
    BY <1>1, CatAt
<1>3. /\ IsSeq(c) /\ Len(c) = 1 + 1
      /\ \A i \in 1 .. 1 + 1 : c[i] = IF i <= 1 THEN s[i] ELSE t[i - 1]
    BY <1>1, <1>9
<1> HIDE DEF c
<1>4. c[1] = x /\ c[2] = y /\ Len(c) = 2
    <2>1. 1 \in 1 .. 1 + 1 /\ 2 \in 1 .. 1 + 1 /\ 1 <= 1 /\ ~(2 <= 1) /\ 2 - 1 = 1 /\ 1 + 1 = 2
        OBVIOUS
    <2>2. c[1] = s[1] /\ c[2] = t[2 - 1]
        BY <1>3, <2>1
    <2> QED
        BY <1>1, <1>3, <2>1, <2>2
<1>5. IsSeq(d)
    BY <1>2 DEF IsSeq
<1>6. PICK S : c \in Seq(S) /\ d \in Seq(S)
    BY <1>3, <1>5, CommonSet
<1>7. \A i \in 1 .. 2 : c[i] = d[i]
    BY <1>2, <1>4
<1>8. c = d
    BY <1>2, <1>4, <1>6, <1>7, SeqEqual
<1> QED
    BY <1>8 DEF c, d, s, t

\* Two hooks in a row.
LEMMA HooksPair ==
    ASSUME NEW feature, NEW h, NEW k, NEW g, NEW e,
           HookSays(h, feature, g), HookSays(k, feature, e)
    PROVE  HooksTell(Cat(<<h>>, <<k>>), feature, <<g, e>>)
<1> DEFINE s == <<h>>  t == <<k>>  f == <<g>>  d == <<e>>
<1>1. HooksTell(s, feature, f) /\ HooksTell(t, feature, d)
    BY OneHook
<1>2. Cat(f, d) = <<g, e>>
    BY TwoElements
<1> HIDE DEF s, t, f, d
<1>3. HooksTell(Cat(s, t), feature, Cat(f, d))
    BY <1>1, HooksBoth
<1> QED
    BY <1>2, <1>3 DEF s, t

\* Two events in a row.
LEMMA AlikePair ==
    ASSUME NEW program, NEW why, NEW g, NEW e, NEW h, NEW k, SameEvent(program, why, g, h), SameEvent(program, why, e, k)
    PROVE  Alike(program, why, <<g, e>>, <<h, k>>)
<1> DEFINE s == <<g>>  t == <<e>>  u == <<h>>  v == <<k>>
<1>1. Alike(program, why, s, u) /\ Alike(program, why, t, v)
    BY AlikeOne
<1>2. Cat(s, t) = <<g, e>> /\ Cat(u, v) = <<h, k>>
    BY TwoElements
<1> HIDE DEF s, t, u, v
<1>3. Alike(program, why, Cat(s, t), Cat(u, v))
    BY <1>1, AlikeCat
<1> QED
    BY <1>2, <1>3

\* The end of an address does not reach its top bytes.
LEMMA AddressTop ==
    ASSUME Target, NEW n \in Nat, NEW m \in Nat
    PROVE  Address(n)[4] = Address(m)[4]
<1>1. ASSUME NEW k \in Nat PROVE Address(k)[4] = setup.high[1]
    <2>1. \A i \in 1 .. 5 : Address(k)[3 + i] = setup.high[i]
        BY AddressParts
    <2>2. 1 \in 1 .. 5 /\ 3 + 1 = 4
        OBVIOUS
    <2> QED
        BY <2>1, <2>2
<1> QED
    BY <1>1

\* The two halves of an access, or the whole of it.
Halves(a) ==
    IF a.size = 16
    THEN <<HalfEvent(a, a.at, Value(a, a.data), 8), HalfEvent(a, a.at + 8, Value(a, a.hi), 8)>>
    ELSE <<HalfEvent(a, a.at, Value(a, a.data), a.size)>>

\* The hooks of a store tell what is stored where.
LEMMA StoreTold ==
    ASSUME setup \in Setups, guest.pc \in Nat, NEW a, Work(a), a.write, NEW why, Blamed(why),
           Drawn(why, Address(a.at))
    PROVE  \E g : /\ HooksTell(StoreHooks(a), setup.feature, g)
                  /\ Alike(setup.client, why, g, Halves(a))
<1> DEFINE feature == setup.feature  pc == Address(guest.pc)  m == memop(a)  size == AccessSize(m)
           program == setup.client
           host == Host(a)  at == Address(a.at)  at8 == Address(a.at + 8)
           half == [host EXCEPT ![14] = at8]
           hook == lift_memop(w, pc, TRUE, a.data, a.addr, m, FLUSH)
           hook2 == lift_memop(w, pc, TRUE, a.hi, 14, m, FLUSH)
           low == RunMem(hook, host)  high == RunMem(hook2, half)
           d == a.data  r == a.addr  hi == a.hi  val == host[d]  val2 == host[hi]  r14 == 14
           yes == TRUE
           ev == AccessEvent(yes, at, val, size)  ev2 == AccessEvent(yes, at8, val2, size)
<1>0. Target
    BY TargetOK
<1>1. d \in HostRegisters /\ r \in HostRegisters /\ hi \in HostRegisters /\ hi # r14
      /\ r14 \in HostRegisters /\ a.at \in Nat /\ a.at + 8 \in Nat
    BY DEF Work, HostRegisters
<1>2. at \in Words /\ at8 \in Words /\ Fits(at, w) /\ Fits(at8, w)
    BY <1>0, <1>1, AddressType
<1>19. Drawn(why, at) /\ Drawn(why, at8)
    <2>1. at8[4] = at[4]
        BY <1>0, <1>1, AddressTop
    <2> HIDE DEF at, at8
    <2>2. Drawn(why, at)
        BY DEF at
    <2> QED
        BY <2>1, <2>2 DEF Drawn
<1>3. host[r] = at /\ val \in Words /\ val2 \in Words /\ DOMAIN host = HostRegisters
    BY <1>0, <1>1, HostWords
<1>4. m \in 0 .. 3 /\ (a.size # 16 => size = a.size) /\ (a.size = 16 => size = 8)
    BY MemopSize DEF Work
<1>5. yes \in BOOLEAN
    OBVIOUS
<1>6. half[r14] = at8 /\ half[hi] = val2
    <2> HIDE DEF host, at8, hi
    <2> QED
        BY <1>1, <1>3
<1>7. low = RunMem(lift_memop(w, pc, yes, d, r, m, FLUSH), host)
    OBVIOUS
<1>8. high = RunMem(lift_memop(w, pc, yes, hi, r14, m, FLUSH), half)
    OBVIOUS
<1>9. Value(a, a.data) = val /\ Value(a, a.hi) = val2
    BY DEF Value
<1>10. val = host[d]
    OBVIOUS
<1>11. StoreHooks(a) = IF a.size = 16 THEN <<low>> \o <<high>> ELSE <<low>> \o <<>>
    BY DEF StoreHooks
<1>12. HalfEvent(a, a.at, val, size) = ev /\ HalfEvent(a, a.at + 8, val2, size) = ev2
    <2>1. a.write = TRUE
        BY DEF Work
    <2> QED
        BY <2>1, HalfOne
<1> HIDE DEF low, high, half, host, at, at8, m, d, r, hi, val, val2, r14, hook, hook2, yes, program
<1>13. \E g : HookSays(low, feature, g) /\ SameEvent(program, why, g, ev)
    BY <1>1, <1>2, <1>3, <1>4, <1>5, <1>7, <1>10, <1>19, MemHookTold DEF program
<1>14. \E g : HookSays(high, feature, g) /\ SameEvent(program, why, g, ev2)
    BY <1>1, <1>2, <1>3, <1>4, <1>5, <1>6, <1>8, <1>19, MemHookTold DEF program
<1> HIDE DEF ev, ev2, size, pc
<1>15. PICK g : HookSays(low, feature, g) /\ SameEvent(program, why, g, ev)
    BY <1>13
<1>16. PICK f : HookSays(high, feature, f) /\ SameEvent(program, why, f, ev2)
    BY <1>14
<1> HIDE DEF feature
<1>17. CASE a.size = 16
    <2>1. HooksTell(Cat(<<low>>, <<high>>), feature, <<g, f>>)
        BY <1>15, <1>16, HooksPair
    <2>2. Alike(program, why, <<g, f>>, <<ev, ev2>>)
        BY <1>15, <1>16, AlikePair
    <2>3. StoreHooks(a) = Cat(<<low>>, <<high>>)
        BY <1>11, <1>17 DEF Cat
    <2>4. Halves(a) = <<ev, ev2>>
        BY <1>4, <1>9, <1>12, <1>17 DEF Halves
    <2> QED
        BY <2>1, <2>2, <2>3, <2>4 DEF program, feature
<1>18. CASE a.size # 16
    <2>1. StoreHooks(a) = <<low>>
        BY <1>11, <1>18
    <2>2. Halves(a) = <<ev>>
        BY <1>4, <1>9, <1>12, <1>18 DEF Halves
    <2>3. HooksTell(<<low>>, feature, <<g>>) /\ Alike(program, why, <<g>>, <<ev>>)
        BY <1>15, OneHook, AlikeOne
    <2> QED
        BY <2>1, <2>2, <2>3 DEF program, feature
<1> QED
    BY <1>17, <1>18

\* The address of the second half is a word.
LEMMA PlusEightWord ==
    ASSUME NEW v \in Words
    PROVE  PlusEight(v) \in Words
<1>1. v \in [1 .. 8 -> 0 .. 255]
    BY DEF Words, Bytes, Byte
<1>5. ASSUME NEW x \in Int PROVE x % 256 \in 0 .. 255
    OBVIOUS
<1>2. ASSUME NEW i \in 1 .. 8
      PROVE  (v[1] + 8) % 256 \in 0 .. 255 /\ (v[i] + 1) % 256 \in 0 .. 255 /\ v[i] \in 0 .. 255
    <2>1. v[1] \in 0 .. 255 /\ v[i] \in 0 .. 255
        BY <1>1
    <2>2. v[1] + 8 \in Int /\ v[i] + 1 \in Int
        BY <2>1
    <2> QED
        BY <1>5, <2>1, <2>2
<1> DEFINE value(i) ==
        IF i = 1 THEN (v[1] + 8) % 256
        ELSE IF v[1] > 247 /\ \A j \in 2 .. i - 1 : v[j] = 255 THEN (v[i] + 1) % 256 ELSE v[i]
<1>3. ASSUME NEW i \in 1 .. 8 PROVE value(i) \in 0 .. 255
    <2> DEFINE c == (v[1] + 8) % 256  d == (v[i] + 1) % 256  e == v[i]
    <2>1. c \in 0 .. 255 /\ d \in 0 .. 255 /\ e \in 0 .. 255
        BY <1>2
    <2>2. value(i) \in {c, d, e}
        OBVIOUS
    <2> HIDE DEF c, d, e, value
    <2> QED
        BY <2>1, <2>2
<1>4. PlusEight(v) = [i \in 1 .. 8 |-> value(i)]
    BY DEF PlusEight
<1> HIDE DEF value
<1> QED
    BY <1>3, <1>4 DEF Words, Bytes, Byte

\* The hooks of a load tell what is loaded and where from; only of the second
\* half of 128 bits they tell another address.
LEMMA LoadTold ==
    ASSUME setup \in Setups, guest.pc \in Nat, NEW a, Work(a), ~a.write, NEW why, Blamed(why),
           Drawn(why, Address(a.at)),
           a.size = 16 => "load128" \in why /\ Drawn(why, PlusEight(Address(guest.pc)))
    PROVE  \E g : /\ HooksTell(LoadHooks(a), setup.feature, g)
                  /\ Alike(setup.client, why, g, Halves(a))
<1> DEFINE feature == setup.feature  pc == Address(guest.pc)  m == memop(a)  size == AccessSize(m)
           program == setup.client
           host == HostLoaded(a)  at == Address(a.at)
           hook == lift_memop(w, pc, FALSE, a.data, 14, m, FLUSH)
           hook2 == lift_memop(w, pc, FALSE, a.hi, 14, m, FLUSH)
           low == RunMem(hook, host)  left == low.host
           half == [left EXCEPT ![14] = PlusEight(@)]
           high == RunMem(hook2, half)
           d == a.data  hi == a.hi  val == host[d]  val2 == host[hi]  r14 == 14
           no == FALSE  at8 == PlusEight(left[14])  end == Address(a.at + 8)
           ev == AccessEvent(no, at, val, size)  ev2 == AccessEvent(no, at8, val2, size)
           ev3 == AccessEvent(no, end, val2, size)
<1>0. Target
    BY TargetOK
<1>1. d \in HostRegisters /\ hi \in HostRegisters /\ hi # r14 /\ r14 \in HostRegisters
      /\ a.at \in Nat
    BY DEF Work, HostRegisters
<1>2. at \in Words /\ Fits(at, w) /\ Drawn(why, at)
    BY <1>0, <1>1, AddressType
<1>3. host[r14] = at /\ val \in Words /\ val2 \in Words /\ DOMAIN host = HostRegisters
    BY <1>0, <1>1, HostWords
<1>4. m \in 0 .. 3 /\ (a.size # 16 => size = a.size) /\ (a.size = 16 => size = 8)
    BY MemopSize DEF Work
<1>5. no \in BOOLEAN
    OBVIOUS
<1>7. low = RunMem(lift_memop(w, pc, no, d, r14, m, FLUSH), host)
    OBVIOUS
<1>8. high = RunMem(lift_memop(w, pc, no, hi, r14, m, FLUSH), half)
    OBVIOUS
<1>9. Value(a, a.data) = val /\ Value(a, a.hi) = val2
    BY DEF Value
<1>10. val = host[d] /\ val2 = host[hi]
    OBVIOUS
<1>11. LoadHooks(a) = IF a.size = 16 THEN <<low>> \o <<high>> ELSE <<low>> \o <<>>
    BY DEF LoadHooks
<1>12. HalfEvent(a, a.at, val, size) = ev /\ HalfEvent(a, a.at + 8, val2, size) = ev3
    <2>1. a.write = FALSE
        BY DEF Work
    <2> QED
        BY <2>1, HalfOne
<1>13. left = low.host /\ half = [left EXCEPT ![14] = at8] /\ at8 = PlusEight(left[14])
    OBVIOUS
<1> HIDE DEF low, left, high, half, host, at, at8, m, d, hi, val, val2, hook, hook2, no, r14, end,
             program
<1>14. (\E g : HookSays(low, feature, g) /\ SameEvent(program, why, g, ev)) /\ Leaves(low, host)
    BY <1>1, <1>2, <1>3, <1>4, <1>5, <1>7, <1>10, MemHookTold DEF program
<1>6. PICK g : HookSays(low, feature, g) /\ SameEvent(program, why, g, ev)
    BY <1>14
<1>15. CASE a.size = 16
    <2>1. w = 8
        BY <1>15 DEF Work
    <2>2. PICK v \in Words : left = [host EXCEPT ![14] = v] /\ (Clear(pc) => v = pc)
        BY <1>13, <1>14, <2>1 DEF Leaves
    <2>3. left[14] = v /\ left[hi] = val2 /\ DOMAIN left = HostRegisters
        BY <1>1, <1>3, <1>10, <2>2 DEF r14
    <2>4. at8 \in Words /\ at8 = PlusEight(v)
        BY <1>13, <2>3, PlusEightWord
    <2>5. half[r14] = at8 /\ half[hi] = val2
        BY <1>1, <1>13, <2>3 DEF r14
    <2>6. Fits(at8, w)
        BY <2>1 DEF Fits
    <2>14. Drawn(why, at8)
        <3>1. CASE Clear(pc)
            <4>1. at8 = PlusEight(pc)
                BY <2>2, <2>4, <3>1
            <4> QED
                BY <1>15, <4>1
        <3>2. CASE ~Clear(pc)
            BY <3>2 DEF Drawn, Blamed
        <3> QED
            BY <3>1, <3>2
    <2>7. \E f : HookSays(high, feature, f) /\ SameEvent(program, why, f, ev2)
        BY <1>1, <1>3, <1>4, <1>5, <1>8, <2>4, <2>5, <2>6, <2>14, MemHookTold DEF program
    <2>8. PICK f : HookSays(high, feature, f) /\ SameEvent(program, why, f, ev2)
        BY <2>7
    <2>9. SameEvent(program, why, f, ev3)
        <3>1. ev2.op = "read" /\ ev3.op = "read"
            BY DEF AccessEvent, no
        <3> HIDE DEF ev2, ev3
        <3> QED
            BY <1>15, <2>8, <3>1 DEF SameEvent
    <2>10. LoadHooks(a) = Cat(<<low>>, <<high>>)
        BY <1>11, <1>15 DEF Cat
    <2>11. Halves(a) = <<ev, ev3>>
        BY <1>4, <1>9, <1>12, <1>15 DEF Halves
    <2> HIDE DEF ev, ev2, ev3, feature
    <2>12. HooksTell(Cat(<<low>>, <<high>>), feature, <<g, f>>)
        BY <1>6, <2>8, HooksPair
    <2>13. Alike(program, why, <<g, f>>, <<ev, ev3>>)
        BY <1>6, <2>9, AlikePair
    <2> QED
        BY <2>10, <2>11, <2>12, <2>13 DEF feature, program
<1>16. CASE a.size # 16
    <2>1. LoadHooks(a) = <<low>>
        BY <1>11, <1>16
    <2>2. Halves(a) = <<ev>>
        BY <1>4, <1>9, <1>12, <1>16 DEF Halves
    <2> HIDE DEF ev, feature
    <2>3. HooksTell(<<low>>, feature, <<g>>) /\ Alike(program, why, <<g>>, <<ev>>)
        BY <1>6, OneHook, AlikeOne
    <2> QED
        BY <2>1, <2>2, <2>3 DEF feature, program
<1> QED
    BY <1>15, <1>16

\* The hooks of an access tell it.
LEMMA MemHooksTold ==
    ASSUME setup \in Setups, guest.pc \in Nat, NEW a, Work(a), NEW why, Blamed(why),
           Drawn(why, Address(a.at)),
           lib.mem /\ a.size = 16 /\ ~a.write =>
               "load128" \in why /\ Drawn(why, PlusEight(Address(guest.pc)))
    PROVE  \E g : /\ HooksTell(MemHooks(a), setup.feature, g)
                  /\ Alike(setup.client, why, g, MemEvents(a))
<1> DEFINE feature == setup.feature  program == setup.client  e == MemEvents(a)
<1>1. CASE ~lib.mem
    <2> DEFINE none == <<>>
    <2>1. MemHooks(a) = none /\ e = none /\ none = <<>>
        BY <1>1 DEF MemHooks, MemEvents
    <2>2. HooksTell(none, feature, none)
        BY NoHook
    <2> HIDE DEF none, program
    <2>3. Alike(program, why, none, none)
        BY <2>1, AlikeNone
    <2> QED
        BY <2>1, <2>2, <2>3 DEF program
<1>2. CASE lib.mem /\ a.write
    <2>1. MemHooks(a) = StoreHooks(a) /\ e = Halves(a)
        BY <1>2 DEF MemHooks, MemEvents, Halves
    <2>2. \E g : HooksTell(StoreHooks(a), feature, g) /\ Alike(program, why, g, Halves(a))
        BY <1>2, StoreTold
    <2> QED
        BY <2>1, <2>2
<1>3. CASE lib.mem /\ ~a.write
    <2>1. MemHooks(a) = LoadHooks(a) /\ e = Halves(a)
        BY <1>3 DEF MemHooks, MemEvents, Halves
    <2>2. \E g : HooksTell(LoadHooks(a), feature, g) /\ Alike(program, why, g, Halves(a))
        BY <1>3, LoadTold
    <2> QED
        BY <2>1, <2>2
<1> QED
    BY <1>1, <1>2, <1>3

\* The hooks of an instruction.
HooksOf(bb_end, a) == InstHook(bb_end) \o (IF a = <<>> THEN <<>> ELSE MemHooks(a[1]))
EventsOf(bb_end, a) == Cat(InstEvents(bb_end), IF a = <<>> THEN <<>> ELSE MemEvents(a[1]))

\* The reasons of an instruction are what its hooks need to be blamed for.
LEMMA ReasonsBlamed ==
    ASSUME setup \in Setups, guest.pc \in Nat, NEW a, NEW why, Reasons(a) \subseteq why
    PROVE  /\ Blamed(why)
           /\ a # <<>> =>
                 /\ Drawn(why, Address(a[1].at))
                 /\ lib.mem /\ a[1].size = 16 /\ ~a[1].write =>
                       "load128" \in why /\ Drawn(why, PlusEight(Address(guest.pc)))
<1> DEFINE pc == Address(guest.pc)  at == Address(a[1].at)  end == PlusEight(pc)
           wide == a[1].size = 16 /\ ~a[1].write
           far == at[4] >= ADDR_MAX \/ (wide /\ end[4] >= ADDR_MAX)
           foreign == <<setup.client, setup.arch>> \in
                         {<<"regtrace", "aarch64">>, <<"backtrace", "armv5tel">>}
<1>1. (\E m \in Placeholders : Occurs(pc, m)) => "placeholder" \in why
    BY DEF Reasons, Given
<1>2. a # <<>> /\ lib.mem /\ wide => "load128" \in why
    BY DEF Reasons, Given
<1>3. foreign => "foreign" \in why
    BY DEF Reasons, Given
<1>4. a # <<>> /\ setup.client = "visualization" /\ far => "address" \in why
    BY DEF Reasons, Given
<1>5. ~Clear(pc) => "placeholder" \in why
    BY <1>1 DEF Clear
<1>6. Blamed(why)
    BY <1>3, <1>5 DEF Blamed
<1>7. ASSUME a # <<>> PROVE Drawn(why, at) /\ (lib.mem /\ wide => Drawn(why, end))
    <2>1. (setup.client = "visualization" /\ far => "address" \in why)
        BY <1>4, <1>7
    <2> HIDE DEF at, end, wide
    <2> QED
        BY <2>1 DEF Drawn
<1> QED
    BY <1>2, <1>6, <1>7

\* The hooks of an instruction tell that it ran and what it accessed.
LEMMA HooksOfTold ==
    ASSUME setup \in Setups, guest.pc \in Nat, guest.ra \in Nat, NEW bb_end \in BOOLEAN, NEW a,
           a # <<>> => Work(a[1]), NEW why, Reasons(a) \subseteq why
    PROVE  \E g : /\ HooksTell(HooksOf(bb_end, a), setup.feature, g)
                  /\ Alike(setup.client, why, g, EventsOf(bb_end, a))
<1> DEFINE feature == setup.feature  program == setup.client
           s == InstHook(bb_end)  t == IF a = <<>> THEN <<>> ELSE MemHooks(a[1])
           d == InstEvents(bb_end)  e == IF a = <<>> THEN <<>> ELSE MemEvents(a[1])
<1>1. \E f : HooksTell(s, feature, f) /\ Alike(program, why, f, d)
    BY ReasonsBlamed, InstHookTold
<1>2. \E g : HooksTell(t, feature, g) /\ Alike(program, why, g, e)
    <2>1. CASE a = <<>>
        <3> DEFINE none == <<>>
        <3>1. HooksTell(none, feature, none)
            BY NoHook
        <3>3. t = none /\ e = none /\ none = <<>>
            BY <2>1
        <3> HIDE DEF none, t, e, program
        <3>4. Alike(program, why, none, none)
            BY <3>3, AlikeNone
        <3> QED
            BY <3>1, <3>3, <3>4
    <2>2. CASE a # <<>>
        <3> DEFINE x == a[1]
        <3>1. t = MemHooks(x) /\ e = MemEvents(x) /\ Work(x)
            BY <2>2
        <3>2. /\ Blamed(why) /\ Drawn(why, Address(x.at))
              /\ lib.mem /\ x.size = 16 /\ ~x.write =>
                    "load128" \in why /\ Drawn(why, PlusEight(Address(guest.pc)))
            BY <2>2, ReasonsBlamed
        <3> HIDE DEF x, t, e
        <3>3. \E g : HooksTell(MemHooks(x), feature, g) /\ Alike(program, why, g, MemEvents(x))
            BY <3>1, <3>2, MemHooksTold
        <3> QED
            BY <3>1, <3>3
    <2> QED
        BY <2>1, <2>2
<1>3. HooksOf(bb_end, a) = Cat(s, t) /\ EventsOf(bb_end, a) = Cat(d, e)
    BY DEF HooksOf, EventsOf, Cat
<1> HIDE DEF s, t, d, e, feature, program
<1>4. PICK f : HooksTell(s, feature, f) /\ Alike(program, why, f, d)
    BY <1>1
<1>5. PICK g : HooksTell(t, feature, g) /\ Alike(program, why, g, e)
    BY <1>2
<1>6. HooksTell(Cat(s, t), feature, Cat(f, g)) /\ Alike(program, why, Cat(f, g), Cat(d, e))
    BY <1>4, <1>5, HooksBoth, AlikeCat
<1> QED
    BY <1>3, <1>6 DEF feature, program

-----------------------------------------------------------------------------
(* Reports of system calls. *)

\* A packet that tells the event, or, for a path that is not Unicode, an error.
Reported(packet, ev, why) ==
    \/ Tells(setup.feature, packet, ev)
    \/ /\ packet \in Seq(Byte) /\ packet # <<>>
       /\ ParsePacket(setup.feature, packet) = Ends("error") /\ "path" \in why

\* A string of bytes is its beginning and the rest.
LEMMA TwoFields ==
    ASSUME NEW b \in Seq(Byte), NEW n \in Nat, NEW k \in Nat, n + k = Len(b)
    PROVE  b = Field(b, 0, n) \o Field(b, n, k)
<1> DEFINE f == Field(b, 0, n)  g == Field(b, n, k)  c == f \o g
<1>1. f \in Seq(Byte) /\ Len(f) = n /\ \A i \in 1 .. n : f[i] = b[i]
    BY DEF Field
<1>2. g \in Seq(Byte) /\ Len(g) = k /\ \A i \in 1 .. k : g[i] = b[n + i]
    BY DEF Field
<1> HIDE DEF f, g
<1>3. c \in Seq(Byte) /\ Len(c) = n + k
      /\ \A i \in 1 .. n + k : c[i] = IF i <= n THEN f[i] ELSE g[i - n]
    BY <1>1, <1>2
<1> HIDE DEF c
<1>4. ASSUME NEW i \in 1 .. n + k PROVE c[i] = b[i]
    <2>1. CASE i <= n
        BY <1>1, <1>3, <2>1
    <2>2. CASE ~(i <= n)
        <3>1. i - n \in 1 .. k /\ n + (i - n) = i
            BY <2>2
        <3> QED
            BY <1>2, <1>3, <2>2, <3>1
    <2> QED
        BY <2>1, <2>2
<1>5. c = b
    BY <1>3, <1>4, SeqEqual
<1> QED
    BY <1>5 DEF c, f, g

\* What is sent of a report tells the event, or spoils the chunk: it was cut.
LEMMA SentTold ==
    ASSUME NEW packet, NEW ev, NEW why, Reported(packet, ev, why),
           ChunkSize[lib.inst] \in Nat, ChunkSize[lib.inst] >= 25,
           Len(packet) > ChunkSize[lib.inst] => "cut" \in why
    PROVE  \/ Says(setup.feature, Sent(packet), <<ev>>)
           \/ Spoilt(setup.feature, why, Sent(packet))
<1> DEFINE feature == setup.feature  n == ChunkSize[lib.inst]  p == Sent(packet)
<1>1. packet \in Seq(Byte) /\ packet # <<>> /\ Len(packet) \in Nat
      /\ \/ \E e : ParsePacket(feature, packet) = Event(e, <<>>)
         \/ ParsePacket(feature, packet) = Ends("error")
    BY LenProperties DEF Reported, Tells
<1>2. p = IF Len(packet) < n THEN packet ELSE Field(packet, 0, n)
    BY DEF Sent, Low
<1> HIDE DEF n
<1>3. CASE Len(packet) > n
    <2>1. p = Field(packet, 0, n)
        BY <1>1, <1>2, <1>3 DEF n
    <2>2. PICK k \in Nat : n + k = Len(packet)
        <3> DEFINE k == Len(packet) - n
        <3>1. k \in Nat /\ n + k = Len(packet)
            BY <1>1, <1>3 DEF n
        <3> QED
            BY <3>1
    <2>9. k \in Nat
        OBVIOUS
    <2> DEFINE y == Field(packet, n, k)
    <2>3. n \in Nat /\ 0 \in Nat /\ 0 + n <= Len(packet) /\ n + k <= Len(packet) /\ n > 0 /\ k > 0
        BY <1>1, <1>3, <2>2 DEF n
    <2>4. p \in Seq(Byte) /\ Len(p) = n
        BY <1>1, <2>1, <2>3, FieldType
    <2>5. y \in Seq(Byte) /\ Len(y) = k
        BY <1>1, <2>3, <2>9, FieldType
    <2>6. packet = p \o y
        <3>1. n \in Nat /\ n + k = Len(packet)
            BY <2>2, <2>3
        <3> QED
            BY <1>1, <2>1, <2>9, <3>1, TwoFields
    <2>7. p # <<>> /\ y # <<>>
        BY <2>3, <2>4, <2>5
    <2> HIDE DEF p, y, feature
    <2>8. Fails(feature, p)
        <3>1. \/ \E e : ParsePacket(feature, p \o y) = Event(e, <<>>)
              \/ ParsePacket(feature, p \o y) = Ends("error")
            BY <1>1, <2>6
        <3> QED
            BY <2>4, <2>5, <2>7, <3>1, CutFails
    <2> QED
        BY <1>3, <2>8 DEF Spoilt, p, feature, n
<1>4. CASE ~(Len(packet) > n)
    <2>1. p = packet
        <3>1. CASE Len(packet) = n
            BY <1>1, <1>2, <3>1, FieldAll
        <3>2. CASE Len(packet) # n
            BY <1>1, <1>2, <1>4, <3>2 DEF n
        <3> QED
            BY <3>1, <3>2
    <2> HIDE DEF p, feature
    <2>2. CASE Tells(feature, packet, ev)
        BY <2>1, <2>2, TellsAlone DEF p, feature
    <2>3. CASE ParsePacket(feature, packet) = Ends("error") /\ "path" \in why
        <3>1. ParsePacket(feature, packet).out = "error"
            BY <2>3 DEF Ends
        <3>2. Parsed(feature, packet).out = "error"
            <4>1. Parsed(feature, packet)
                      = [out |-> ParsePacket(feature, packet).out, evs |-> <<>>]
                BY <1>1, <3>1, ParsedEnd
            <4> QED
                BY <3>1, <4>1
        <3>3. Spoilt(feature, why, packet)
            BY <1>1, <2>3, <3>2 DEF Spoilt, Fails
        <3> QED
            BY <2>1, <3>3 DEF p, feature
    <2> QED
        BY <2>2, <2>3 DEF Reported, feature
<1> QED
    BY <1>3, <1>4

\* A mapping is reported, unless its path is not Unicode.
LEMMA MmapTells ==
    ASSUME setup \in Setups, NEW m \in Mmaps[setup.client], NEW why,
           ~Utf8(m.path) => "path" \in why
    PROVE  Reported(MmapPacket(w, m),
                    [op |-> "mmap", addr |-> m.addr, len |-> m.len, anon |-> m.anon,
                     read |-> m.read, write |-> m.write, exec |-> m.exec, path |-> m.path,
                     offset |-> m.offset], why)
<1> DEFINE feature == setup.feature  p == MmapPacket(w, m)
           ev == [op |-> "mmap", addr |-> m.addr, len |-> m.len, anon |-> m.anon,
                  read |-> m.read, write |-> m.write, exec |-> m.exec, path |-> m.path,
                  offset |-> m.offset]
<1>1. w \in Widths
    BY TargetOK DEF Target
<1>2. /\ m.addr \in Words /\ m.len \in Words /\ m.offset \in Words
      /\ Fits(m.addr, w) /\ Fits(m.len, w) /\ Fits(m.offset, w)
      /\ m.anon \in BOOLEAN /\ m.read \in BOOLEAN /\ m.write \in BOOLEAN /\ m.exec \in BOOLEAN
      /\ m.path \in Seq(Byte) /\ Len(m.path) < Huge
    <2>1. /\ \A v \in {m.addr, m.len, m.offset} : v \in Words /\ Fits(v, setup.width)
          /\ {m.anon, m.read, m.write, m.exec} \subseteq BOOLEAN
          /\ m.path \in Seq(Byte) /\ Len(m.path) < Huge
        BY WorkAssumption, Zenon
    <2>2. {m.anon, m.read, m.write, m.exec} \subseteq BOOLEAN
        BY <2>1
    <2>3. m.anon \in BOOLEAN /\ m.read \in BOOLEAN /\ m.write \in BOOLEAN /\ m.exec \in BOOLEAN
        BY <2>2, Zenon
    <2>4. w = setup.width
        BY DEF w
    <2> QED
        BY <2>1, <2>3, <2>4, Zenon
<1>3. /\ p \in Seq(Byte) /\ p # <<>>
      /\ ParsePacket(feature, p) = IF Utf8(m.path) THEN Event(ev, <<>>) ELSE Ends("error")
    BY <1>1, <1>2, MmapReported, Zenon
<1> HIDE DEF p, ev
<1>6. Reported(p, ev, why)
    <2>1. CASE Utf8(m.path)
        BY <1>3, <2>1 DEF Reported, Tells
    <2>2. CASE ~Utf8(m.path)
        BY <1>3, <2>2 DEF Reported
    <2> QED
        BY <2>1, <2>2
<1> QED
    BY <1>6 DEF p, ev

\* An unmapping is reported.
LEMMA MunmapTells ==
    ASSUME setup \in Setups, NEW m \in Munmaps[setup.client], NEW why
    PROVE  Reported(MunmapPacket(w, m.addr, m.len),
                    [op |-> "munmap", addr |-> m.addr, len |-> m.len], why)
<1>1. w \in Widths
    BY TargetOK DEF Target
<1>2. m.addr \in Words /\ m.len \in Words /\ Fits(m.addr, w) /\ Fits(m.len, w)
    <2>1. \A v \in {m.addr, m.len} : v \in Words /\ Fits(v, setup.width)
        BY WorkAssumption, Zenon
    <2> QED
        BY <2>1 DEF w
<1> DEFINE addr == m.addr  len == m.len
<1> HIDE DEF addr, len
<1>3. Tells(setup.feature, MunmapPacket(w, addr, len),
            [op |-> "munmap", addr |-> addr, len |-> len])
    BY <1>1, <1>2, MunmapReported DEF addr, len
<1> QED
    BY <1>3 DEF Reported, addr, len

\* What a call returned in a buffer.
LEMMA DataBytes ==
    ASSUME NEW ret \in Words, Length(ret) < Huge
    PROVE  Length(ret) \in Nat /\ Length(ret) < Huge /\ Data(ret) \in Bytes(Length(ret))
<1>1. ret \in Seq(Byte) /\ Len(ret) = 8
    BY BytesType DEF Words
<1>2. Length(ret) \in Nat
    <2>1. Len(ret) >= 3
        BY <1>1
    <2> QED
        BY <1>1, <2>1, LengthType
<1> DEFINE n == Length(ret)
<1> HIDE DEF n
<1>3. n \in Nat
    BY <1>2 DEF n
<1>4. \A i \in 1 .. n : 64 + (i % 64) \in 0 .. 255
    BY <1>3
<1>5. [i \in 1 .. n |-> 64 + (i % 64)] \in Bytes(n)
    BY <1>4 DEF Bytes, Byte
<1> QED
    BY <1>2, <1>5 DEF Data, n

\* The event of a system call.
CallEvent(c) ==
    LET name == HostSyscallNum(setup.feature, c.num)
        data == Buffer(c.args[IF name = "Read" THEN 2 ELSE 1], c.ret)
        params == IF name = "Read" THEN <<IntVal(c.args[1]), data, IntVal(c.args[3])>>
                  ELSE <<data, IntVal(c.args[2]), IntVal(c.args[3])>>
    IN [op |-> "syscall", num |-> name, ret |-> IntVal(c.ret), params |-> params]
CallPacket(c) ==
    IF HostSyscallNum(setup.feature, c.num) = "Read"
    THEN ReadPacket(w, Word(c.num, 4), c.ret, c.args, Data(c.ret))
    ELSE GetrandomPacket(w, Word(c.num, 4), c.ret, c.args, Data(c.ret))

\* A handled system call is reported.
LEMMA SyscallTells ==
    ASSUME setup \in Setups, NEW c \in Syscalls[setup.client], NEW why,
           HostSyscallNum(setup.feature, c.num) # "NotHandled", ~Failed(c.ret)
    PROVE  Reported(CallPacket(c), CallEvent(c), why)
<1> DEFINE feature == setup.feature  num == c.num  ret == c.ret  args == c.args
           name == HostSyscallNum(feature, num)  n == Length(ret)  data == Data(ret)
<1>1. w \in Widths
    BY TargetOK DEF Target
<1>2. /\ num \in Nat /\ num < Huge /\ ret \in Words
      /\ args[1] \in Words /\ args[2] \in Words /\ args[3] \in Words
    <2>1. num \in Nat /\ num < Huge /\ ret \in Words /\ args \in [1 .. 3 -> Words]
        BY WorkAssumption, Zenon
    <2> HIDE DEF args
    <2> QED
        BY <2>1
<1>3. n \in Nat /\ n < Huge /\ data \in Bytes(n) /\ n = Length(ret)
    <2>1. Failed(ret) \/ Length(ret) < Huge
        BY WorkAssumption, Zenon
    <2> HIDE DEF ret
    <2> QED
        BY <1>2, <2>1, DataBytes DEF ret
<1>4. name # "NotHandled"
    OBVIOUS
<1>5. CASE name = "Read"
    <2> DEFINE ev == [op |-> "syscall", num |-> HostSyscallNum(feature, num), ret |-> IntVals(ret),
                      params |-> <<IntVals(args[1]), BufferVal(args[2], data), IntVals(args[3])>>]
               p == ReadPacket(w, Word(num, 4), ret, args, data)
    <2>1. CallPacket(c) = p
        BY <1>5 DEF CallPacket
    <2>2. CallEvent(c) = ev
        BY <1>5 DEF CallEvent, IntVal, IntVals, Buffer, BufferVal
    <2>3. Tells(feature, p, ev)
        <3> HIDE DEF feature, num, ret, args, n, data
        <3> QED
            BY <1>1, <1>2, <1>3, <1>4, ReadReported, Zenon
    <2> QED
        BY <2>1, <2>2, <2>3 DEF Reported
<1>6. CASE name # "Read"
    <2> DEFINE ev == [op |-> "syscall", num |-> HostSyscallNum(feature, num), ret |-> IntVals(ret),
                      params |-> <<BufferVal(args[1], data), IntVals(args[2]), IntVals(args[3])>>]
               p == GetrandomPacket(w, Word(num, 4), ret, args, data)
    <2>1. CallPacket(c) = p
        BY <1>6 DEF CallPacket
    <2>2. CallEvent(c) = ev
        BY <1>6 DEF CallEvent, IntVal, IntVals, Buffer, BufferVal
    <2>3. Tells(feature, p, ev)
        <3> HIDE DEF feature, num, ret, args, n, data
        <3> QED
            BY <1>1, <1>2, <1>3, <1>4, GetrandomReported, Zenon
    <2> QED
        BY <2>1, <2>2, <2>3 DEF Reported
<1> QED
    BY <1>5, <1>6

-----------------------------------------------------------------------------
(* Faith: the events that happened, e, but for what is known to go wrong with *)
(* loads of 128 bits, are events t; what was parsed, p, is a beginning of     *)
(* them, and while no thread has failed the rest is in the chunks.            *)

Begins(p, t) == \E n \in Nat : n <= Len(t) /\ p = Field(t, 0, n)

Faith(program, feature, why, failed, p, q, c, e) ==
    \E t : /\ Alike(program, why, t, e) /\ Begins(p, t)
           /\ failed = 0 => Told(feature, why, p, q, c, t)

\* A beginning stays one.
LEMMA BeginsMore ==
    ASSUME NEW p, NEW t, NEW g, IsSeq(t), IsSeq(g), Begins(p, t)
    PROVE  Begins(p, Cat(t, g))
<1>1. PICK n \in Nat : n <= Len(t) /\ p = Field(t, 0, n)
    BY DEF Begins
<1> DEFINE a == 0
<1>2. a \in Nat /\ a <= n /\ a <= Len(t) /\ n - a = n
    BY <1>1, LenProperties DEF IsSeq
<1>3. Slice(t, a, n) = p
    BY <1>1, <1>2 DEF Slice
<1> HIDE DEF a
<1>4. Slice(Cat(t, g), a, n) = Slice(t, a, n)
    BY <1>1, <1>2, SliceKept
<1>5. Len(Cat(t, g)) = Len(t) + Len(g) /\ Len(t) \in Nat /\ Len(g) \in Nat
    BY <1>2, RestGrows
<1>6. n <= Len(Cat(t, g))
    BY <1>1, <1>5
<1>7. p = Field(Cat(t, g), 0, n)
    BY <1>2, <1>3, <1>4 DEF Slice, a
<1> QED
    BY <1>6, <1>7 DEF Begins

\* Hooks log what they tell.
LEMMA FaithHooks ==
    ASSUME NEW program, NEW feature, NEW why, NEW failed, NEW p, NEW q, NEW c, NEW e,
           Faith(program, feature, why, failed, p, q, c, e), NEW more, why \subseteq more,
           NEW hooks, NEW g, HooksTell(hooks, feature, g),
           NEW d, Alike(program, more, g, d), NEW st, st = Logged([chunk |-> c, sent |-> q], hooks)
    PROVE  Faith(program, feature, more, failed, p, st.sent, st.chunk, Cat(e, d))
<1>1. PICK t : /\ Alike(program, why, t, e) /\ Begins(p, t)
               /\ failed = 0 => Told(feature, why, p, q, c, t)
    BY DEF Faith
<1>2. Alike(program, more, t, e)
    BY <1>1, AlikeMore
<1>3. Alike(program, more, Cat(t, g), Cat(e, d))
    BY <1>2, AlikeCat
<1>4. Begins(p, Cat(t, g))
    <2>1. IsSeq(t) /\ IsSeq(g)
        BY <1>1 DEF Alike
    <2> QED
        BY <1>1, <2>1, BeginsMore
<1>5. ASSUME failed = 0 PROVE Told(feature, more, p, st.sent, st.chunk, Cat(t, g))
    <2>1. Told(feature, more, p, q, c, t)
        BY <1>1, <1>5, ToldMore
    <2> DEFINE s == [chunk |-> c, sent |-> q]
    <2>2. ToldIn(feature, more, p, s, t)
        BY <2>1, ToldMade
    <2>3. st = Logged(s, hooks)
        OBVIOUS
    <2> HIDE DEF s
    <2>4. ToldIn(feature, more, p, Logged(s, hooks), Cat(t, g))
        BY <2>2, LoggedTold
    <2> QED
        BY <2>3, <2>4 DEF ToldIn
<1> QED
    BY <1>3, <1>4, <1>5 DEF Faith

\* A report is sent behind everything else.
LEMMA FaithReport ==
    ASSUME NEW program, NEW feature, NEW why, NEW failed, NEW p, NEW q, NEW e,
           Faith(program, feature, why, failed, p, q, <<>>, e), NEW more, why \subseteq more,
           NEW r, NEW ev, Says(feature, r.bytes, <<ev>>) \/ Spoilt(feature, more, r.bytes),
           Harmless(program, more, ev)
    PROVE  Faith(program, feature, more, failed, p, Append(q, r), <<>>, Append(e, ev))
<1> DEFINE none == <<>>
<1>1. PICK t : /\ Alike(program, why, t, e) /\ Begins(p, t)
               /\ failed = 0 => Told(feature, why, p, q, none, t)
    BY DEF Faith
<1>2. Alike(program, more, t, e)
    BY <1>1, AlikeMore
<1> DEFINE g == <<ev>>
<1>3. Alike(program, more, g, g)
    <2>1. SameEvent(program, more, ev, ev)
        BY DEF SameEvent
    <2> QED
        BY <2>1, AlikeOne
<1>4. IsSeq(t) /\ IsSeq(e) /\ IsSeq(g)
    BY <1>2, <1>3 DEF Alike
<1>5. Append(t, ev) = Cat(t, g) /\ Append(e, ev) = Cat(e, g)
    <2>1. ASSUME NEW s, IsSeq(s) PROVE Append(s, ev) = Cat(s, g)
        <3>1. PICK S : s \in Seq(S)
            BY <2>1 DEF IsSeq
        <3> QED
            BY <3>1 DEF Cat
    <2> QED
        BY <1>4, <2>1
<1> HIDE DEF g, none
<1>6. Alike(program, more, Cat(t, g), Cat(e, g)) /\ Begins(p, Cat(t, g))
    BY <1>1, <1>2, <1>3, <1>4, AlikeCat, BeginsMore
<1>7. ASSUME failed = 0 PROVE Told(feature, more, p, Append(q, r), none, Append(t, ev))
    <2>1. Told(feature, more, p, q, none, t)
        BY <1>1, <1>7, ToldMore
    <2> QED
        BY <2>1, ToldReport DEF none
<1>8. Faith(program, feature, more, failed, p, Append(q, r), none, Append(e, ev))
    BY <1>5, <1>6, <1>7 DEF Faith
<1> QED
    BY <1>8 DEF none

\* The way out of generated code sends the chunk.
LEMMA FaithExit ==
    ASSUME NEW program, NEW feature, NEW why, NEW failed, NEW p, NEW q, NEW c, NEW e,
           Faith(program, feature, why, failed, p, q, c, e), NEW r, r.bytes = c
    PROVE  Faith(program, feature, why, failed, p, Append(q, r), <<>>, e)
<1> DEFINE none == <<>>
<1>1. PICK t : /\ Alike(program, why, t, e) /\ Begins(p, t)
               /\ failed = 0 => Told(feature, why, p, q, c, t)
    BY DEF Faith
<1>2. failed = 0 => Told(feature, why, p, Append(q, r), none, t)
    BY <1>1, ToldExit
<1> HIDE DEF none
<1>3. Faith(program, feature, why, failed, p, Append(q, r), none, e)
    BY <1>1, <1>2 DEF Faith
<1> QED
    BY <1>3 DEF none

\* A thread parses the next chunk, or fails.
LEMMA FaithParse ==
    ASSUME NEW program, NEW feature, NEW why, NEW failed, NEW p, NEW q, NEW c, NEW e,
           Faith(program, feature, why, failed, p, q, c, e), q # <<>>,
           NEW r, r = Parsed(feature, Head(q).bytes), NEW f, NEW s,
           f = 0 => failed = 0 /\ r.out \notin {"error", "panic"} /\ s = Cat(p, r.evs),
           f # 0 => s = p
    PROVE  Faith(program, feature, why, f, s, Tail(q), c, e)
<1>1. PICK t : /\ Alike(program, why, t, e) /\ Begins(p, t)
               /\ failed = 0 => Told(feature, why, p, q, c, t)
    BY DEF Faith
<1>2. CASE f = 0
    <2>1. Told(feature, why, p, q, c, t) /\ r.out \notin {"error", "panic"} /\ s = Cat(p, r.evs)
        BY <1>1, <1>2
    <2>2. Told(feature, why, Cat(p, r.evs), Tail(q), c, t)
        BY <2>1, ToldParse
    <2>3. Told(feature, why, s, Tail(q), c, t)
        BY <2>1, <2>2
    <2>4. Begins(s, t)
        BY <2>3, ToldParsed DEF Begins
    <2> QED
        BY <1>1, <2>3, <2>4 DEF Faith
<1>3. CASE f # 0
    BY <1>1, <1>3 DEF Faith
<1> QED
    BY <1>2, <1>3

\* Without loads of 128 bits what was parsed is a beginning of what happened,
\* and all of it when nothing is on its way.
LEMMA FaithShows ==
    ASSUME NEW program, NEW feature, NEW why, NEW failed, NEW p, NEW q, NEW c, NEW e,
           Faith(program, feature, why, failed, p, q, c, e),
           "load128" \notin why, "placeholder" \notin why
    PROVE  /\ IsPrefix(p, e)
           /\ failed = 0 /\ q = <<>> /\ c = <<>> => p = e
<1>1. PICK t : /\ Alike(program, why, t, e) /\ Begins(p, t)
               /\ failed = 0 => Told(feature, why, p, q, c, t)
    BY DEF Faith
<1>2. t = e /\ IsSeq(e)
    <2>1. t = e
        BY <1>1, AlikeSame
    <2> QED
        BY <1>1, <2>1 DEF Alike
<1>3. PICK n \in Nat : n <= Len(e) /\ p = Field(e, 0, n)
    BY <1>1, <1>2 DEF Begins
<1>4. PICK S : e \in Seq(S)
    BY <1>2 DEF IsSeq
<1>5. Len(e) \in Nat /\ p = SubSeq(e, 1, n)
    BY <1>3, <1>4 DEF Field
<1>6. p \in Seq(S) /\ Len(p) = n
    BY <1>3, <1>4, <1>5
<1>7. SubSeq(p, 1, Len(p)) = p /\ SubSeq(e, 1, Len(p)) = p /\ Len(p) <= Len(e)
    BY <1>3, <1>4, <1>5, <1>6
<1>8. IsPrefix(p, e)
    BY <1>7 DEF IsPrefix
<1>9. ASSUME failed = 0, q = <<>>, c = <<>> PROVE p = e
    <2>1. Told(feature, why, p, <<>>, <<>>, e)
        BY <1>1, <1>2, <1>9
    <2> QED
        BY <2>1, ToldAll
<1> QED
    BY <1>8, <1>9

-----------------------------------------------------------------------------
(* The guest. *)

Frame == [f : Nat, ret : Nat, tail : BOOLEAN]
Guests == [pc : Nat, ra : Nat, frames : Seq(Frame), steps : Nat,
           ran : [frames : Seq(Frame), ra : Nat]]

\* A function that was not called cannot be the first one.
Calls(frames) == frames \in Seq(Frame) /\ (frames # <<>> => frames[1].tail = FALSE)

\* The guest is somewhere, and out of generated code there is no active chunk.
GuestOK ==
    /\ setup \in Setups
    /\ guest \in Guests /\ Calls(guest.frames)
    /\ mode \in {"out", "jit", "blocked", "crash"}
    /\ mode \in {"out", "blocked"} => chunk = <<>>

\* Of finitely many numbers one is the largest.
LEMMA LargestOf ==
    ASSUME NEW n \in Nat, NEW S \in SUBSET (1 .. n), S # {}
    PROVE  Max(S) \in S /\ \A i \in S : Max(S) >= i
<1> DEFINE U == {k \in Nat : \A i \in S : i <= k}
<1>1. n \in U
    OBVIOUS
<1>2. PICK m \in U : \A k \in U : m <= k
    <2>1. U \in SUBSET Nat /\ U # {}
        BY <1>1
    <2> HIDE DEF U
    <2> QED
        BY <2>1, LeastNumber
<1>3. m \in S
    <2>1. SUFFICES ASSUME m \notin S PROVE FALSE
        OBVIOUS
    <2>2. \A i \in S : i \in Nat /\ i >= 1 /\ i <= m /\ i # m
        BY <1>2, <2>1
    <2>3. m \in Nat /\ m >= 1
        <3>1. PICK i : i \in S
            OBVIOUS
        <3>2. i \in Nat /\ i >= 1 /\ i <= m
            BY <2>2, <3>1
        <3>3. m \in Nat
            BY <1>2
        <3> QED
            BY <3>2, <3>3
    <2>4. m - 1 \in U
        BY <2>2, <2>3
    <2> QED
        BY <1>2, <2>3, <2>4
<1>4. m \in S /\ \A i \in S : m >= i
    BY <1>2, <1>3
<1> HIDE DEF U
<1> QED
    BY <1>4 DEF Max

\* What is left after a return are the frames above the last one that was called.
LEMMA ReturnedCalls ==
    ASSUME NEW frames, Calls(frames), frames # <<>>
    PROVE  Calls(Returned(frames))
<1> DEFINE S == {i \in DOMAIN frames : ~frames[i].tail}  n == Len(frames)  c == Max(S)
<1>1. frames \in Seq(Frame) /\ frames[1].tail = FALSE /\ n \in Nat /\ n >= 1
    BY DEF Calls
<1>2. S \in SUBSET (1 .. n) /\ S # {}
    <2>1. DOMAIN frames = 1 .. n /\ 1 \in 1 .. n
        BY <1>1
    <2>2. 1 \in S
        BY <1>1, <2>1
    <2> QED
        BY <2>1, <2>2
<1>3. Returned(frames) = SubSeq(frames, 1, c - 1)
    BY DEF Returned
<1> HIDE DEF S
<1>4. c \in S
    BY <1>1, <1>2, LargestOf
<1>5. c \in 1 .. n
    BY <1>2, <1>4
<1> HIDE DEF c
<1>6. PICK k \in Nat : k = c - 1 /\ k <= n
    BY <1>1, <1>5
<1> DEFINE left == SubSeq(frames, 1, k)
<1>7. left \in Seq(Frame) /\ Len(left) = k /\ (k >= 1 => left[1] = frames[1])
    BY <1>1, <1>6
<1>8. left # <<>> => k >= 1
    BY <1>6, <1>7
<1>9. Calls(left)
    BY <1>1, <1>7, <1>8 DEF Calls
<1> QED
    BY <1>3, <1>6, <1>9

\* Another function is called, or jumped to.
LEMMA OneMoreFrame ==
    ASSUME NEW frames, Calls(frames), NEW fr \in Frame, frames = <<>> => fr.tail = FALSE
    PROVE  Calls(Append(frames, fr))
<1>1. frames \in Seq(Frame) /\ (frames # <<>> => frames[1].tail = FALSE)
    BY DEF Calls
<1> DEFINE more == Append(frames, fr)  n == Len(frames)
<1>2. more \in Seq(Frame) /\ n \in Nat /\ Len(more) = n + 1 /\ more[n + 1] = fr
      /\ \A i \in 1 .. n : more[i] = frames[i]
    BY <1>1
<1>3. more[1].tail = FALSE
    <2>1. CASE frames = <<>>
        <3>1. n = 0
            BY <2>1
        <3> QED
            BY <1>2, <2>1, <3>1
    <2>2. CASE frames # <<>>
        <3>1. 1 \in 1 .. n
            BY <1>1, <1>2, <2>2
        <3> QED
            BY <1>1, <1>2, <2>2, <3>1
    <2> QED
        BY <2>1, <2>2
<1> HIDE DEF more
<1>4. Calls(more)
    BY <1>2, <1>3 DEF Calls
<1> QED
    BY <1>4 DEF more

\* Where a function returns to.
LEMMA LastFrame ==
    ASSUME NEW frames, Calls(frames), frames # <<>>
    PROVE  Last(frames) \in Frame /\ Last(frames).ret \in Nat
<1>1. frames \in Seq(Frame) /\ Len(frames) \in Nat /\ Len(frames) >= 1
    BY DEF Calls
<1>2. Len(frames) \in 1 .. Len(frames)
    BY <1>1
<1>3. frames[Len(frames)] \in Frame
    BY <1>1, <1>2
<1> QED
    BY <1>3 DEF Last, Frame

\* An instruction keeps the guest's types.
LEMMA ExecuteOK ==
    ASSUME GuestOK, NEW bb_end, NEW a, NEW next \in Guests, Calls(next.frames), NEW why,
           Execute(bb_end, a, next, why)
    PROVE  GuestOK'
<1>1. guest' = [next EXCEPT !.steps = @ + 1, !.ran = [frames |-> guest.frames, ra |-> guest.ra]]
    BY DEF Execute
<1>2. guest.frames \in Seq(Frame) /\ guest.ra \in Nat
    BY DEF GuestOK, Guests
<1>3. guest' \in Guests /\ guest'.frames = next.frames
    <2> DEFINE Rans == [frames : Seq(Frame), ra : Nat]  F == Seq(Frame)
               run == [frames |-> guest.frames, ra |-> guest.ra]  n == next.steps + 1
               g == [next EXCEPT !.steps = n, !.ran = run]
    <2>1. run \in Rans
        BY <1>2
    <2>2. next \in [pc : Nat, ra : Nat, frames : F, steps : Nat, ran : Rans]
        BY DEF Guests
    <2>3. guest' = g /\ n \in Nat
        BY <1>1, <2>2
    <2> HIDE DEF Rans, F, run, n
    <2>4. g \in [pc : Nat, ra : Nat, frames : F, steps : Nat, ran : Rans] /\ g.frames = next.frames
        BY <2>1, <2>2, <2>3
    <2> HIDE DEF g
    <2> QED
        BY <2>3, <2>4 DEF Guests, F, Rans
<1>4. mode' \in {"jit", "crash"}
    BY DEF Execute
<1>5. setup' = setup
    BY DEF Execute
<1> QED
    BY <1>3, <1>4, <1>5 DEF GuestOK

\* Where an instruction leads: on, into a function, or back.
GoesOn(next, why) ==
    /\ Onward /\ why = Again
    /\ next.pc = guest.pc + 4 /\ next.ra = guest.ra /\ next.frames = guest.frames
Enters(next, f, r, t) ==
    /\ next.pc = f /\ next.ra = r
    /\ next.frames = Append(guest.frames, [f |-> f, ret |-> r, tail |-> t])
GoesIn(next, why) ==
    \/ \E f \in Functions[setup.client] :
          Onward /\ why = Again /\ Enters(next, f, guest.pc + 4, FALSE)
    \/ \E f \in Functions[setup.client] :
          guest.frames # <<>> /\ Enters(next, f, Last(guest.frames).ret, TRUE)
GoesBack(next) ==
    /\ guest.frames # <<>> /\ next.frames = Returned(guest.frames)
    /\ next.pc = Last(guest.frames).ret /\ next.ra = Last(guest.frames).ret
Goes(bb_end, next, why) ==
    \/ GoesOn(next, why)
    \/ bb_end = TRUE /\ (GoesIn(next, why) \/ GoesBack(next))

\* An instruction with at most one access.
Running ==
    \E bb_end \in BOOLEAN, next \in Guests : \E a, why :
        /\ Execute(bb_end, a, next, why) /\ Calls(next.frames) /\ next.steps = guest.steps
        /\ a # <<>> => Work(a[1])
        /\ Goes(bb_end, next, why)

\* The guest goes on.
LEMMA GoOn ==
    ASSUME GuestOK, NEW n \in Nat
    PROVE  /\ [guest EXCEPT !.pc = n] \in Guests /\ [guest EXCEPT !.pc = n].frames = guest.frames
           /\ [guest EXCEPT !.pc = n].steps = guest.steps
           /\ [guest EXCEPT !.pc = n].pc = n /\ [guest EXCEPT !.pc = n].ra = guest.ra
<1> DEFINE Rans == [frames : Seq(Frame), ra : Nat]  F == Seq(Frame)
           g == [guest EXCEPT !.pc = n]
<1>1. guest \in [pc : Nat, ra : Nat, frames : F, steps : Nat, ran : Rans]
    BY DEF GuestOK, Guests
<1> HIDE DEF Rans, F
<1>2. g \in [pc : Nat, ra : Nat, frames : F, steps : Nat, ran : Rans] /\ g.frames = guest.frames
      /\ g.steps = guest.steps /\ g.pc = n /\ g.ra = guest.ra
    BY <1>1
<1> QED
    BY <1>2 DEF Guests, F, Rans

Jumped(g, n, r, frames) == g = [guest EXCEPT !.pc = n, !.ra = r, !.frames = frames]

\* The guest goes to another function.
LEMMA GoTo ==
    ASSUME GuestOK, NEW n \in Nat, NEW r \in Nat, NEW frames, Calls(frames),
           NEW g, Jumped(g, n, r, frames)
    PROVE  g \in Guests /\ g.frames = frames /\ g.steps = guest.steps /\ g.pc = n /\ g.ra = r
<1> DEFINE Rans == [frames : Seq(Frame), ra : Nat]  F == Seq(Frame)
<1>1. guest \in [pc : Nat, ra : Nat, frames : F, steps : Nat, ran : Rans] /\ frames \in F
      /\ g = [guest EXCEPT !.pc = n, !.ra = r, !.frames = frames]
    BY DEF GuestOK, Guests, Calls, Jumped
<1> HIDE DEF Rans, F
<1>2. g \in [pc : Nat, ra : Nat, frames : F, steps : Nat, ran : Rans] /\ g.frames = frames
      /\ g.steps = guest.steps /\ g.pc = n /\ g.ra = r
    BY <1>1
<1> QED
    BY <1>2 DEF Guests, F, Rans

\* The steps that execute an instruction.
LEMMA Runs ==
    ASSUME GuestOK,
           \/ \E bb_end \in BOOLEAN : Plain(bb_end)
           \/ \E a \in Accesses[setup.client] : Access(a)
           \/ \E f \in Functions[setup.client] : Call(f) \/ TailCall(f)
           \/ Return
    PROVE  Running
<1>1. /\ guest.pc \in Nat /\ guest.pc + 4 \in Nat /\ Calls(guest.frames)
      /\ TRUE \in BOOLEAN /\ FALSE \in BOOLEAN /\ setup \in Setups
    BY DEF GuestOK, Guests
<1>2. guest \in Guests
    BY DEF GuestOK
<1>3. CASE \E bb_end \in BOOLEAN : Plain(bb_end)
    <2>1. PICK bb_end \in BOOLEAN : Plain(bb_end)
        BY <1>3
    <2> DEFINE at == guest.pc + 4  next == [guest EXCEPT !.pc = at]  none == <<>>
    <2>2. Execute(bb_end, none, next, Again) /\ at \in Nat /\ Onward
        BY <1>1, <2>1 DEF Plain
    <2> HIDE DEF at
    <2>3. /\ next \in Guests /\ Calls(next.frames) /\ next.steps = guest.steps
          /\ next.pc = at /\ next.ra = guest.ra /\ next.frames = guest.frames
        BY <1>1, <2>2, GoOn
    <2>4. none = <<>>
        OBVIOUS
    <2> HIDE DEF next, none
    <2>5. Goes(bb_end, next, Again)
        BY <2>2, <2>3 DEF Goes, GoesOn, at
    <2> QED
        BY <2>2, <2>3, <2>4, <2>5, Zenon DEF Running
<1>4. CASE \E a \in Accesses[setup.client] : Access(a)
    <2>1. PICK a \in Accesses[setup.client] : Access(a)
        BY <1>4
    <2> DEFINE at == guest.pc + 4  next == [guest EXCEPT !.pc = at]  one == <<a>>
    <2>2. /\ Execute(FALSE, one, next, Again) /\ (a.size = 16 => w = 8) /\ at \in Nat
          /\ Onward
        BY <1>1, <2>1 DEF Access
    <2> HIDE DEF at
    <2>3. /\ next \in Guests /\ Calls(next.frames) /\ next.steps = guest.steps
          /\ next.pc = at /\ next.ra = guest.ra /\ next.frames = guest.frames
        BY <1>1, <2>2, GoOn
    <2>4. Work(a)
        BY <1>1, <2>2, WorkAssumption DEF Work, HostRegisters
    <2>5. one # <<>> => Work(one[1])
        BY <2>4
    <2> HIDE DEF next, one
    <2>6. Goes(FALSE, next, Again)
        BY <2>2, <2>3 DEF Goes, GoesOn, at
    <2> QED
        BY <1>1, <2>2, <2>3, <2>5, <2>6, Zenon DEF Running
<1>5. CASE \E f \in Functions[setup.client] : Call(f)
    <2>1. PICK f \in Functions[setup.client] : Call(f)
        BY <1>5
    <2>2. f \in Nat
        BY <1>1, <2>1, SetupsAssumption, BoundType
    <2> DEFINE fr == [f |-> f, ret |-> guest.pc + 4, tail |-> FALSE]
               frames == Append(guest.frames, fr)  r == guest.pc + 4
               next == [guest EXCEPT !.pc = f, !.ra = r, !.frames = frames]  none == <<>>
    <2>3. Execute(TRUE, none, next, Again) /\ r \in Nat /\ Onward
        BY <1>1, <1>2, <2>1 DEF Call
    <2> HIDE DEF next
    <2>4. Calls(frames)
        <3>1. fr \in Frame /\ fr.tail = FALSE
            BY <1>1, <2>2 DEF Frame
        <3> HIDE DEF fr
        <3> QED
            BY <1>1, <3>1, OneMoreFrame
    <2> HIDE DEF frames, r
    <2>5. Jumped(next, f, r, frames)
        BY DEF Jumped, next
    <2>6. /\ next \in Guests /\ Calls(next.frames) /\ next.steps = guest.steps
          /\ next.pc = f /\ next.ra = r /\ next.frames = frames
        BY <2>2, <2>3, <2>4, <2>5, GoTo
    <2>7. none = <<>>
        OBVIOUS
    <2> HIDE DEF none
    <2>8. Enters(next, f, guest.pc + 4, FALSE)
        BY <2>6 DEF Enters, frames, r
    <2>9. Goes(TRUE, next, Again)
        BY <2>1, <2>3, <2>8, Zenon DEF Goes, GoesIn
    <2> QED
        BY <1>1, <2>3, <2>6, <2>7, <2>9, Zenon DEF Running
<1>6. CASE \E f \in Functions[setup.client] : TailCall(f)
    <2>1. PICK f \in Functions[setup.client] : TailCall(f)
        BY <1>6
    <2>2. f \in Nat
        BY <1>1, <2>1, SetupsAssumption, BoundType
    <2> DEFINE r == Last(guest.frames).ret
               fr == [f |-> f, ret |-> r, tail |-> TRUE]
               frames == Append(guest.frames, fr)
               next == [guest EXCEPT !.pc = f, !.ra = r, !.frames = frames]  none == <<>>
    <2>3. Execute(TRUE, none, next, {}) /\ guest.frames # <<>>
        BY <1>2, <2>1 DEF TailCall
    <2> HIDE DEF next
    <2>4. r \in Nat
        BY <1>1, <2>3, LastFrame
    <2> HIDE DEF r
    <2>5. Calls(frames)
        <3>1. fr \in Frame
            BY <2>2, <2>4 DEF Frame
        <3> HIDE DEF fr
        <3> QED
            BY <1>1, <2>3, <3>1, OneMoreFrame
    <2> HIDE DEF frames
    <2>6. Jumped(next, f, r, frames)
        BY DEF Jumped, next
    <2>7. /\ next \in Guests /\ Calls(next.frames) /\ next.steps = guest.steps
          /\ next.pc = f /\ next.ra = r /\ next.frames = frames
        BY <2>2, <2>4, <2>5, <2>6, GoTo
    <2>8. none = <<>>
        OBVIOUS
    <2> HIDE DEF none
    <2>9. Enters(next, f, Last(guest.frames).ret, TRUE)
        BY <2>7 DEF Enters, frames, r
    <2>10. Goes(TRUE, next, {})
        BY <2>1, <2>3, <2>9, Zenon DEF Goes, GoesIn
    <2> QED
        BY <1>1, <2>3, <2>7, <2>8, <2>10, Zenon DEF Running
<1>7. CASE Return
    <2> DEFINE r == Last(guest.frames).ret
               frames == Returned(guest.frames)
               next == [guest EXCEPT !.pc = r, !.ra = r, !.frames = frames]  none == <<>>
    <2>1. Execute(TRUE, none, next, {}) /\ guest.frames # <<>>
        BY <1>2, <1>7 DEF Return
    <2> HIDE DEF next
    <2>2. r \in Nat
        BY <1>1, <2>1, LastFrame
    <2>3. Calls(frames)
        BY <1>1, <2>1, ReturnedCalls
    <2> HIDE DEF r, frames
    <2>4. Jumped(next, r, r, frames)
        BY DEF Jumped, next
    <2>5. /\ next \in Guests /\ Calls(next.frames) /\ next.steps = guest.steps
          /\ next.pc = r /\ next.ra = r /\ next.frames = frames
        BY <2>2, <2>3, <2>4, GoTo
    <2>6. none = <<>>
        OBVIOUS
    <2> HIDE DEF none
    <2>7. Goes(TRUE, next, {})
        BY <2>1, <2>5 DEF Goes, GoesBack, frames, r
    <2> QED
        BY <1>1, <2>1, <2>5, <2>6, <2>7, Zenon DEF Running
<1> QED
    BY <1>3, <1>4, <1>5, <1>6, <1>7

-----------------------------------------------------------------------------
(* The inductive invariant, step by step. *)

ServerOK ==
    /\ server = [failed |-> server.failed, poisoned |-> server.poisoned, kept |-> server.kept]
    /\ server.failed \in Nat /\ server.poisoned \in BOOLEAN

\* The trace is faithful but for what is known to go wrong.
FaithOK ==
    Faith(setup.client, setup.feature, odd, server.failed, parsed, sent, chunk, executed)

PipelineInv == GuestOK /\ ServerOK /\ FaithOK

\* Initially nothing has happened.
LEMMA InitInv ==
    ASSUME Init
    PROVE  PipelineInv
<1>1. GuestOK
    <2> DEFINE none == <<>>  Rans == [frames : Seq(Frame), ra : Nat]
               g == [pc |-> setup.start, ra |-> setup.start, frames |-> none, steps |-> 0,
                     ran |-> [frames |-> none, ra |-> setup.start]]
    <2>1. setup \in Setups /\ mode = "out" /\ chunk = <<>> /\ guest = g
        BY DEF Init
    <2>2. setup.start \in Nat
        BY <2>1, SetupsAssumption, BoundType
    <2>3. none \in Seq(Frame) /\ (none # <<>> => none[1].tail = FALSE)
        OBVIOUS
    <2>4. none \in Seq(Frame) /\ Calls(none)
        BY <2>3 DEF Calls
    <2> DEFINE F == Seq(Frame)
    <2> HIDE DEF F, none
    <2>5. g \in [pc : Nat, ra : Nat, frames : F, steps : Nat, ran : [frames : F, ra : Nat]]
          /\ g.frames = none
        BY <2>2, <2>4 DEF F
    <2> HIDE DEF g
    <2>6. guest \in Guests /\ guest.frames = none
        BY <2>1, <2>5 DEF Guests, F
    <2> QED
        BY <2>1, <2>4, <2>6 DEF GuestOK
<1>2. ServerOK
    BY DEF Init, ServerOK
<1>3. FaithOK
    <2> DEFINE none == <<>>  feature == setup.feature  program == setup.client
    <2>1. /\ parsed = none /\ sent = none /\ chunk = none /\ executed = none /\ odd = {}
          /\ server.failed = 0
        BY DEF Init
    <2>2. none = <<>>
        OBVIOUS
    <2>3. Told(feature, odd, none, none, none, none)
        BY ToldStart
    <2> HIDE DEF none, feature, program
    <2>4. Alike(program, odd, none, none) /\ Begins(none, none)
        BY <2>2, <2>3, AlikeNone, ToldParsed DEF Begins
    <2>5. Faith(program, feature, odd, server.failed, none, none, none, none)
        BY <2>3, <2>4 DEF Faith
    <2> QED
        BY <2>1, <2>5 DEF FaithOK, feature, program
<1> QED
    BY <1>1, <1>2, <1>3 DEF PipelineInv

\* The events of an instruction are a sequence.
LEMMA EventsSeq ==
    ASSUME NEW bb_end, NEW a
    PROVE  /\ IsSeq(InstEvents(bb_end))
           /\ IsSeq(IF a = <<>> THEN <<>> ELSE MemEvents(a[1]))
<1>1. ASSUME NEW x, NEW y PROVE IsSeq(<<x, y>>) /\ IsSeq(<<x>>) /\ IsSeq(<<>>)
    <2>1. <<x, y>> \in Seq({x, y}) /\ <<x>> \in Seq({x}) /\ <<>> \in Seq({})
        OBVIOUS
    <2> QED
        BY <2>1 DEF IsSeq
<1>2. IsSeq(InstEvents(bb_end))
    BY <1>1 DEF InstEvents
<1>3. ASSUME NEW m PROVE IsSeq(MemEvents(m))
    BY <1>1 DEF MemEvents
<1> QED
    BY <1>1, <1>2, <1>3

\* An instruction adds its events.
LEMMA ExecutedMore ==
    ASSUME IsSeq(executed), NEW bb_end, NEW a, NEW next, NEW why, Execute(bb_end, a, next, why)
    PROVE  executed' = Cat(executed, EventsOf(bb_end, a))
<1> DEFINE A == InstEvents(bb_end)  B == IF a = <<>> THEN <<>> ELSE MemEvents(a[1])
           d == EventsOf(bb_end, a)
<1>1. executed' = executed \o A \o B
    BY DEF Execute, InstEvents, Armed
<1>2. IsSeq(executed) /\ IsSeq(A) /\ IsSeq(B)
    BY EventsSeq
<1>3. d = Cat(A, B)
    BY DEF EventsOf
<1> HIDE DEF A, B, d
<1>4. Cat(Cat(executed, A), B) = Cat(executed, Cat(A, B))
    BY <1>2, CatAssoc
<1> QED
    BY <1>1, <1>3, <1>4, Zenon DEF Cat, d

\* An instruction.
LEMMA RunningInv ==
    ASSUME PipelineInv, Running
    PROVE  PipelineInv'
<1>1. PICK bb_end \in BOOLEAN, next \in Guests : \E a, why :
          /\ Execute(bb_end, a, next, why) /\ Calls(next.frames)
          /\ a # <<>> => Work(a[1])
    BY Zenon DEF Running
<1>2. PICK a, why : /\ Execute(bb_end, a, next, why) /\ Calls(next.frames)
                    /\ a # <<>> => Work(a[1])
    BY <1>1
<1>3. GuestOK'
    BY <1>2, ExecuteOK DEF PipelineInv
<1>4. ServerOK'
    BY <1>2 DEF PipelineInv, ServerOK, Execute, server_vars
<1>5. FaithOK'
    <2> DEFINE feature == setup.feature  program == setup.client  hooks == HooksOf(bb_end, a)
               d == EventsOf(bb_end, a)  more == odd'  st == Logged([chunk |-> chunk, sent |-> sent], hooks)
    <2>1. /\ setup' = setup /\ server' = server /\ parsed' = parsed
          /\ chunk' = st.chunk /\ sent' = st.sent
          /\ more = odd \cup Reasons(a) \cup why
        BY <1>2 DEF Execute, HooksOf, server_vars
    <2>2. Faith(program, feature, odd, server.failed, parsed, sent, chunk, executed)
        BY DEF PipelineInv, FaithOK
    <2>3. odd \subseteq more /\ Reasons(a) \subseteq more
        BY <2>1
    <2>4. setup \in Setups /\ guest.pc \in Nat /\ guest.ra \in Nat
        BY DEF PipelineInv, GuestOK, Guests
    <2>5. executed' = Cat(executed, d)
        <3>1. IsSeq(executed)
            BY <2>2 DEF Faith, Alike
        <3> QED
            BY <1>2, <3>1, ExecutedMore
    <2> HIDE DEF more
    <2>6. PICK g : HooksTell(hooks, feature, g) /\ Alike(program, more, g, d)
        BY <1>2, <2>3, <2>4, HooksOfTold
    <2>7. st = Logged([chunk |-> chunk, sent |-> sent], hooks)
        OBVIOUS
    <2> HIDE DEF hooks, d, st, feature, program
    <2>8. Faith(program, feature, more, server.failed, parsed, st.sent, st.chunk, Cat(executed, d))
        BY <2>2, <2>3, <2>6, <2>7, FaithHooks
    <2> QED
        BY <2>1, <2>5, <2>8 DEF FaithOK, feature, program, more
<1> QED
    BY <1>3, <1>4, <1>5 DEF PipelineInv

\* A report of a system call.
LEMMA ReportInv ==
    ASSUME PipelineInv, NEW packet, NEW ev, NEW why, Report(packet, ev, why),
           Reported(packet, ev, why), ev.op \in {"mmap", "munmap", "syscall"},
           Panics(setup.client, ev) => "elf" \in why
    PROVE  PipelineInv'
<1>1. /\ mode = "out" /\ mode' = "blocked" /\ setup' = setup /\ chunk' = chunk
      /\ guest' = [guest EXCEPT !.steps = @ + 1] /\ server' = server /\ parsed' = parsed
      /\ sent' = Append(sent, [bytes |-> Sent(packet), report |-> TRUE])
      /\ executed' = Append(executed, ev)
      /\ odd' = odd \cup why \cup Given(Len(packet) > ChunkSize[lib.inst], "cut")
    BY DEF Report, server_vars
<1>2. chunk = <<>> /\ setup \in Setups
    BY <1>1 DEF PipelineInv, GuestOK
<1>3. GuestOK'
    <2> DEFINE Rans == [frames : Seq(Frame), ra : Nat]  F == Seq(Frame)  n == guest.steps + 1
               g == [guest EXCEPT !.steps = n]
    <2>1. guest \in [pc : Nat, ra : Nat, frames : F, steps : Nat, ran : Rans]
          /\ Calls(guest.frames)
        BY DEF PipelineInv, GuestOK, Guests
    <2>2. guest' = g /\ n \in Nat
        BY <1>1, <2>1
    <2> HIDE DEF Rans, F, n
    <2>3. g \in [pc : Nat, ra : Nat, frames : F, steps : Nat, ran : Rans]
          /\ g.frames = guest.frames
        BY <2>1, <2>2
    <2> HIDE DEF g
    <2>4. guest' \in Guests /\ Calls(guest'.frames)
        BY <2>1, <2>2, <2>3 DEF Guests, F, Rans
    <2> QED
        BY <1>1, <1>2, <2>4 DEF GuestOK
<1>4. ServerOK'
    BY <1>1 DEF PipelineInv, ServerOK
<1>5. FaithOK'
    <2> DEFINE feature == setup.feature  program == setup.client  more == odd'
               r == [bytes |-> Sent(packet), report |-> TRUE]  none == <<>>
    <2>1. SUFFICES Faith(program, feature, more, server.failed, parsed, Append(sent, r), none,
                         Append(executed, ev))
        BY <1>1, <1>2 DEF FaithOK
    <2>2. Faith(program, feature, odd, server.failed, parsed, sent, none, executed)
        BY <1>1, <1>2 DEF PipelineInv, FaithOK
    <2>3. odd \subseteq more /\ why \subseteq more
        BY <1>1
    <2>10. Harmless(program, more, ev)
        BY <2>3 DEF Harmless, Kinds
    <2>4. Len(packet) > ChunkSize[lib.inst] => "cut" \in more
        BY <1>1 DEF Given
    <2>5. ChunkSize[lib.inst] \in Nat /\ ChunkSize[lib.inst] >= 25
        BY <1>2, SetupsAssumption DEF lib
    <2> HIDE DEF more
    <2>6. Reported(packet, ev, more)
        BY <2>3 DEF Reported
    <2>7. Says(feature, Sent(packet), <<ev>>) \/ Spoilt(feature, more, Sent(packet))
        BY <2>4, <2>5, <2>6, SentTold
    <2>8. r.bytes = Sent(packet)
        OBVIOUS
    <2> HIDE DEF r
    <2>9. Says(feature, r.bytes, <<ev>>) \/ Spoilt(feature, more, r.bytes)
        BY <2>7, <2>8
    <2> QED
        BY <2>2, <2>3, <2>9, <2>10, FaithReport
<1> QED
    BY <1>3, <1>4, <1>5 DEF PipelineInv

\* A system call that is reported.
Reporting ==
    \E packet, ev, why :
        /\ Report(packet, ev, why) /\ Reported(packet, ev, why)
        /\ ev.op \in {"mmap", "munmap", "syscall"}
        /\ Panics(setup.client, ev) => "elf" \in why

\* The way out of generated code.
LEMMA JitExitInv ==
    ASSUME PipelineInv, JitExit
    PROVE  PipelineInv'
<1>1. /\ mode' = "out" /\ chunk' = <<>> /\ setup' = setup /\ guest' = guest /\ server' = server
      /\ sent' = Append(sent, [bytes |-> chunk, report |-> FALSE])
      /\ parsed' = parsed /\ executed' = executed /\ odd' = odd
    BY DEF JitExit, server_vars
<1>2. GuestOK' /\ ServerOK'
    BY <1>1 DEF PipelineInv, GuestOK, ServerOK
<1>3. FaithOK'
    <2> DEFINE feature == setup.feature  program == setup.client
               r == [bytes |-> chunk, report |-> FALSE]  none == <<>>
    <2>1. SUFFICES Faith(program, feature, odd, server.failed, parsed, Append(sent, r), none,
                         executed)
        BY <1>1 DEF FaithOK
    <2>2. Faith(program, feature, odd, server.failed, parsed, sent, chunk, executed)
        BY DEF PipelineInv, FaithOK
    <2>3. r.bytes = chunk
        OBVIOUS
    <2> HIDE DEF r, feature, program
    <2> QED
        BY <2>2, <2>3, FaithExit
<1> QED
    BY <1>2, <1>3 DEF PipelineInv

\* A call that is not reported, a new translation, a call that returns.
LEMMA QuietInv ==
    ASSUME PipelineInv, mode' \in {"out", "jit", "blocked", "crash"},
           mode' \in {"out", "blocked"} => mode \in {"out", "blocked"},
           UNCHANGED <<setup, guest, chunk, sent, server, executed, parsed>>,
           odd \subseteq odd'
    PROVE  PipelineInv'
<1>1. /\ setup' = setup /\ guest' = guest /\ chunk' = chunk /\ sent' = sent /\ server' = server
      /\ executed' = executed /\ parsed' = parsed
    OBVIOUS
<1>2. GuestOK' /\ ServerOK'
    BY <1>1 DEF PipelineInv, GuestOK, ServerOK
<1>3. FaithOK'
    <2> DEFINE feature == setup.feature  program == setup.client  more == odd'
    <2>1. SUFFICES Faith(program, feature, more, server.failed, parsed, sent, chunk, executed)
        BY <1>1 DEF FaithOK
    <2>2. /\ Faith(program, feature, odd, server.failed, parsed, sent, chunk, executed)
          /\ odd \subseteq more
        BY DEF PipelineInv, FaithOK
    <2> HIDE DEF more, feature, program
    <2>3. PICK t : /\ Alike(program, odd, t, executed) /\ Begins(parsed, t)
                   /\ server.failed = 0 => Told(feature, odd, parsed, sent, chunk, t)
        BY <2>2 DEF Faith
    <2>4. Alike(program, more, t, executed)
        BY <2>2, <2>3, AlikeMore
    <2>5. server.failed = 0 => Told(feature, more, parsed, sent, chunk, t)
        BY <2>2, <2>3, ToldMore
    <2> QED
        BY <2>3, <2>4, <2>5 DEF Faith
<1> QED
    BY <1>2, <1>3 DEF PipelineInv

\* A thread more has failed, a chunk more is kept.
LEMMA ServerChanged ==
    ASSUME NEW a, NEW b, NEW c, NEW n, NEW k, NEW s, NEW t,
           s = [failed |-> a, poisoned |-> b, kept |-> c],
           t = [s EXCEPT !.failed = n, !.kept = k]
    PROVE  t = [failed |-> n, poisoned |-> b, kept |-> k]
OBVIOUS

\* A thread parses a chunk, or fails at it.
LEMMA ParseInv ==
    ASSUME PipelineInv, Parse
    PROVE  PipelineInv'
<1> DEFINE feature == setup.feature  r == Parsed(feature, Head(sent).bytes)
           fails == \/ r.out \in {"error", "panic"}
                    \/ \E i \in DOMAIN r.evs : Panics(setup.client, r.evs[i])
           n == IF fails \/ server.poisoned THEN server.failed + 1 ELSE server.failed
<1>1. /\ sent # <<>> /\ sent' = Tail(sent)
      /\ setup' = setup /\ guest' = guest /\ mode' = mode /\ chunk' = chunk
      /\ executed' = executed /\ odd' = odd
    BY DEF Parse, CanParse
<1>2. /\ server' = [server EXCEPT !.failed = IF fails \/ server.poisoned THEN @ + 1 ELSE @,
                                  !.kept = IF fails THEN Append(@, Head(sent)) ELSE @]
      /\ IF server'.failed > 0 THEN UNCHANGED parsed ELSE parsed' = parsed \o r.evs
    BY DEF Parse
<1>3. ServerOK
    BY DEF PipelineInv
<1>4. ServerOK' /\ server'.failed = n
    <2> DEFINE k == IF fails THEN Append(server.kept, Head(sent)) ELSE server.kept
               a == server.failed  b == server.poisoned  c == server.kept
    <2>1. server' = [server EXCEPT !.failed = n, !.kept = k]
        BY <1>2
    <2>2. n \in Nat /\ server = [failed |-> a, poisoned |-> b, kept |-> c] /\ b \in BOOLEAN
        BY <1>3 DEF ServerOK
    <2> HIDE DEF n, k, a, b, c
    <2>3. server' = [failed |-> n, poisoned |-> b, kept |-> k]
        BY <2>1, <2>2, ServerChanged, Zenon
    <2> QED
        BY <2>2, <2>3 DEF ServerOK
<1>5. GuestOK'
    BY <1>1 DEF PipelineInv, GuestOK
<1>6. n \in Nat /\ (n = 0 => ~fails /\ server.failed = 0)
    BY <1>3 DEF ServerOK
<1>7. (n = 0 => parsed' = Cat(parsed, r.evs)) /\ (n # 0 => parsed' = parsed)
    <2>1. IF n > 0 THEN parsed' = parsed ELSE parsed' = parsed \o r.evs
        BY <1>2, <1>4
    <2> HIDE DEF n
    <2>2. n > 0 <=> n # 0
        BY <1>6
    <2> QED
        BY <2>1, <2>2 DEF Cat
<1>8. n = 0 => r.out \notin {"error", "panic"}
    BY <1>6
<1>9. FaithOK'
    <2> DEFINE program == setup.client
    <2>1. SUFFICES Faith(program, feature, odd, n, parsed', Tail(sent), chunk, executed)
        BY <1>1, <1>4 DEF FaithOK
    <2>2. Faith(program, feature, odd, server.failed, parsed, sent, chunk, executed)
        BY DEF PipelineInv, FaithOK
    <2>3. r = Parsed(feature, Head(sent).bytes)
        OBVIOUS
    <2>4. n = 0 => server.failed = 0 /\ r.out \notin {"error", "panic"} /\ parsed' = Cat(parsed, r.evs)
        BY <1>6, <1>7, <1>8
    <2> HIDE DEF r, n, fails, feature, program
    <2> QED
        BY <1>1, <1>7, <2>2, <2>3, <2>4, FaithParse
<1> QED
    BY <1>4, <1>5, <1>9 DEF PipelineInv

\* A trace is consumed, or poisons the lock.
LEMMA TraceInv ==
    ASSUME PipelineInv, Trace
    PROVE  PipelineInv'
<1>1. /\ setup' = setup /\ guest' = guest /\ chunk' = chunk /\ sent' = sent /\ mode' = mode
      /\ executed' = executed /\ parsed' = parsed /\ odd' = odd
    BY DEF Trace
<1>2. GuestOK'
    BY <1>1 DEF PipelineInv, GuestOK
<1>3. CASE server' = server
    <2>1. ServerOK' /\ FaithOK'
        BY <1>1, <1>3 DEF PipelineInv, ServerOK, FaithOK
    <2> QED
        BY <1>2, <2>1 DEF PipelineInv
<1>4. CASE server' = [server EXCEPT !.failed = @ + 1, !.poisoned = TRUE]
    <2>1. ServerOK /\ server.failed + 1 \in Nat /\ server.failed + 1 # 0
        BY DEF PipelineInv, ServerOK
    <2> DEFINE n == server.failed + 1
    <2>2. server' = [server EXCEPT !.failed = n, !.poisoned = TRUE]
        BY <1>4
    <2> HIDE DEF n
    <2>3. server' = [failed |-> n, poisoned |-> TRUE, kept |-> server.kept]
        BY <2>1, <2>2 DEF ServerOK
    <2>4. ServerOK' /\ server'.failed = n /\ n # 0
        BY <2>1, <2>3 DEF ServerOK, n
    <2>5. FaithOK'
        <3>1. SUFFICES Faith(setup.client, setup.feature, odd, n, parsed, sent, chunk, executed)
            BY <1>1, <2>4 DEF FaithOK
        <3>2. Faith(setup.client, setup.feature, odd, server.failed, parsed, sent, chunk, executed)
            BY DEF PipelineInv, FaithOK
        <3> QED
            BY <2>4, <3>2 DEF Faith
    <2> QED
        BY <1>2, <2>4, <2>5 DEF PipelineInv
<1> QED
    BY <1>3, <1>4 DEF Trace

\* A mapping.
LEMMA MmapReports ==
    ASSUME setup \in Setups, NEW m \in Mmaps[setup.client], Mmap(m)
    PROVE  Reporting
<1> DEFINE p == MmapPacket(w, m)
           ev == [op |-> "mmap", addr |-> m.addr, len |-> m.len, anon |-> m.anon,
                  read |-> m.read, write |-> m.write, exec |-> m.exec, path |-> m.path,
                  offset |-> m.offset]
           symbols == {s \in loaded : Outside(s[1], m)} \cup Loaded(m)
           why == Given(~Utf8(m.path), "path")
                  \cup Given(/\ setup.client = "coverage"
                             /\ FromStart(m) /\ Unreadable(m.path), "elf")
                  \cup Given(\E s \in loaded : \/ ~Outside(s[1], m)
                                               \/ \E t \in Loaded(m) : s[1] = t[1], "remapped")
                  \cup Moved(symbols, m)
<1>1. Report(p, ev, why)
    BY DEF Mmap
<1>2. ~Utf8(m.path) => "path" \in why
    BY DEF Given
<1>5. Panics(setup.client, ev) => "elf" \in why
    <2>1. Panics(setup.client, ev) =>
              setup.client = "coverage" /\ FromStart(m) /\ Unreadable(m.path)
        BY DEF Panics, FromStart
    <2> QED
        BY <2>1 DEF Given
<1> HIDE DEF why
<1>3. Reported(p, ev, why)
    BY <1>2, MmapTells
<1>4. ev.op \in {"mmap", "munmap", "syscall"}
    OBVIOUS
<1> HIDE DEF p, ev
<1> QED
    BY <1>1, <1>3, <1>4, <1>5, Zenon DEF Reporting

\* An unmapping.
LEMMA MunmapReports ==
    ASSUME setup \in Setups, NEW m \in Munmaps[setup.client], Munmap(m)
    PROVE  Reporting
<1> DEFINE p == MunmapPacket(w, m.addr, m.len)
           ev == [op |-> "munmap", addr |-> m.addr, len |-> m.len]
           symbols == {s \in loaded : Outside(s[1], m)}
           why == IF m.addr[1] # 0 THEN {"failed_munmap"} ELSE Moved(symbols, m)
<1>1. Report(p, ev, why)
    BY DEF Munmap
<1> HIDE DEF why
<1>2. Reported(p, ev, why)
    BY MunmapTells
<1>3. ev.op \in {"mmap", "munmap", "syscall"} /\ ~Panics(setup.client, ev)
    BY DEF Panics
<1> HIDE DEF p, ev
<1> QED
    BY <1>1, <1>2, <1>3, Zenon DEF Reporting

\* A call that is not reported: the length of what it returned crashes QEMU.
FailedCall ==
    /\ mode' = "crash" /\ odd' = odd \cup {"failed_call"}
    /\ UNCHANGED <<setup, guest, loaded, chunk, disarmed, sent, server_vars, executed, covered>>

\* A system call is reported, or crashes QEMU.
LEMMA SyscallReports ==
    ASSUME setup \in Setups, NEW c \in Syscalls[setup.client], Syscall(c)
    PROVE  Reporting \/ FailedCall
<1>1. CASE Failed(c.ret)
    BY <1>1 DEF Syscall, FailedCall
<1>2. CASE ~Failed(c.ret)
    <2> DEFINE p == CallPacket(c)  ev == CallEvent(c)  why == {}
    <2>1. Report(p, ev, why) /\ HostSyscallNum(setup.feature, c.num) # "NotHandled"
        <3>1. CASE HostSyscallNum(setup.feature, c.num) = "Read"
            BY <1>2, <3>1 DEF Syscall, CallPacket, CallEvent, Buffer
        <3>2. CASE HostSyscallNum(setup.feature, c.num) # "Read"
            BY <1>2, <3>2 DEF Syscall, CallPacket, CallEvent, Buffer
        <3> QED
            BY <3>1, <3>2
    <2>2. ev.op \in {"mmap", "munmap", "syscall"} /\ ~Panics(setup.client, ev)
        BY DEF CallEvent, Panics
    <2> HIDE DEF p, ev, why
    <2>3. Reported(p, ev, why)
        BY <1>2, <2>1, SyscallTells DEF p, ev
    <2> QED
        BY <2>1, <2>2, <2>3, Zenon DEF Reporting
<1> QED
    BY <1>1, <1>2

\* What the guest does: an instruction, the way out of generated code, a call
\* that is reported, one that is not, a new translation, a call that returns.
LEMMA GuestSteps ==
    ASSUME GuestOK, Guest
    PROVE  Running \/ JitExit \/ Retranslate \/ Reporting \/ FailedCall \/ Unblock
<1>1. setup \in Setups
    BY DEF GuestOK
<1>2. ASSUME \/ \E bb_end \in BOOLEAN : Plain(bb_end)
             \/ \E a \in Accesses[setup.client] : Access(a)
             \/ \E f \in Functions[setup.client] : Call(f) \/ TailCall(f)
             \/ Return
      PROVE  Running
    BY <1>2, Runs
<1>3. ASSUME NEW m \in Mmaps[setup.client], Mmap(m) PROVE Reporting
    BY <1>1, <1>3, MmapReports
<1>4. ASSUME NEW m \in Munmaps[setup.client], Munmap(m) PROVE Reporting
    BY <1>1, <1>4, MunmapReports
<1>5. ASSUME NEW c \in Syscalls[setup.client], Syscall(c) PROVE Reporting \/ FailedCall
    BY <1>1, <1>5, SyscallReports
<1> QED
    BY <1>2, <1>3, <1>4, <1>5, Zenon DEF Guest

\* Every step keeps the invariant.
LEMMA NextInv ==
    ASSUME PipelineInv, [Next]_vars
    PROVE  PipelineInv'
<1>1. GuestOK /\ mode \in {"out", "jit", "blocked", "crash"}
    BY DEF PipelineInv, GuestOK
<1>2. CASE Running
    BY <1>2, RunningInv
<1>3. CASE JitExit
    BY <1>3, JitExitInv
<1>4. CASE Retranslate
    <2>1. UNCHANGED <<setup, guest, chunk, sent, server, executed, parsed>> /\ odd' = odd
          /\ mode' = mode
        BY <1>4 DEF Retranslate, server_vars
    <2> QED
        BY <1>1, <2>1, QuietInv
<1>5. CASE Reporting
    <2>1. PICK packet, ev, why : /\ Report(packet, ev, why) /\ Reported(packet, ev, why)
                                 /\ ev.op \in {"mmap", "munmap", "syscall"}
                                 /\ Panics(setup.client, ev) => "elf" \in why
        BY <1>5, Zenon DEF Reporting
    <2> QED
        BY <2>1, ReportInv
<1>6. CASE FailedCall
    <2>1. mode' = "crash" /\ odd' = odd \cup {"failed_call"}
          /\ UNCHANGED <<setup, guest, chunk, sent, server, executed, parsed>>
        BY <1>6 DEF FailedCall, server_vars
    <2> QED
        BY <2>1, QuietInv
<1>7. CASE Unblock
    <2>1. UNCHANGED <<setup, guest, chunk, sent, server, executed, parsed>> /\ odd' = odd
          /\ mode = "blocked" /\ mode' = "out"
        BY <1>7 DEF Unblock, server_vars
    <2> QED
        BY <2>1, QuietInv
<1>8. CASE Parse
    BY <1>8, ParseInv
<1>9. CASE Trace
    BY <1>9, TraceInv
<1>10. CASE UNCHANGED vars
    <2>1. UNCHANGED <<setup, guest, chunk, sent, server, executed, parsed>> /\ odd' = odd
          /\ mode' = mode
        BY <1>10 DEF vars
    <2> QED
        BY <1>1, <2>1, QuietInv
<1>11. CASE Guest
    BY <1>1, <1>2, <1>3, <1>4, <1>5, <1>6, <1>7, <1>11, GuestSteps
<1> QED
    BY <1>8, <1>9, <1>10, <1>11, Zenon DEF Next

\* The invariant holds always.
THEOREM PipelineInvariant == Spec => []PipelineInv
<1>1. Init => PipelineInv
    BY InitInv
<1>2. PipelineInv /\ [Next]_vars => PipelineInv'
    BY NextInv
<1> QED
    BY <1>1, <1>2, PTL DEF Spec

-----------------------------------------------------------------------------
(* What is in the buffers, and why a thread fails. *)

Buffers(n) == {b \in Seq(Byte) : Len(b) <= n}
Chunks(n) == [bytes : Buffers(n), report : BOOLEAN]

\* The report of a system call says what no client fails at, or was spoilt.
Answered(program, feature, why, b) ==
    \/ Spoilt(feature, why, b)
    \/ \E ev : /\ Says(feature, b, <<ev>>) /\ ev.op \in {"mmap", "munmap", "syscall"}
               /\ Panics(program, ev) => "elf" \in why

\* Chunks on their way, and those that were never given back.
Waiting(program, feature, why, n) == {c \in Chunks(n) : c.report => Answered(program, feature, why, c.bytes)}
Rejected(why, n) == {c \in Chunks(n) : c.report => why \cap {"cut", "path", "elf"} # {}}

\* More reasons.
LEMMA WaitingMore ==
    ASSUME NEW program, NEW feature, NEW why, NEW more, why \subseteq more, NEW n
    PROVE  /\ Waiting(program, feature, why, n) \subseteq Waiting(program, feature, more, n)
           /\ Rejected(why, n) \subseteq Rejected(more, n)
           /\ \A q \in Seq(Waiting(program, feature, why, n)) : q \in Seq(Waiting(program, feature, more, n))
           /\ \A k \in Seq(Rejected(why, n)) : k \in Seq(Rejected(more, n))
<1>1. ASSUME NEW b, Answered(program, feature, why, b) PROVE Answered(program, feature, more, b)
    BY <1>1 DEF Answered, Spoilt
<1> DEFINE W == Waiting(program, feature, why, n)  V == Waiting(program, feature, more, n)
           R == Rejected(why, n)  T == Rejected(more, n)
<1>2. W \subseteq V
    BY <1>1 DEF Waiting
<1>3. R \subseteq T
    BY DEF Rejected
<1> HIDE DEF W, V, R, T
<1>4. (\A q \in Seq(W) : q \in Seq(V)) /\ \A k \in Seq(R) : k \in Seq(T)
    BY <1>2, <1>3, SeqMonotonic
<1> QED
    BY <1>2, <1>3, <1>4 DEF W, V, R, T

\* What the hooks write to.
Fitting(program, feature, why, n, st) ==
    /\ st = [chunk |-> st.chunk, sent |-> st.sent]
    /\ st.chunk \in Buffers(n) /\ st.sent \in Seq(Waiting(program, feature, why, n))

\* A hook writes what fits, and sends what another one wrote.
LEMMA LogFits ==
    ASSUME NEW program, NEW feature, NEW why, NEW n \in Nat, n = ChunkSize[lib.inst],
           NEW st, Fitting(program, feature, why, n, st), NEW h, NEW ev, HookSays(h, feature, ev)
    PROVE  Fitting(program, feature, why, n, Log(st, h))
<1> DEFINE c == st.chunk  q == st.sent  p == h.packet  W == Waiting(program, feature, why, n)
<1>1. st = [chunk |-> c, sent |-> q] /\ c \in Seq(Byte) /\ Len(c) <= n /\ q \in Seq(W)
    BY DEF Fitting, Buffers
<1>2. p \in Seq(Byte) /\ Len(p) = h.room /\ h.room <= n
    BY DEF HookSays
<1>3. CASE Len(c) + h.room <= n
    <2> DEFINE d == c \o p
    <2>1. Log(st, h) = [st EXCEPT !.chunk = d]
        BY <1>3 DEF Log
    <2>2. d \in Seq(Byte) /\ Len(d) = Len(c) + Len(p)
        BY <1>1, <1>2, ConcatProperties
    <2> HIDE DEF c, q, d, W
    <2>3. Log(st, h) = [chunk |-> d, sent |-> q]
        BY <1>1, <2>1
    <2>4. d \in Buffers(n)
        BY <1>2, <1>3, <2>2 DEF Buffers
    <2> DEFINE l == Log(st, h)
    <2>5. l.chunk = d /\ l.sent = q
        BY <2>3
    <2> QED
        BY <1>1, <2>3, <2>4, <2>5 DEF Fitting, W
<1>4. CASE ~(Len(c) + h.room <= n)
    <2> DEFINE r == [bytes |-> c, report |-> FALSE]  z == Append(q, r)
    <2>1. Log(st, h) = [chunk |-> p, sent |-> z]
        BY <1>4 DEF Log
    <2>2. r \in W
        BY <1>1 DEF Waiting, Chunks, Buffers
    <2> HIDE DEF r, W, q
    <2>3. z \in Seq(W)
        BY <1>1, <2>2, AppendProperties
    <2> HIDE DEF z, p
    <2>4. p \in Buffers(n)
        BY <1>2 DEF Buffers
    <2> DEFINE l == Log(st, h)
    <2>5. l.chunk = p /\ l.sent = z
        BY <2>1
    <2> QED
        BY <2>1, <2>3, <2>4, <2>5 DEF Fitting, W
<1> QED
    BY <1>3, <1>4

\* All hooks of an instruction.
LEMMA LoggedFits ==
    ASSUME NEW program, NEW feature, NEW why, NEW n \in Nat, n = ChunkSize[lib.inst],
           NEW st, Fitting(program, feature, why, n, st), NEW hooks, NEW g, HooksTell(hooks, feature, g)
    PROVE  Fitting(program, feature, why, n, Logged(st, hooks))
<1>1. IsSeq(hooks) /\ \A i \in 1 .. Len(hooks) : HookSays(hooks[i], feature, g[i])
    BY DEF HooksTell
<1>2. PICK m \in Nat : m = Len(hooks)
    BY <1>1, LenProperties DEF IsSeq
<1>3. PICK u : Logging(st, hooks, m, u) /\ Logged(st, hooks) = u[m]
    BY <1>2, LoggedSteps, Zenon
<1>4. u[0] = st /\ \A k \in 1 .. m : u[k] = Log(u[k - 1], hooks[k])
    BY <1>3 DEF Logging
<1> DEFINE S == {k \in Nat : k <= m => Fitting(program, feature, why, n, u[k])}
<1>5. 0 \in S
    BY <1>4
<1>6. ASSUME NEW k \in Nat, k \in S PROVE k + 1 \in S
    <2>1. SUFFICES ASSUME k + 1 <= m PROVE Fitting(program, feature, why, n, u[k + 1])
        OBVIOUS
    <2>2. k + 1 \in 1 .. m /\ (k + 1) - 1 = k /\ k <= m
        BY <2>1
    <2> DEFINE v == u[k]  h == hooks[k + 1]  ev == g[k + 1]
    <2>3. Fitting(program, feature, why, n, v) /\ u[k + 1] = Log(v, h) /\ HookSays(h, feature, ev)
        BY <1>1, <1>2, <1>4, <1>6, <2>2
    <2> HIDE DEF v, h, ev
    <2> QED
        BY <2>3, LogFits
<1>7. m \in S
    <2> HIDE DEF S
    <2>1. \A k \in Nat : k \in S => k + 1 \in S
        BY <1>6
    <2> QED
        BY <1>5, <2>1, SetInduction
<1> QED
    BY <1>3, <1>7

\* The traces u of the first events of a chunk.
Push(program, t, ev) == Cat(t, Callback(program, ev))
Pushing(program, evs, count, u) ==
    u[0] = <<>> /\ \A k \in 1 .. count : u[k] = Push(program, u[k - 1], evs[k])

\* Pushed runs one callback after the other.
LEMMA PushedSteps ==
    ASSUME NEW program, NEW evs, NEW count \in Nat, count = Len(evs)
    PROVE  \E u : Pushing(program, evs, count, u) /\ Pushed(program, evs) = u[count]
<1> DEFINE none == <<>>
           Is(u, n) == u = [k \in 0 .. n |-> IF k = 0 THEN none ELSE Push(program, u[k - 1], evs[k])]
           S == {n \in Nat : \E u : Is(u, n)}
<1>0. none = <<>>
    OBVIOUS
<1> HIDE DEF none
<1>1. 0 \in S
    <2> DEFINE u == [k \in 0 .. 0 |-> none]
    <2>1. Is(u, 0)
        OBVIOUS
    <2> QED
        BY <2>1
<1>2. ASSUME NEW n \in Nat, n \in S PROVE n + 1 \in S
    <2>1. PICK u : Is(u, n)
        BY <1>2
    <2> DEFINE v == [k \in 0 .. n + 1 |-> IF k = 0 THEN none ELSE Push(program, u[k - 1], evs[k])]
    <2>2. \A k \in 0 .. n : v[k] = u[k]
        BY <2>1
    <2>3. \A k \in 1 .. n + 1 : k - 1 \in 0 .. n
        OBVIOUS
    <2>4. ASSUME NEW k \in 0 .. n + 1
          PROVE  (IF k = 0 THEN none ELSE Push(program, u[k - 1], evs[k]))
                     = IF k = 0 THEN none ELSE Push(program, v[k - 1], evs[k])
        <3>1. CASE k = 0
            BY <3>1
        <3>2. CASE k # 0
            <4>1. v[k - 1] = u[k - 1]
                <5> HIDE DEF v, Is
                <5>1. k - 1 \in 0 .. n
                    BY <3>2
                <5> QED
                    BY <2>2, <5>1
            <4> QED
                BY <4>1
        <3> QED
            BY <3>1, <3>2
    <2>5. Is(v, n + 1)
        BY <2>4, Zenon
    <2>6. n + 1 \in Nat
        OBVIOUS
    <2> HIDE DEF v, Is
    <2> QED
        BY <2>5, <2>6
<1>3. count \in S
    <2> HIDE DEF S
    <2>1. \A n \in Nat : n \in S => n + 1 \in S
        BY <1>2
    <2> QED
        BY <1>1, <2>1, SetInduction
<1>4. PICK x : Is(x, count)
    BY <1>3
<1> DEFINE u == CHOOSE u : u = [k \in 0 .. Len(evs) |->
                                  IF k = 0 THEN none ELSE Push(program, u[k - 1], evs[k])]
<1>5. u = [k \in 0 .. Len(evs) |-> IF k = 0 THEN none ELSE Push(program, u[k - 1], evs[k])]
    BY <1>4
<1>6. Pushed(program, evs) = u[Len(evs)]
    BY Zenon DEF Pushed, Push, Cat, none
<1> HIDE DEF u
<1>7. Pushing(program, evs, count, u)
    BY <1>0, <1>5 DEF Pushing
<1> QED
    BY <1>6, <1>7

\* A trace that the visualization draws without a panic, but for known reasons.
Drawable(why, t) ==
    /\ IsSeq(t)
    /\ \A i \in 1 .. Len(t) :
          t[i].op \in {"load", "store"} /\ t[i].addr[4] >= ADDR_MAX =>
              why \cap {"address", "placeholder"} # {}

\* What the callback of an event pushes can be drawn.
LEMMA CallbackDrawable ==
    ASSUME NEW why, NEW ev, Harmless("visualization", why, ev)
    PROVE  Drawable(why, Callback("visualization", ev))
<1> DEFINE e == Callback("visualization", ev)
<1>1. e = visualization_event(ev) /\ ev.op \in Kinds
    BY DEF Callback, Harmless
<1>2. ASSUME NEW x, x.op \in {"load", "store"} /\ x.addr[4] >= ADDR_MAX =>
                       why \cap {"address", "placeholder"} # {}
      PROVE  Drawable(why, <<x>>)
    <2> DEFINE s == <<x>>
    <2>1. IsSeq(s) /\ Len(s) = 1 /\ \A i \in 1 .. 1 : s[i] = x
        BY OneElement
    <2> HIDE DEF s
    <2>2. Drawable(why, s)
        BY <1>2, <2>1 DEF Drawable
    <2> QED
        BY <2>2 DEF s
<1>3. ASSUME ev.op \in {"read", "write"}
      PROVE  /\ Low(ev.addr, 4)[4] = ev.addr[4]
             /\ ev.addr[4] >= ADDR_MAX => why \cap {"address", "placeholder"} # {}
    <2>1. ev.addr \in Words
        BY <1>3 DEF Harmless
    <2> DEFINE b == ev.addr
    <2>3. b \in Words
        BY <2>1
    <2> HIDE DEF b
    <2>2. Low(b, 4)[4] = b[4]
        <3>1. b \in Bytes(8) /\ 4 \in Nat /\ 8 \in Nat /\ 4 \in 1 .. 4 /\ 4 <= 8
            BY <2>3 DEF Words, Bytes
        <3> QED
            BY <3>1, LowBytes
    <2> QED
        BY <1>3, <2>2 DEF b, Harmless
<1>4. CASE ev.op = "exec"
    <2> DEFINE x == [op |-> "instr"]
    <2>1. e = <<x>> /\ x.op \notin {"load", "store"}
        BY <1>1, <1>4 DEF visualization_event
    <2> HIDE DEF x, e
    <2>2. Drawable(why, <<x>>)
        BY <1>2, <2>1
    <2> QED
        BY <2>1, <2>2 DEF e
<1>5. CASE ev.op = "read"
    <2> DEFINE a == Low(ev.addr, 4)  x == [op |-> "load", addr |-> a]
    <2>1. e = <<x>> /\ x.addr = a
        BY <1>1, <1>5 DEF visualization_event
    <2> HIDE DEF x, e
    <2>2. Drawable(why, <<x>>)
        BY <1>2, <1>3, <1>5, <2>1
    <2> QED
        BY <2>1, <2>2 DEF e
<1>6. CASE ev.op = "write"
    <2> DEFINE a == Low(ev.addr, 4)  x == [op |-> "store", addr |-> a]
    <2>1. e = <<x>> /\ x.addr = a
        BY <1>1, <1>6 DEF visualization_event
    <2> HIDE DEF x, e
    <2>2. Drawable(why, <<x>>)
        BY <1>2, <1>3, <1>6, <2>1
    <2> QED
        BY <2>1, <2>2 DEF e
<1>7. CASE ev.op \notin {"exec", "read", "write"}
    <2> DEFINE none == <<>>
    <2>1. e = none
        BY <1>1, <1>7 DEF visualization_event
    <2>2. IsSeq(none) /\ Len(none) = 0
        BY DEF IsSeq
    <2> HIDE DEF none
    <2>3. Drawable(why, none)
        BY <2>2 DEF Drawable
    <2> QED
        BY <2>1, <2>3
<1> QED
    BY <1>4, <1>5, <1>6, <1>7

\* The trace of a chunk can be drawn, too.
LEMMA PushedDrawn ==
    ASSUME NEW program, NEW why, NEW evs, IsSeq(evs),
           \A i \in 1 .. Len(evs) : Harmless(program, why, evs[i]),
           TracePanics(program, Pushed(program, evs))
    PROVE  why \cap {"address", "placeholder"} # {}
<1>1. program = "visualization"
    BY DEF TracePanics
<1>2. PICK m \in Nat : m = Len(evs)
    BY LenProperties DEF IsSeq
<1>3. PICK u : Pushing(program, evs, m, u) /\ Pushed(program, evs) = u[m]
    BY <1>2, PushedSteps, Zenon
<1>4. u[0] = <<>> /\ \A k \in 1 .. m : u[k] = Push(program, u[k - 1], evs[k])
    BY <1>3 DEF Pushing
<1> DEFINE S == {k \in Nat : k <= m => Drawable(why, u[k])}
<1>5. 0 \in S
    <2> DEFINE none == <<>>
    <2>1. IsSeq(none) /\ Len(none) = 0
        BY DEF IsSeq
    <2> HIDE DEF none
    <2>2. Drawable(why, none)
        BY <2>1 DEF Drawable
    <2> QED
        BY <1>4, <2>2 DEF none
<1>6. ASSUME NEW k \in Nat, k \in S PROVE k + 1 \in S
    <2>1. SUFFICES ASSUME k + 1 <= m PROVE Drawable(why, u[k + 1])
        OBVIOUS
    <2>2. k + 1 \in 1 .. m /\ (k + 1) - 1 = k /\ k <= m
        BY <2>1
    <2> DEFINE v == u[k]  ev == evs[k + 1]  e == Callback(program, ev)
    <2>3. Drawable(why, v) /\ u[k + 1] = Cat(v, e) /\ Harmless(program, why, ev)
        BY <1>2, <1>4, <1>6, <2>2 DEF Push
    <2>4. Drawable(why, e)
        BY <1>1, <2>3, CallbackDrawable
    <2> HIDE DEF v, ev, e
    <2> DEFINE d == Cat(v, e)  a == Len(v)  b == Len(e)
    <2>5. IsSeq(v) /\ IsSeq(e)
        BY <2>3, <2>4 DEF Drawable
    <2>6. /\ IsSeq(d) /\ a \in Nat /\ b \in Nat /\ Len(d) = a + b
          /\ \A i \in 1 .. a + b : d[i] = IF i <= a THEN v[i] ELSE e[i - a]
        BY <2>5, CatAt
    <2> HIDE DEF d
    <2>7. ASSUME NEW i \in 1 .. a + b, d[i].op \in {"load", "store"}, d[i].addr[4] >= ADDR_MAX
          PROVE  why \cap {"address", "placeholder"} # {}
        <3>1. CASE i <= a
            <4>1. i \in 1 .. a /\ d[i] = v[i]
                BY <2>6, <3>1
            <4> QED
                BY <2>3, <2>7, <4>1 DEF Drawable
        <3>2. CASE ~(i <= a)
            <4>1. i - a \in 1 .. b /\ d[i] = e[i - a]
                BY <2>6, <3>2
            <4>2. PICK j \in 1 .. b : j = i - a
                BY <4>1
            <4> QED
                BY <2>4, <2>7, <4>1, <4>2 DEF Drawable
        <3> QED
            BY <3>1, <3>2
    <2>8. Drawable(why, d)
        BY <2>6, <2>7 DEF Drawable
    <2> QED
        BY <2>3, <2>8 DEF d
<1>7. m \in S
    <2> HIDE DEF S
    <2>1. \A k \in Nat : k \in S => k + 1 \in S
        BY <1>6
    <2> QED
        BY <1>5, <2>1, SetInduction
<1> DEFINE t == Pushed(program, evs)
<1>8. Drawable(why, t) /\ TracePanics(program, t)
    BY <1>3, <1>7
<1> HIDE DEF t
<1>9. DOMAIN t = 1 .. Len(t)
    <2>1. PICK T : t \in Seq(T)
        BY <1>8 DEF Drawable, IsSeq
    <2> QED
        BY <2>1, LenProperties
<1> QED
    BY <1>8, <1>9 DEF Drawable, TracePanics

\* What happened and what was parsed are events, which the clients stand.
LEMMA FaithKinds ==
    ASSUME NEW program, NEW feature, NEW why, NEW failed, NEW p, NEW q, NEW c, NEW e,
           Faith(program, feature, why, failed, p, q, c, e)
    PROVE  /\ IsSeq(e) /\ \A i \in 1 .. Len(e) : e[i].op \in Kinds
           /\ IsSeq(p) /\ \A i \in 1 .. Len(p) : Harmless(program, why, p[i])
<1>1. PICK t : Alike(program, why, t, e) /\ Begins(p, t)
    BY DEF Faith
<1>2. /\ IsSeq(t) /\ IsSeq(e) /\ Len(t) = Len(e)
      /\ \A i \in 1 .. Len(e) : t[i].op = e[i].op /\ Harmless(program, why, t[i])
    BY <1>1 DEF Alike, SameEvent
<1>3. \A i \in 1 .. Len(e) : e[i].op \in Kinds
    BY <1>2 DEF Harmless
<1>4. PICK n \in Nat : n <= Len(t) /\ p = Field(t, 0, n)
    BY <1>1 DEF Begins
<1>5. PICK T : t \in Seq(T)
    BY <1>2 DEF IsSeq
<1>6. p \in Seq(T) /\ Len(p) = n /\ (\A i \in 1 .. n : p[i] = t[i]) /\ Len(t) \in Nat
    <2>1. p = SubSeq(t, 1, n) /\ Len(t) \in Nat
        BY <1>4, <1>5 DEF Field
    <2> QED
        BY <1>4, <1>5, <2>1
<1>7. ASSUME NEW i \in 1 .. Len(p) PROVE Harmless(program, why, p[i])
    <2>1. i \in 1 .. n /\ i \in 1 .. Len(e)
        BY <1>2, <1>4, <1>6
    <2> QED
        BY <1>2, <1>6, <2>1
<1>8. IsSeq(p)
    BY <1>6 DEF IsSeq
<1> QED
    BY <1>2, <1>3, <1>7, <1>8

\* The next chunk says events that the clients stand, or was spoilt.
LEMMA FaithNext ==
    ASSUME NEW program, NEW feature, NEW why, NEW p, NEW q, NEW c, NEW e,
           Faith(program, feature, why, 0, p, q, c, e), q # <<>>,
           NEW r, r = Parsed(feature, Head(q).bytes), IsSeq(r.evs)
    PROVE  /\ r.out \in {"error", "panic"} => why \cap {"cut", "path"} # {}
           /\ r.out \notin {"error", "panic"} =>
                 \A i \in 1 .. Len(r.evs) : Harmless(program, why, r.evs[i])
<1>1. PICK t : Told(feature, why, p, q, c, t)
    BY DEF Faith
<1>2. r.out \in {"error", "panic"} => why \cap {"cut", "path"} # {}
    BY <1>1, ToldParse
<1>3. ASSUME r.out \notin {"error", "panic"}
      PROVE  \A i \in 1 .. Len(r.evs) : Harmless(program, why, r.evs[i])
    <2> DEFINE g == r.evs  d == Cat(p, g)  m == Len(p)  n == Len(g)  z == Tail(q)  zero == 0
    <2>1. zero = 0 /\ (zero # 0 => d = p) /\ (zero = 0 => r.out \notin {"error", "panic"})
        BY <1>3
    <2>2. d = Cat(p, r.evs) /\ Faith(program, feature, why, zero, p, q, c, e)
        OBVIOUS
    <2> HIDE DEF d, zero
    <2>3. Faith(program, feature, why, zero, d, Tail(q), c, e)
        BY <2>1, <2>2, FaithParse
    <2> HIDE DEF z
    <2>4. Faith(program, feature, why, zero, d, z, c, e)
        BY <2>3 DEF z
    <2>5. \A i \in 1 .. Len(d) : Harmless(program, why, d[i])
        BY <2>4, FaithKinds
    <2>6. IsSeq(p) /\ IsSeq(g)
        BY <2>2, FaithKinds
    <2> HIDE DEF g
    <2>7. /\ m \in Nat /\ n \in Nat /\ Len(d) = m + n
          /\ \A i \in 1 .. m + n : d[i] = IF i <= m THEN p[i] ELSE g[i - m]
        BY <2>6, CatAt DEF d, g
    <2> HIDE DEF m, n
    <2>8. ASSUME NEW i \in 1 .. n PROVE Harmless(program, why, g[i])
        <3>1. PICK j \in 1 .. m + n : j = m + i
            BY <2>7
        <3>2. j - m = i /\ ~(j <= m)
            BY <2>7, <3>1
        <3>3. d[j] = g[i]
            BY <2>7, <3>2
        <3> QED
            BY <2>5, <2>7, <3>1, <3>3
    <2> QED
        BY <2>8 DEF n, g
<1> QED
    BY <1>2, <1>3

-----------------------------------------------------------------------------
(* What is in the buffers, what failed and how much is on its way: the second *)
(* inductive invariant, step by step.                                         *)

Causes == {"cut", "path", "elf", "foreign", "address", "placeholder"}

Held(program, feature, why, n, c, q, k) ==
    c \in Buffers(n) /\ q \in Seq(Waiting(program, feature, why, n)) /\ k \in Seq(Rejected(why, n))
BuffersOK == Held(setup.client, setup.feature, odd, ChunkSize[setup.lib.inst], chunk, sent, server.kept)

\* Nothing fails without a reason that is known, not even in trace().
Known(program, why, m, failed, poisoned, ts) ==
    /\ poisoned => failed > 0
    /\ failed > 0 => why \cap Causes # {}
    /\ m = "crash" => "failed_call" \in why
    /\ IsSeq(ts)
    /\ \A i \in 1 .. Len(ts) :
          TracePanics(program, ts[i]) => why \cap {"address", "placeholder"} # {}
BlameOK == Known(setup.client, odd, mode, server.failed, server.poisoned, traces)

\* A thread has failed, waits with a trace, or is free.
CountsOK ==
    /\ info = setup.arch
    /\ server.failed + Len(traces) <= ServerThreads
    /\ guest.steps <= MaxSteps[setup.client]

LoadInv == PipelineInv /\ BuffersOK /\ BlameOK /\ CountsOK

\* More reasons.
LEMMA KnownMore ==
    ASSUME NEW program, NEW why, NEW more, why \subseteq more, NEW m, NEW failed, NEW poisoned,
           NEW ts, Known(program, why, m, failed, poisoned, ts),
           NEW n, n = "crash" => m = "crash" \/ "failed_call" \in more
    PROVE  Known(program, more, n, failed, poisoned, ts)
<1>1. why \cap Causes # {} => more \cap Causes # {}
    OBVIOUS
<1>2. why \cap {"address", "placeholder"} # {} => more \cap {"address", "placeholder"} # {}
    OBVIOUS
<1> QED
    BY <1>1, <1>2 DEF Known

\* More reasons for what is in the buffers.
LEMMA HeldMore ==
    ASSUME NEW program, NEW feature, NEW why, NEW more, why \subseteq more, NEW n, NEW c, NEW q, NEW k,
           Held(program, feature, why, n, c, q, k)
    PROVE  Held(program, feature, more, n, c, q, k)
BY WaitingMore DEF Held

\* The size of a buffer.
LEMMA SizeOfBuffers ==
    ASSUME setup \in Setups
    PROVE  /\ ChunkSize[setup.lib.inst] \in Nat /\ ChunkSize[setup.lib.inst] >= 25
           /\ lib.inst = setup.lib.inst /\ MaxSteps[setup.client] \in Nat
BY SetupsAssumption DEF lib

\* A chunk more waits for the server.
LEMMA HeldSent ==
    ASSUME NEW program, NEW feature, NEW why, NEW n, NEW c, NEW q, NEW k, Held(program, feature, why, n, c, q, k),
           NEW r \in Waiting(program, feature, why, n), NEW d \in Buffers(n)
    PROVE  Held(program, feature, why, n, d, Append(q, r), k)
<1> DEFINE W == Waiting(program, feature, why, n)
<1>1. q \in Seq(W) /\ r \in W
    BY DEF Held
<1> HIDE DEF W
<1>2. Append(q, r) \in Seq(W)
    BY <1>1, AppendProperties
<1> QED
    BY <1>2 DEF Held, W

\* Nothing is in an empty buffer.
LEMMA EmptyBuffer ==
    ASSUME NEW n \in Nat
    PROVE  <<>> \in Buffers(n)
<1> DEFINE none == <<>>
<1>1. none \in Seq(Byte) /\ Len(none) = 0
    OBVIOUS
<1> HIDE DEF none
<1>2. none \in Buffers(n)
    BY <1>1 DEF Buffers
<1> QED
    BY <1>2 DEF none

\* The handshake tells the name of the target.
LEMMA NameTold ==
    ASSUME NEW name \in {"mips", "armv5tel", "aarch64"}
    PROVE  FromI32[FromCstr(name)] = name
<1>1. Architecture[1] = "aarch64" /\ Architecture[5] = "armv5tel" /\ Architecture[12] = "mips"
      /\ Len(Architecture) = 27
    BY DEF Architecture
<1>2. /\ DOMAIN FromI32 = 0 .. 26 /\ \A i \in 0 .. 26 : FromI32[i] = Architecture[i + 1]
    BY <1>1 DEF FromI32
<1>3. FromI32[0] = "aarch64" /\ FromI32[4] = "armv5tel" /\ FromI32[11] = "mips"
    BY <1>1, <1>2
<1>4. \E i \in DOMAIN FromI32 : FromI32[i] = name
    BY <1>2, <1>3
<1> QED
    BY <1>4 DEF FromCstr

\* Initially the buffers are empty, and the server knows the target.
LEMMA InitLoad ==
    ASSUME Init
    PROVE  LoadInv
<1> DEFINE none == <<>>  n == ChunkSize[setup.lib.inst]
<1>1. /\ setup \in Setups /\ chunk = none /\ sent = none /\ traces = none /\ mode = "out"
      /\ server = [failed |-> 0, poisoned |-> FALSE, kept |-> none] /\ guest.steps = 0
      /\ info = FromI32[FromCstr(setup.arch)]
    BY DEF Init, QemuInfo
<1>2. none \in Seq({}) /\ Len(none) = 0
    OBVIOUS
<1>3. n \in Nat /\ none \in Buffers(n)
    BY <1>1, SizeOfBuffers, EmptyBuffer
<1>4. server.failed = 0 /\ server.poisoned = FALSE /\ server.kept = none
    BY <1>1
<1> HIDE DEF none, n
<1>5. none \in Seq(Waiting(setup.client, setup.feature, odd, n)) /\ none \in Seq(Rejected(odd, n))
    BY <1>2, SeqMonotonic, {} \subseteq Waiting(setup.client, setup.feature, odd, n),
       {} \subseteq Rejected(odd, n)
<1>6. BuffersOK
    BY <1>1, <1>3, <1>4, <1>5 DEF BuffersOK, Held, n
<1>7. IsSeq(none)
    BY <1>2 DEF IsSeq
<1>8. Known(setup.client, odd, "out", 0, FALSE, none)
    BY <1>2, <1>7 DEF Known
<1>9. BlameOK
    BY <1>1, <1>4, <1>8 DEF BlameOK
<1>10. CountsOK
    <2>1. setup.arch \in {"mips", "armv5tel", "aarch64"}
        BY <1>1, SetupsAssumption DEF Abi
    <2>2. FromI32[FromCstr(setup.arch)] = setup.arch
        BY <2>1, NameTold
    <2>3. 0 + 0 <= ServerThreads /\ 0 <= MaxSteps[setup.client]
        BY <1>1, SizeOfBuffers, PipelineAssumption
    <2> QED
        BY <1>1, <1>2, <1>4, <2>2, <2>3 DEF CountsOK
<1>11. PipelineInv
    BY InitInv
<1> QED
    BY <1>6, <1>9, <1>10, <1>11 DEF LoadInv

\* Every step of the guest is counted.
LEMMA ExecuteSteps ==
    ASSUME GuestOK, NEW bb_end, NEW a, NEW next \in Guests, NEW why,
           Execute(bb_end, a, next, why), next.steps = guest.steps
    PROVE  guest'.steps <= MaxSteps[setup.client]
<1>1. guest' = [next EXCEPT !.steps = @ + 1, !.ran = [frames |-> guest.frames, ra |-> guest.ra]]
      /\ guest.steps < MaxSteps[setup.client]
    BY DEF Execute
<1>2. MaxSteps[setup.client] \in Nat /\ guest.steps \in Nat
    BY SizeOfBuffers DEF GuestOK, Guests
<1> DEFINE F == Seq(Frame)  Rans == [frames : F, ra : Nat]  n == next.steps + 1
           run == [frames |-> guest.frames, ra |-> guest.ra]
           g == [next EXCEPT !.steps = n, !.ran = run]
<1>3. next \in [pc : Nat, ra : Nat, frames : F, steps : Nat, ran : Rans] /\ guest' = g
    BY <1>1 DEF Guests
<1>4. n = guest.steps + 1
    OBVIOUS
<1> HIDE DEF F, Rans, n, run
<1>5. g.steps = n
    BY <1>3
<1> HIDE DEF g
<1> QED
    BY <1>1, <1>2, <1>3, <1>4, <1>5

\* The hooks of an instruction stay within a buffer, and find what they call.
LEMMA RunningLoad ==
    ASSUME LoadInv, Running
    PROVE  BuffersOK' /\ BlameOK' /\ CountsOK'
<1>1. PICK bb_end \in BOOLEAN, next \in Guests : \E a, why :
          /\ Execute(bb_end, a, next, why) /\ Calls(next.frames) /\ next.steps = guest.steps
          /\ a # <<>> => Work(a[1])
    BY Zenon DEF Running
<1>2. PICK a, why : /\ Execute(bb_end, a, next, why) /\ next.steps = guest.steps
                    /\ a # <<>> => Work(a[1])
    BY <1>1
<1> DEFINE program == setup.client  feature == setup.feature
           n == ChunkSize[setup.lib.inst]  hooks == HooksOf(bb_end, a)
           s == [chunk |-> chunk, sent |-> sent]  st == Logged(s, hooks)  more == odd'
<1>3. /\ setup' = setup /\ server' = server /\ traces' = traces /\ info' = info
      /\ chunk' = st.chunk /\ sent' = st.sent
      /\ more = odd \cup Reasons(a) \cup why
      /\ mode' = IF \E i \in DOMAIN hooks : hooks[i].flush # FLUSH THEN "crash" ELSE "jit"
    BY <1>2 DEF Execute, HooksOf, server_vars
<1>4. GuestOK /\ setup \in Setups /\ guest.pc \in Nat /\ guest.ra \in Nat
    BY DEF LoadInv, PipelineInv, GuestOK, Guests
<1>5. odd \subseteq more /\ Reasons(a) \subseteq more
    BY <1>3
<1> HIDE DEF more
<1>6. PICK g : HooksTell(hooks, feature, g)
    BY <1>2, <1>4, <1>5, HooksOfTold
<1>7. n \in Nat /\ n = ChunkSize[lib.inst]
    BY <1>4, SizeOfBuffers
<1>8. Held(program, feature, odd, n, chunk, sent, server.kept)
    BY DEF LoadInv, BuffersOK
<1>9. s = [chunk |-> s.chunk, sent |-> s.sent] /\ s.chunk = chunk /\ s.sent = sent
    OBVIOUS
<1> HIDE DEF s, n, feature, program, hooks
<1>10. Fitting(program, feature, odd, n, s)
    BY <1>8, <1>9 DEF Fitting, Held
<1>11. Fitting(program, feature, odd, n, st)
    BY <1>6, <1>7, <1>10, LoggedFits
<1> HIDE DEF st
<1>12. Held(program, feature, odd, n, st.chunk, st.sent, server.kept)
    BY <1>8, <1>11 DEF Fitting, Held
<1>13. Held(program, feature, more, n, st.chunk, st.sent, server.kept)
    BY <1>5, <1>12, HeldMore
<1>14. BuffersOK'
    BY <1>3, <1>13 DEF BuffersOK, program, feature, n, more
<1>15. mode' = "jit"
    <2>1. IsSeq(hooks) /\ \A i \in 1 .. Len(hooks) : hooks[i].flush = FLUSH
        BY <1>6 DEF HooksTell, HookSays
    <2>2. DOMAIN hooks = 1 .. Len(hooks)
        <3>1. PICK T : hooks \in Seq(T)
            BY <2>1 DEF IsSeq
        <3> QED
            BY <3>1, LenProperties
    <2> QED
        BY <1>3, <2>1, <2>2
<1>16. BlameOK'
    <2> DEFINE m == mode'
    <2>1. m = "crash" => mode = "crash" \/ "failed_call" \in more
        BY <1>15
    <2>2. Known(setup.client, odd, mode, server.failed, server.poisoned, traces)
        BY DEF LoadInv, BlameOK
    <2> HIDE DEF m
    <2>3. Known(setup.client, more, m, server.failed, server.poisoned, traces)
        BY <1>5, <2>1, <2>2, KnownMore
    <2> QED
        BY <1>3, <2>3 DEF BlameOK, m, more
<1>17. CountsOK'
    <2>1. guest'.steps <= MaxSteps[setup.client]
        BY <1>2, <1>4, ExecuteSteps
    <2> QED
        BY <1>3, <2>1 DEF LoadInv, CountsOK
<1> QED
    BY <1>14, <1>16, <1>17

\* A report is cut to a buffer, and says what no client fails at.
LEMMA ReportLoad ==
    ASSUME LoadInv, NEW packet, NEW ev, NEW why, Report(packet, ev, why),
           Reported(packet, ev, why), ev.op \in {"mmap", "munmap", "syscall"},
           Panics(setup.client, ev) => "elf" \in why
    PROVE  BuffersOK' /\ BlameOK' /\ CountsOK'
<1> DEFINE program == setup.client  feature == setup.feature
           n == ChunkSize[setup.lib.inst]  b == Sent(packet)
           r == [bytes |-> b, report |-> TRUE]  more == odd'
<1>1. /\ mode' = "blocked" /\ setup' = setup /\ chunk' = chunk /\ guest.steps < MaxSteps[setup.client]
      /\ guest' = [guest EXCEPT !.steps = @ + 1] /\ server' = server /\ traces' = traces
      /\ info' = info /\ sent' = Append(sent, r)
      /\ more = odd \cup why \cup Given(Len(packet) > ChunkSize[lib.inst], "cut")
    BY DEF Report, server_vars
<1>2. setup \in Setups /\ guest \in Guests
    BY DEF LoadInv, PipelineInv, GuestOK
<1>3. n \in Nat /\ n >= 25 /\ n = ChunkSize[lib.inst] /\ MaxSteps[setup.client] \in Nat
    BY <1>2, SizeOfBuffers
<1>4. odd \subseteq more /\ why \subseteq more
      /\ (Len(packet) > ChunkSize[lib.inst] => "cut" \in more)
    BY <1>1 DEF Given
<1> HIDE DEF more
<1>5. Reported(packet, ev, more)
    BY <1>4 DEF Reported
<1>6. Says(feature, b, <<ev>>) \/ Spoilt(feature, more, b)
    BY <1>3, <1>4, <1>5, SentTold
<1>7. Answered(program, feature, more, b)
    BY <1>4, <1>6 DEF Answered
<1>8. b \in Buffers(n)
    <2>1. packet \in Seq(Byte)
        BY <1>5 DEF Reported, Tells
    <2>2. b = IF Len(packet) < n THEN packet ELSE Field(packet, 0, n)
        BY <1>3 DEF Sent, Low
    <2>3. CASE Len(packet) < n
        BY <1>3, <2>1, <2>2, <2>3, LenProperties DEF Buffers
    <2>4. CASE ~(Len(packet) < n)
        <3> DEFINE f == Field(packet, 0, n)
        <3>1. Len(packet) \in Nat /\ n <= Len(packet)
            BY <1>3, <2>1, <2>4, LenProperties
        <3> HIDE DEF n
        <3>2. f \in Seq(Byte) /\ Len(f) = n
            BY <1>3, <2>1, <3>1 DEF Field
        <3> HIDE DEF f
        <3>3. f \in Buffers(n)
            BY <1>3, <3>2 DEF Buffers
        <3> QED
            BY <2>2, <2>4, <3>3 DEF f
    <2> QED
        BY <2>3, <2>4
<1>9. r \in Waiting(program, feature, more, n)
    BY <1>7, <1>8 DEF Waiting, Chunks
<1>10. Held(program, feature, odd, n, chunk, sent, server.kept)
    BY DEF LoadInv, BuffersOK
<1> HIDE DEF r, b, n, feature, program
<1>11. Held(program, feature, more, n, chunk, sent, server.kept)
    BY <1>4, <1>10, HeldMore
<1>12. chunk \in Buffers(n)
    BY <1>10 DEF Held
<1>13. Held(program, feature, more, n, chunk, Append(sent, r), server.kept)
    BY <1>9, <1>11, <1>12, HeldSent
<1>14. BuffersOK'
    BY <1>1, <1>13 DEF BuffersOK, program, feature, n, more
<1>15. BlameOK'
    <2> DEFINE m == mode'
    <2>1. m = "crash" => mode = "crash" \/ "failed_call" \in more
        BY <1>1
    <2>2. Known(setup.client, odd, mode, server.failed, server.poisoned, traces)
        BY DEF LoadInv, BlameOK
    <2> HIDE DEF m
    <2>3. Known(setup.client, more, m, server.failed, server.poisoned, traces)
        BY <1>4, <2>1, <2>2, KnownMore
    <2> QED
        BY <1>1, <2>3 DEF BlameOK, m, more
<1>16. CountsOK'
    <2> DEFINE k == guest.steps + 1  F == Seq(Frame)  Rans == [frames : F, ra : Nat]
               g == [guest EXCEPT !.steps = k]
    <2>1. guest \in [pc : Nat, ra : Nat, frames : F, steps : Nat, ran : Rans] /\ guest' = g
        BY <1>1, <1>2 DEF Guests
    <2>2. k <= MaxSteps[setup.client]
        BY <1>1, <1>3, <2>1
    <2> HIDE DEF k, F, Rans
    <2>3. g.steps = k
        BY <2>1
    <2> HIDE DEF g
    <2> QED
        BY <1>1, <2>1, <2>2, <2>3 DEF LoadInv, CountsOK
<1> QED
    BY <1>14, <1>15, <1>16

\* The way out of generated code sends the chunk as it is.
LEMMA JitExitLoad ==
    ASSUME LoadInv, JitExit
    PROVE  BuffersOK' /\ BlameOK' /\ CountsOK'
<1> DEFINE program == setup.client  feature == setup.feature
           n == ChunkSize[setup.lib.inst]  none == <<>>
           r == [bytes |-> chunk, report |-> FALSE]
<1>1. /\ mode' = "out" /\ chunk' = none /\ setup' = setup /\ guest' = guest /\ server' = server
      /\ traces' = traces /\ info' = info /\ odd' = odd /\ sent' = Append(sent, r)
    BY DEF JitExit, server_vars
<1>2. setup \in Setups
    BY DEF LoadInv, PipelineInv, GuestOK
<1>3. n \in Nat /\ none \in Buffers(n)
    BY <1>2, SizeOfBuffers, EmptyBuffer
<1>4. Held(program, feature, odd, n, chunk, sent, server.kept)
    BY DEF LoadInv, BuffersOK
<1>5. r \in Waiting(program, feature, odd, n)
    <2>1. chunk \in Buffers(n)
        BY <1>4 DEF Held
    <2> QED
        BY <2>1 DEF Waiting, Chunks
<1> HIDE DEF none, n, feature, program, r
<1>6. Held(program, feature, odd, n, none, Append(sent, r), server.kept)
    BY <1>3, <1>4, <1>5, HeldSent
<1>7. BuffersOK'
    BY <1>1, <1>6 DEF BuffersOK, program, feature, n
<1>8. BlameOK'
    BY <1>1 DEF LoadInv, BlameOK, Known
<1>9. CountsOK'
    BY <1>1 DEF LoadInv, CountsOK
<1> QED
    BY <1>7, <1>8, <1>9

\* A call that is not reported, a new translation, a call that returns.
LEMMA QuietLoad ==
    ASSUME LoadInv, UNCHANGED <<setup, guest, chunk, sent, server, traces, info>>,
           odd \subseteq odd', mode' = "crash" => mode = "crash" \/ "failed_call" \in odd'
    PROVE  BuffersOK' /\ BlameOK' /\ CountsOK'
<1> DEFINE feature == setup.feature  n == ChunkSize[setup.lib.inst]  more == odd'  m == mode'
           program == setup.client
<1>1. /\ setup' = setup /\ guest' = guest /\ chunk' = chunk /\ sent' = sent /\ server' = server
      /\ traces' = traces /\ info' = info
    OBVIOUS
<1>2. Held(program, feature, odd, n, chunk, sent, server.kept)
      /\ Known(program, odd, mode, server.failed, server.poisoned, traces)
    BY DEF LoadInv, BuffersOK, BlameOK
<1>3. odd \subseteq more /\ (m = "crash" => mode = "crash" \/ "failed_call" \in more)
    OBVIOUS
<1> HIDE DEF feature, n, more, m, program
<1>4. Held(program, feature, more, n, chunk, sent, server.kept)
    BY <1>2, <1>3, HeldMore
<1>5. Known(program, more, m, server.failed, server.poisoned, traces)
    BY <1>2, <1>3, KnownMore
<1>6. BuffersOK' /\ BlameOK'
    BY <1>1, <1>4, <1>5 DEF BuffersOK, BlameOK, feature, n, more, m, program
<1>7. CountsOK'
    BY <1>1 DEF LoadInv, CountsOK
<1> QED
    BY <1>6, <1>7

\* A thread fails at what it parsed.
Failing(program, r) == r.out \in {"error", "panic"} \/ \E i \in DOMAIN r.evs : Panics(program, r.evs[i])

\* What a thread does with the next chunk.
LEMMA ParseDoes ==
    ASSUME ServerOK, Parse, NEW r, r = Parsed(setup.feature, Head(sent).bytes)
    PROVE  /\ sent # <<>> /\ sent' = Tail(sent) /\ server.failed + Len(traces) < ServerThreads
           /\ setup' = setup /\ guest' = guest /\ mode' = mode /\ chunk' = chunk
           /\ info' = info /\ odd' = odd /\ client' = client
           /\ server'.poisoned = server.poisoned /\ server'.failed \in Nat
           /\ Failing(setup.client, r) \/ server.poisoned => server'.failed = server.failed + 1
           /\ ~(Failing(setup.client, r) \/ server.poisoned) => server'.failed = server.failed
           /\ Failing(setup.client, r) => server'.kept = Append(server.kept, Head(sent))
           /\ ~Failing(setup.client, r) => server'.kept = server.kept
           /\ server'.failed > 0 => traces' = traces /\ parsed' = parsed
           /\ ~(server'.failed > 0) =>
                 /\ traces' = Append(traces, Pushed(setup.client, r.evs))
                 /\ parsed' = Cat(parsed, r.evs)
<1> DEFINE fails == Failing(setup.client, r)
           n == IF fails \/ server.poisoned THEN server.failed + 1 ELSE server.failed
           k == IF fails THEN Append(server.kept, Head(sent)) ELSE server.kept
<1>1. /\ sent # <<>> /\ sent' = Tail(sent) /\ server.failed + Len(traces) < ServerThreads
      /\ setup' = setup /\ guest' = guest /\ mode' = mode /\ chunk' = chunk
      /\ info' = info /\ odd' = odd /\ client' = client
    BY DEF Parse, CanParse
<1>2. /\ server' = [server EXCEPT !.failed = IF fails \/ server.poisoned THEN @ + 1 ELSE @,
                                  !.kept = IF fails THEN Append(@, Head(sent)) ELSE @]
      /\ IF server'.failed > 0
         THEN UNCHANGED <<traces, parsed>>
         ELSE /\ traces' = Append(traces, Pushed(setup.client, r.evs))
              /\ parsed' = parsed \o r.evs
    BY Zenon DEF Parse, Failing
<1> DEFINE a == server.failed  b == server.poisoned  c == server.kept
<1>3. server' = [server EXCEPT !.failed = n, !.kept = k]
    BY <1>2
<1>4. n \in Nat /\ server = [failed |-> a, poisoned |-> b, kept |-> c]
    BY DEF ServerOK
<1>5. /\ fails \/ server.poisoned => n = server.failed + 1
      /\ ~(fails \/ server.poisoned) => n = server.failed
      /\ fails => k = Append(server.kept, Head(sent))
      /\ ~fails => k = server.kept
    BY Zenon
<1> HIDE DEF n, k, a, b, c
<1>6. server' = [failed |-> n, poisoned |-> b, kept |-> k]
    BY <1>3, <1>4, ServerChanged, Zenon
<1>7. server'.failed = n /\ server'.poisoned = b /\ server'.kept = k
    BY <1>6
<1>8. /\ server'.failed > 0 => traces' = traces /\ parsed' = parsed
      /\ ~(server'.failed > 0) => /\ traces' = Append(traces, Pushed(setup.client, r.evs))
                                  /\ parsed' = Cat(parsed, r.evs)
    BY <1>2, Zenon DEF Cat
<1> QED
    BY <1>1, <1>4, <1>5, <1>7, <1>8, Zenon DEF b

\* A chunk that no thread gives back, if it is a report, was spoilt.
LEMMA KeptRejected ==
    ASSUME NEW program, NEW feature, NEW why, NEW n, NEW h \in Waiting(program, feature, why, n),
           NEW r, r = Parsed(feature, h.bytes), Failing(program, r)
    PROVE  h \in Rejected(why, n)
<1>1. h \in Chunks(n)
    BY DEF Waiting
<1>2. ASSUME h.report PROVE why \cap {"cut", "path", "elf"} # {}
    <2>1. Answered(program, feature, why, h.bytes)
        BY <1>2 DEF Waiting
    <2>2. CASE Spoilt(feature, why, h.bytes)
        BY <2>2 DEF Spoilt
    <2>3. CASE \E ev : /\ Says(feature, h.bytes, <<ev>>) /\ ev.op \in {"mmap", "munmap", "syscall"}
                       /\ Panics(program, ev) => "elf" \in why
        <3>1. PICK ev : Says(feature, h.bytes, <<ev>>) /\ (Panics(program, ev) => "elf" \in why)
            BY <2>3
        <3> DEFINE one == <<ev>>
        <3>2. r = [out |-> "ok", evs |-> one]
            BY <3>1 DEF Says
        <3>3. DOMAIN one = {1} /\ one[1] = ev
            OBVIOUS
        <3> HIDE DEF one
        <3>4. r.out = "ok" /\ r.evs = one
            BY <3>2
        <3>5. Panics(program, ev)
            BY <3>3, <3>4 DEF Failing
        <3> QED
            BY <3>1, <3>5
    <2> QED
        BY <2>1, <2>2, <2>3 DEF Answered
<1> QED
    BY <1>1, <1>2 DEF Rejected

\* The first element of a sequence, and the others.
LEMMA HeadOf ==
    ASSUME NEW W, NEW q \in Seq(W), q # <<>>
    PROVE  Head(q) \in W /\ Tail(q) \in Seq(W)
BY HeadTailProperties

\* A thread parses a chunk: it fails for a reason that is known, and the trace
\* of what it parsed can be consumed but for a reason that is known.
LEMMA ParseLoad ==
    ASSUME LoadInv, Parse
    PROVE  BuffersOK' /\ BlameOK' /\ CountsOK'
<1> DEFINE program == setup.client  feature == setup.feature  n == ChunkSize[setup.lib.inst]
           h == Head(sent)  r == Parsed(feature, h.bytes)  f == server'.failed
           t == Pushed(program, r.evs)  W == Waiting(program, feature, odd, n)  R == Rejected(odd, n)
<1>1. ServerOK /\ server.failed \in Nat /\ server.poisoned \in BOOLEAN
    BY DEF LoadInv, PipelineInv, ServerOK
<1>2. /\ sent # <<>> /\ sent' = Tail(sent) /\ server.failed + Len(traces) < ServerThreads
      /\ setup' = setup /\ guest' = guest /\ mode' = mode /\ chunk' = chunk
      /\ info' = info /\ odd' = odd
      /\ server'.poisoned = server.poisoned /\ f \in Nat
      /\ Failing(program, r) \/ server.poisoned => f = server.failed + 1
      /\ ~(Failing(program, r) \/ server.poisoned) => f = server.failed
      /\ Failing(program, r) => server'.kept = Append(server.kept, h)
      /\ ~Failing(program, r) => server'.kept = server.kept
      /\ f > 0 => traces' = traces
      /\ ~(f > 0) => traces' = Append(traces, t)
    BY <1>1, ParseDoes
<1>3. chunk \in Buffers(n) /\ sent \in Seq(W) /\ server.kept \in Seq(R)
    BY DEF LoadInv, BuffersOK, Held
<1>4. Known(program, odd, mode, server.failed, server.poisoned, traces)
    BY DEF LoadInv, BlameOK
<1>5. Faith(program, feature, odd, server.failed, parsed, sent, chunk, executed)
    BY DEF LoadInv, PipelineInv, FaithOK
<1>6. r = Parsed(feature, h.bytes) /\ h = Head(sent) /\ t = Pushed(program, r.evs)
    OBVIOUS
<1> HIDE DEF program, feature, n, r, t, f, W, R, h
<1>7. h \in W /\ sent' \in Seq(W)
    BY <1>2, <1>3, <1>6, HeadOf
<1>8. h.bytes \in Seq(Byte) /\ IsSeq(r.evs)
    <2>1. h.bytes \in Seq(Byte)
        BY <1>7 DEF W, Waiting, Chunks, Buffers
    <2> QED
        BY <1>6, <2>1, ParsedType
<1>9. BuffersOK'
    <2>1. server'.kept \in Seq(R)
        <3>1. CASE Failing(program, r)
            <4>1. h \in R
                BY <1>6, <1>7, <3>1, KeptRejected DEF W, R
            <4> DEFINE k == server.kept
            <4>2. k \in Seq(R)
                BY <1>3
            <4> HIDE DEF k
            <4>3. Append(k, h) \in Seq(R)
                BY <4>1, <4>2, AppendProperties
            <4> QED
                BY <1>2, <3>1, <4>3 DEF k
        <3>2. CASE ~Failing(program, r)
            BY <1>2, <1>3, <3>2
        <3> QED
            BY <3>1, <3>2
    <2> QED
        BY <1>2, <1>3, <1>7, <2>1 DEF BuffersOK, Held, W, R, program, feature, n
<1>10. IsSeq(traces) /\ Len(traces) \in Nat
    BY <1>4, LenProperties DEF Known, IsSeq
<1>11. ASSUME server.failed = 0
       PROVE  /\ Failing(program, r) => odd \cap Causes # {}
              /\ ~Failing(program, r) =>
                    (TracePanics(program, t) => odd \cap {"address", "placeholder"} # {})
    <2> DEFINE zero == 0
    <2>1. Faith(program, feature, odd, zero, parsed, sent, chunk, executed) /\ zero = 0
        BY <1>5, <1>11
    <2>2. /\ r.out \in {"error", "panic"} => odd \cap {"cut", "path"} # {}
          /\ r.out \notin {"error", "panic"} =>
                \A i \in 1 .. Len(r.evs) : Harmless(program, odd, r.evs[i])
        BY <1>2, <1>6, <1>8, <2>1, FaithNext
    <2>3. DOMAIN r.evs = 1 .. Len(r.evs)
        <3>1. PICK T : r.evs \in Seq(T)
            BY <1>8 DEF IsSeq
        <3> QED
            BY <3>1, LenProperties
    <2>4. CASE r.out \in {"error", "panic"}
        <3>1. Failing(program, r) /\ odd \cap Causes # {}
            BY <2>2, <2>4 DEF Failing, Causes
        <3> QED
            BY <3>1
    <2>5. CASE r.out \notin {"error", "panic"}
        <3>1. Failing(program, r) => odd \cap Causes # {}
            <4>1. ASSUME NEW i \in 1 .. Len(r.evs), Panics(program, r.evs[i])
                  PROVE  odd \cap Causes # {}
                <5>1. odd \cap {"foreign", "elf"} # {}
                    BY <2>2, <2>5, <4>1 DEF Harmless
                <5> QED
                    BY <5>1 DEF Causes
            <4> QED
                BY <2>3, <2>5, <4>1, Zenon DEF Failing
        <3>2. TracePanics(program, t) => odd \cap {"address", "placeholder"} # {}
            BY <1>6, <1>8, <2>2, <2>5, PushedDrawn
        <3> QED
            BY <3>1, <3>2
    <2> QED
        BY <2>4, <2>5
<1>12. server.poisoned => server.failed > 0
    BY <1>4 DEF Known
<1>13. Known(program, odd, mode, f, server.poisoned, traces')
    <2>1. server.poisoned => f > 0
        BY <1>1, <1>2
    <2>2. f > 0 => odd \cap Causes # {}
        <3>1. CASE server.failed = 0
            <4>1. ~server.poisoned
                BY <1>12, <3>1
            <4>2. f > 0 => Failing(program, r)
                BY <1>2, <3>1, <4>1
            <4> QED
                BY <1>11, <3>1, <4>2
        <3>2. CASE server.failed # 0
            <4>1. server.failed > 0
                BY <1>1, <3>2
            <4> QED
                BY <1>4, <4>1 DEF Known
        <3> QED
            BY <3>1, <3>2
    <2>3. CASE f > 0
        <3>1. traces' = traces
            BY <1>2, <2>3
        <3> QED
            BY <1>4, <2>1, <2>2, <3>1 DEF Known
    <2>4. CASE ~(f > 0)
        <3>1. traces' = Append(traces, t)
            BY <1>2, <2>4
        <3>2. server.failed = 0 /\ ~Failing(program, r)
            BY <1>1, <1>2, <2>4
        <3>3. TracePanics(program, t) => odd \cap {"address", "placeholder"} # {}
            BY <1>11, <3>2
        <3> DEFINE d == Append(traces, t)  m == Len(traces)
        <3>4. /\ IsSeq(d) /\ m \in Nat /\ Len(d) = m + 1
              /\ \A i \in 1 .. m : d[i] = traces[i]
              /\ d[m + 1] = t
            BY <1>10, AppendKnown
        <3>5. \A i \in 1 .. m : TracePanics(program, traces[i]) =>
                  odd \cap {"address", "placeholder"} # {}
            BY <1>4 DEF Known
        <3> HIDE DEF d, m
        <3>6. ASSUME NEW i \in 1 .. Len(d), TracePanics(program, d[i])
              PROVE  odd \cap {"address", "placeholder"} # {}
            <4>1. CASE i \in 1 .. m
                BY <3>4, <3>5, <3>6, <4>1
            <4>2. CASE i = m + 1
                BY <3>3, <3>4, <3>6, <4>2
            <4> QED
                BY <3>4, <4>1, <4>2
        <3>7. Known(program, odd, mode, f, server.poisoned, d)
            BY <1>4, <2>1, <2>2, <3>4, <3>6 DEF Known
        <3> QED
            BY <3>1, <3>7 DEF d
    <2> QED
        BY <2>3, <2>4
<1>14. BlameOK'
    BY <1>2, <1>13 DEF BlameOK, program, f
<1>15. CountsOK'
    <2>1. info = setup.arch /\ server.failed + Len(traces) <= ServerThreads
          /\ guest.steps <= MaxSteps[setup.client]
        BY DEF LoadInv, CountsOK
    <2>2. ServerThreads \in Nat
        BY PipelineAssumption
    <2>3. f + Len(traces') <= ServerThreads
        <3>1. CASE f > 0
            <4>1. f <= server.failed + 1
                BY <1>1, <1>2
            <4> QED
                BY <1>1, <1>2, <1>10, <2>2, <3>1, <4>1
        <3>2. CASE ~(f > 0)
            <4>1. Len(traces') = Len(traces) + 1
                BY <1>2, <1>10, <3>2, AppendKnown
            <4>2. f = 0 /\ server.failed = 0
                BY <1>1, <1>2, <3>2
            <4> QED
                BY <1>2, <1>10, <2>2, <4>1, <4>2
        <3> QED
            BY <3>1, <3>2
    <2> QED
        BY <1>2, <2>1, <2>3 DEF CountsOK, f
<1> QED
    BY <1>9, <1>14, <1>15

\* A trace is consumed, or its thread fails for a reason that is known.
LEMMA TraceLoad ==
    ASSUME LoadInv, Trace
    PROVE  BuffersOK' /\ BlameOK' /\ CountsOK'
<1> DEFINE program == setup.client  z == Tail(traces)  n == server.failed + 1
<1>1. /\ traces # <<>> /\ traces' = z
      /\ setup' = setup /\ guest' = guest /\ chunk' = chunk /\ sent' = sent /\ mode' = mode
      /\ info' = info /\ odd' = odd
    BY DEF Trace
<1>2. \/ server' = server
      \/ /\ server.poisoned \/ TracePanics(program, Head(traces))
         /\ server' = [server EXCEPT !.failed = @ + 1, !.poisoned = TRUE]
    BY DEF Trace
<1>3. ServerOK
    BY DEF LoadInv, PipelineInv
<1>4. Known(program, odd, mode, server.failed, server.poisoned, traces)
    BY DEF LoadInv, BlameOK
<1>5. PICK T : traces \in Seq(T)
    BY <1>4 DEF Known, IsSeq
<1> HIDE DEF z, program
<1>6. PICK m \in Nat : Len(traces) = m + 1
    <2>1. Len(traces) \in Nat /\ Len(traces) # 0
        BY <1>1, <1>5, EmptySeq, LenProperties
    <2>2. Len(traces) - 1 \in Nat /\ Len(traces) = (Len(traces) - 1) + 1
        BY <2>1
    <2> QED
        BY <2>2
<1>7. /\ z \in Seq(T) /\ Len(z) = m /\ (\A i \in 1 .. m : z[i] = traces[i + 1])
      /\ Head(traces) = traces[1]
    <2>1. Tail(traces) \in Seq(T) /\ Len(Tail(traces)) = Len(traces) - 1
          /\ (\A i \in 1 .. Len(Tail(traces)) : Tail(traces)[i] = traces[i + 1])
          /\ Head(traces) = traces[1]
        BY <1>1, <1>5, HeadTailProperties
    <2>2. Len(Tail(traces)) = m
        BY <1>6, <2>1
    <2> QED
        BY <2>1, <2>2 DEF z
<1>8. \A i \in 1 .. m : TracePanics(program, z[i]) => odd \cap {"address", "placeholder"} # {}
    <2>1. \A i \in 1 .. m : i + 1 \in 1 .. Len(traces)
        BY <1>6
    <2> QED
        BY <1>4, <1>7, <2>1 DEF Known
<1>9. IsSeq(z) /\ Len(z) = m
    BY <1>7 DEF IsSeq
<1>10. /\ info = setup.arch /\ server.failed + Len(traces) <= ServerThreads
       /\ guest.steps <= MaxSteps[setup.client] /\ ServerThreads \in Nat
    BY PipelineAssumption DEF LoadInv, CountsOK
<1>11. server.failed \in Nat
    BY <1>3 DEF ServerOK
<1>12. Held(setup.client, setup.feature, odd, ChunkSize[setup.lib.inst], chunk, sent, server.kept)
    BY DEF LoadInv, BuffersOK
<1>13. CASE server' = server
    <2>1. BuffersOK'
        BY <1>1, <1>12, <1>13 DEF BuffersOK
    <2>2. Known(program, odd, mode, server.failed, server.poisoned, z)
        BY <1>4, <1>8, <1>9 DEF Known
    <2>3. BlameOK'
        BY <1>1, <1>13, <2>2 DEF BlameOK, program
    <2>4. server.failed + m <= ServerThreads
        BY <1>6, <1>10, <1>11
    <2>5. CountsOK'
        BY <1>1, <1>9, <1>10, <1>13, <2>4 DEF CountsOK
    <2> QED
        BY <2>1, <2>3, <2>5
<1>14. CASE /\ server.poisoned \/ TracePanics(program, Head(traces))
            /\ server' = [server EXCEPT !.failed = @ + 1, !.poisoned = TRUE]
    <2>1. server'.failed = n /\ server'.poisoned = TRUE /\ server'.kept = server.kept
        <3>1. server' = [server EXCEPT !.failed = n, !.poisoned = TRUE]
            BY <1>14
        <3> HIDE DEF n
        <3>2. server' = [failed |-> n, poisoned |-> TRUE, kept |-> server.kept]
            BY <1>3, <3>1 DEF ServerOK
        <3> QED
            BY <3>2
    <2>2. BuffersOK'
        BY <1>1, <1>12, <2>1 DEF BuffersOK
    <2>3. odd \cap Causes # {}
        <3>1. CASE server.poisoned
            BY <1>4, <3>1 DEF Known
        <3>2. CASE TracePanics(program, Head(traces))
            <4>1. 1 \in 1 .. Len(traces)
                BY <1>6
            <4>2. odd \cap {"address", "placeholder"} # {}
                BY <1>4, <1>7, <3>2, <4>1 DEF Known
            <4> QED
                BY <4>2 DEF Causes
        <3> QED
            BY <1>14, <3>1, <3>2
    <2>4. n > 0 /\ n + m <= ServerThreads
        BY <1>6, <1>10, <1>11
    <2> HIDE DEF n
    <2>5. Known(program, odd, mode, n, TRUE, z)
        BY <1>4, <1>8, <1>9, <2>3, <2>4 DEF Known
    <2>6. BlameOK'
        BY <1>1, <2>1, <2>5 DEF BlameOK, program
    <2>7. CountsOK'
        BY <1>1, <1>9, <1>10, <2>1, <2>4 DEF CountsOK
    <2> QED
        BY <2>2, <2>6, <2>7
<1> QED
    BY <1>2, <1>13, <1>14

\* Every step keeps the second invariant, too.
LEMMA NextLoad ==
    ASSUME LoadInv, [Next]_vars
    PROVE  LoadInv'
<1>1. PipelineInv /\ GuestOK
    BY DEF LoadInv, PipelineInv
<1>2. PipelineInv'
    BY <1>1, NextInv
<1>3. SUFFICES BuffersOK' /\ BlameOK' /\ CountsOK'
    BY <1>2 DEF LoadInv
<1>4. CASE Running
    BY <1>4, RunningLoad
<1>5. CASE JitExit
    BY <1>5, JitExitLoad
<1>6. CASE Retranslate
    <2>1. UNCHANGED <<setup, guest, chunk, sent, server, traces, info>> /\ odd' = odd
          /\ mode' = mode
        BY <1>6 DEF Retranslate, server_vars
    <2> QED
        BY <2>1, QuietLoad
<1>7. CASE Reporting
    <2>1. PICK packet, ev, why : /\ Report(packet, ev, why) /\ Reported(packet, ev, why)
                                 /\ ev.op \in {"mmap", "munmap", "syscall"}
                                 /\ Panics(setup.client, ev) => "elf" \in why
        BY <1>7, Zenon DEF Reporting
    <2> QED
        BY <2>1, ReportLoad
<1>8. CASE FailedCall
    <2>1. mode' = "crash" /\ odd' = odd \cup {"failed_call"}
          /\ UNCHANGED <<setup, guest, chunk, sent, server, traces, info>>
        BY <1>8 DEF FailedCall, server_vars
    <2> QED
        BY <2>1, QuietLoad
<1>9. CASE Unblock
    <2>1. UNCHANGED <<setup, guest, chunk, sent, server, traces, info>> /\ odd' = odd
          /\ mode' = "out"
        BY <1>9 DEF Unblock, server_vars
    <2> QED
        BY <2>1, QuietLoad
<1>10. CASE Parse
    BY <1>10, ParseLoad
<1>11. CASE Trace
    BY <1>11, TraceLoad
<1>12. CASE UNCHANGED vars
    <2>1. UNCHANGED <<setup, guest, chunk, sent, server, traces, info>> /\ odd' = odd
          /\ mode' = mode
        BY <1>12 DEF vars
    <2> QED
        BY <2>1, QuietLoad
<1>13. CASE Guest
    BY <1>1, <1>4, <1>5, <1>6, <1>7, <1>8, <1>9, <1>13, GuestSteps
<1> QED
    BY <1>10, <1>11, <1>12, <1>13, Zenon DEF Next

\* The second invariant holds always.
THEOREM LoadInvariant == Spec => []LoadInv
<1>1. Init => LoadInv
    BY InitLoad
<1>2. LoadInv /\ [Next]_vars => LoadInv'
    BY NextLoad
<1> QED
    BY <1>1, <1>2, PTL DEF Spec

\* The elements of the range of a sequence.
LEMMA InRangeOf ==
    ASSUME NEW s, IsSeq(s), NEW x \in Range(s)
    PROVE  \E i \in 1 .. Len(s) : x = s[i]
<1>1. PICK S : s \in Seq(S)
    BY DEF IsSeq
<1>2. DOMAIN s = 1 .. Len(s)
    BY <1>1
<1> QED
    BY <1>2 DEF Range

\* The active chunk never exceeds a buffer, nor does a report or a chunk on its
\* way; chunks consist of bytes and histories of events; the server knows the
\* target it was told. (flush, ChunkWriter::send, parse_payload, from_cstr)
THEOREM PipelineTypeTheorem == Spec => []TypeOK
<1>1. LoadInv => TypeOK
    <2>1. SUFFICES ASSUME LoadInv PROVE TypeOK
        OBVIOUS
    <2> DEFINE n == ChunkSize[setup.lib.inst]  W == Waiting(setup.client, setup.feature, odd, n)
               R == Rejected(odd, n)
    <2>2. /\ setup \in Setups /\ info = setup.arch /\ mode \in {"out", "jit", "blocked", "crash"}
          /\ guest.steps \in Nat /\ guest.steps <= MaxSteps[setup.client]
          /\ server.failed \in Nat /\ server.poisoned \in BOOLEAN
          /\ server.failed + Len(traces) <= ServerThreads /\ IsSeq(traces)
        BY <2>1 DEF LoadInv, PipelineInv, GuestOK, Guests, ServerOK, CountsOK, BlameOK, Known
    <2>3. chunk \in Buffers(n) /\ sent \in Seq(W) /\ server.kept \in Seq(R) /\ n = ChunkSize[lib.inst]
        BY <2>1 DEF LoadInv, BuffersOK, Held, lib
    <2>4. MaxSteps[setup.client] \in Nat /\ ServerThreads \in Nat /\ Len(traces) \in Nat
        BY <2>2, SizeOfBuffers, PipelineAssumption, LenProperties DEF IsSeq
    <2>5. server.failed \in 0 .. ServerThreads /\ guest.steps \in 0 .. MaxSteps[setup.client]
        BY <2>2, <2>4
    <2> HIDE DEF n, W, R
    <2>6. ASSUME NEW c \in Range(sent) \cup Range(server.kept) PROVE c.bytes \in Buffers(n)
        <3>1. IsSeq(sent) /\ IsSeq(server.kept)
            BY <2>3 DEF IsSeq
        <3>2. c \in W \cup R
            <4>1. (\A i \in 1 .. Len(sent) : sent[i] \in W)
                  /\ (\A i \in 1 .. Len(server.kept) : server.kept[i] \in R)
                BY <2>3, ElementOfSeq
            <4> QED
                BY <2>6, <3>1, <4>1, InRangeOf
        <3>3. c \in Chunks(n)
            BY <3>2 DEF W, R, Waiting, Rejected
        <3> QED
            BY <3>3 DEF Chunks
    <2>7. ASSUME NEW b \in Buffers(n)
          PROVE  (\A i \in DOMAIN b : b[i] \in 0 .. 255) /\ Len(b) <= ChunkSize[lib.inst]
        <3>1. b \in Seq(0 .. 255) /\ Len(b) <= n
            BY DEF Buffers, Byte
        <3>2. \A i \in DOMAIN b : b[i] \in 0 .. 255
            BY <3>1, ElementOfSeq, LenProperties
        <3> QED
            BY <2>3, <3>1, <3>2
    <2>8. \A b \in {chunk} \cup {c.bytes : c \in Range(sent) \cup Range(server.kept)} :
              b \in Buffers(n)
        BY <2>3, <2>6
    <2>9. ASSUME NEW ev \in Range(executed) \cup Range(parsed) PROVE ev.op \in Kinds
        <3>1. Faith(setup.client, setup.feature, odd, server.failed, parsed, sent, chunk, executed)
            BY <2>1 DEF LoadInv, PipelineInv, FaithOK
        <3>2. /\ IsSeq(executed) /\ \A i \in 1 .. Len(executed) : executed[i].op \in Kinds
              /\ IsSeq(parsed) /\ \A i \in 1 .. Len(parsed) : parsed[i].op \in Kinds
            BY <3>1, FaithKinds DEF Harmless
        <3> QED
            BY <2>9, <3>2, InRangeOf
    <2> QED
        BY <2>2, <2>5, <2>7, <2>8, <2>9, Zenon DEF TypeOK
<1> QED
    BY <1>1, LoadInvariant, PTL

\* A thread of the server fails only at a report that was cut, a path that is not
\* Unicode or a file the coverage client cannot read, at registers or an address
\* the client has no room for, or at a placeholder; QEMU crashes only in a call
\* that failed; and a report that failed a thread, whose sender then waits for
\* ever, was cut, is not Unicode or is of such a file: for every program, target,
\* library, client and size of the buffers. (parse_payload, handle_client,
\* the examples' callbacks and trace(), $syscall)
THEOREM KnownFailuresTheorem == Spec => []KnownFailures
<1>1. LoadInv => KnownFailures
    <2>1. SUFFICES ASSUME LoadInv PROVE KnownFailures
        OBVIOUS
    <2>2. /\ server.failed > 0 => odd \cap Causes # {}
          /\ mode = "crash" => "failed_call" \in odd
        BY <2>1 DEF LoadInv, BlameOK, Known
    <2>3. ASSUME NEW b \in Range(server.kept), b.report PROVE odd \cap {"cut", "path", "elf"} # {}
        <3> DEFINE R == Rejected(odd, ChunkSize[setup.lib.inst])
        <3>1. server.kept \in Seq(R)
            BY <2>1 DEF LoadInv, BuffersOK, Held
        <3> HIDE DEF R
        <3>2. IsSeq(server.kept) /\ \A i \in 1 .. Len(server.kept) : server.kept[i] \in R
            BY <3>1, ElementOfSeq DEF IsSeq
        <3>3. b \in R
            BY <3>2, InRangeOf
        <3> QED
            BY <2>3, <3>3 DEF R, Rejected
    <2> QED
        BY <2>2, <2>3, Zenon DEF KnownFailures, Causes
<1> QED
    BY <1>1, LoadInvariant, PTL

-----------------------------------------------------------------------------
(* The registers of the last instruction. *)

\* A block, of a target whose link register holds a.
BlockOf(arch, width, a) ==
    [i \in 1 .. Abi[arch].n * width |->
        IF (i - 1) \div width = Abi[arch].ra THEN a[((i - 1) % width) + 1]
        ELSE (i - 1) \div width + 1]

Archs == {"mips", "armv5tel", "aarch64"}
WidthOf(arch) == IF arch = "aarch64" THEN 8 ELSE 4

\* The targets and their extensions agree on who holds what.
LEMMA AbiTold ==
    ASSUME NEW arch \in Archs
    PROVE  LET abi == Abi[arch]  e == Extension[arch].regs IN
           /\ e.width = WidthOf(arch) /\ abi.n \in {16, 32} /\ abi.ra \in 0 .. abi.n - 1
           /\ e.ret_addr = abi.ra /\ e.ret_val = abi.val /\ e.sp = abi.sp
           /\ abi.val \in 0 .. abi.n - 1 /\ abi.sp \in 0 .. abi.n - 1
           /\ \A i \in 1 .. 4 : e.args[i] = abi.args[i] /\ abi.args[i] \in 0 .. abi.n - 1
<1>1. CASE arch = "mips"
    <2>1. Abi["mips"] = [n |-> 32, ra |-> 31, args |-> <<4, 5, 6, 7>>, val |-> 2, sp |-> 29]
          /\ Extension["mips"].regs = mips_regs
        BY DEF Abi, Extension
    <2> QED
        BY <1>1, <2>1 DEF mips_regs, WidthOf
<1>2. CASE arch = "armv5tel"
    <2>1. Abi["armv5tel"] = [n |-> 16, ra |-> 14, args |-> <<0, 1, 2, 3>>, val |-> 0, sp |-> 13]
          /\ Extension["armv5tel"].regs = armv5tel_regs
        BY DEF Abi, Extension
    <2> QED
        BY <1>2, <2>1 DEF armv5tel_regs, WidthOf
<1>3. CASE arch = "aarch64"
    <2>1. Abi["aarch64"] = [n |-> 32, ra |-> 30, args |-> <<0, 1, 2, 3>>, val |-> 0, sp |-> 31]
          /\ Extension["aarch64"].regs = aarch64_regs
        BY DEF Abi, Extension
    <2> QED
        BY <1>3, <2>1 DEF aarch64_regs, WidthOf
<1> QED
    BY <1>1, <1>2, <1>3 DEF Archs

\* Every register is at its place in a block.
LEMMA BlockRegister ==
    ASSUME NEW arch \in Archs, NEW a \in Words, NEW r \in 0 .. Abi[arch].n - 1
    PROVE  get_reg_le(BlockOf(arch, WidthOf(arch), a), r, WidthOf(arch)) =
               IF r = Abi[arch].ra THEN Low(a, WidthOf(arch)) ELSE [i \in 1 .. WidthOf(arch) |-> r + 1]
<1> DEFINE width == WidthOf(arch)  n == Abi[arch].n  link == Abi[arch].ra
           b == BlockOf(arch, width, a)  m == n * width  reg == get_reg_le(b, r, width)
           held == IF r = link THEN Low(a, width) ELSE [i \in 1 .. width |-> r + 1]
<1>1. n \in {16, 32} /\ link \in 0 .. n - 1 /\ width \in {4, 8} /\ r \in 0 .. n - 1
    BY AbiTold DEF WidthOf
<1>2. b = [i \in 1 .. m |-> IF (i - 1) \div width = link THEN a[((i - 1) % width) + 1]
                            ELSE (i - 1) \div width + 1]
    BY DEF BlockOf
<1>3. \A j \in 1 .. 8 : a[j] \in 0 .. 255
    BY DEF Words, Bytes, Byte
<1>4. reg = SubSeq(b, r * width + 1, (r + 1) * width)
    BY DEF get_reg_le
<1>5. held = IF r = link THEN Low(a, width) ELSE [i \in 1 .. width |-> r + 1]
    OBVIOUS
<1>6. width \in Nat /\ width <= 8 /\ Low(a, width) \in Bytes(width)
      /\ \A i \in 1 .. width : Low(a, width)[i] = a[i]
    <2>1. width \in Nat /\ width <= 8 /\ 8 \in Nat /\ a \in Bytes(8)
        BY <1>1 DEF Words
    <2> HIDE DEF width
    <2>2. \A i \in 1 .. width : i <= 8
        BY <2>1
    <2> QED
        BY <2>1, <2>2, LowBytes
<1> HIDE DEF width, n, link, b, reg, held
<1> DEFINE low == r * width  high == (r + 1) * width
<1>7. m \in Nat /\ low \in Nat /\ high \in Nat /\ high = low + width /\ high <= m
    BY <1>1
<1>8. b \in Seq(Byte) /\ Len(b) = m
    <2>1. \A i \in 1 .. m : ((i - 1) % width) + 1 \in 1 .. 8 /\ (i - 1) \div width + 1 \in 0 .. 255
        BY <1>1
    <2> HIDE DEF m
    <2>2. ASSUME NEW i \in 1 .. m PROVE b[i] \in 0 .. 255
        <3> DEFINE j == ((i - 1) % width) + 1  k == (i - 1) \div width + 1
        <3>1. j \in 1 .. 8 /\ k \in 0 .. 255
            BY <2>1
        <3>2. b[i] = IF (i - 1) \div width = link THEN a[j] ELSE k
            BY <1>2
        <3> HIDE DEF j, k
        <3>3. a[j] \in 0 .. 255
            BY <1>3, <3>1
        <3> QED
            BY <3>1, <3>2, <3>3
    <2>3. b \in Bytes(m)
        BY <1>2, <2>2 DEF Bytes, Byte
    <2> QED
        BY <1>7, <2>3, BytesType
<1>9. \A i \in 1 .. width : low + i \in 1 .. m /\ ((low + i) - 1) \div width = r
          /\ (((low + i) - 1) % width) + 1 = i
    BY <1>1
<1>10. ASSUME NEW i \in 1 .. width PROVE b[low + i] = held[i]
    <2>1. b[low + i] = IF r = link THEN a[i] ELSE r + 1
        <3> DEFINE k == low + i
        <3>1. k \in 1 .. m /\ (k - 1) \div width = r /\ ((k - 1) % width) + 1 = i
            BY <1>9
        <3> HIDE DEF k, m, low, high
        <3>2. b[k] = IF (k - 1) \div width = link THEN a[((k - 1) % width) + 1]
                     ELSE (k - 1) \div width + 1
            BY <1>2, <3>1
        <3> QED
            BY <3>1, <3>2 DEF k
    <2> QED
        BY <1>5, <1>6, <2>1
<1> HIDE DEF low, high, m
<1>11. reg \in Seq(Byte) /\ Len(reg) = width /\ \A i \in 1 .. width : reg[i] = b[low + i]
    <2>1. reg = SubSeq(b, low + 1, low + width)
        BY <1>4, <1>7 DEF low, high
    <2> QED
        BY <1>6, <1>7, <1>8, <2>1
<1>12. held \in Seq(Byte) /\ Len(held) = width
    <2>1. CASE r = link
        BY <1>5, <1>6, <2>1, BytesType
    <2>2. CASE r # link
        <3>1. r + 1 \in 0 .. 255
            BY <1>1
        <3> QED
            BY <1>5, <1>6, <2>2, <3>1 DEF Byte
    <2> QED
        BY <2>1, <2>2
<1>13. reg = held
    BY <1>10, <1>11, <1>12, SeqEqual
<1> QED
    BY <1>13 DEF reg, held, b, width, link

\* RegState finds what a block of its own target holds.
LEMMA RegStateTold ==
    ASSUME setup \in Setups, setup.feature = setup.arch, NEW a \in Words
    PROVE  RegState(setup.feature, BlockOf(setup.arch, w, a)) =
               [args |-> [i \in 1 .. 4 |-> Register(Abi[setup.arch].args[i], a)],
                ret_addr |-> Register(Abi[setup.arch].ra, a),
                ret_val |-> Register(Abi[setup.arch].val, a), sp |-> Register(Abi[setup.arch].sp, a)]
<1> DEFINE arch == setup.arch  b == BlockOf(arch, w, a)  e == Extension[arch].regs  abi == Abi[arch]
<1>1. arch \in Archs /\ w = WidthOf(arch)
    BY SetupsAssumption DEF Archs, Abi, WidthOf, w
<1>2. /\ e.width = w /\ e.ret_addr = abi.ra /\ e.ret_val = abi.val /\ e.sp = abi.sp
      /\ abi.ra \in 0 .. abi.n - 1 /\ abi.val \in 0 .. abi.n - 1 /\ abi.sp \in 0 .. abi.n - 1
      /\ \A i \in 1 .. 4 : e.args[i] = abi.args[i] /\ abi.args[i] \in 0 .. abi.n - 1
    BY <1>1, AbiTold
<1>3. ASSUME NEW r \in 0 .. abi.n - 1 PROVE get_reg_le(b, r, e.width) = Register(r, a)
    <2>1. get_reg_le(b, r, w) = IF r = abi.ra THEN Low(a, w) ELSE [i \in 1 .. w |-> r + 1]
        BY <1>1, BlockRegister
    <2> QED
        BY <1>2, <2>1 DEF Register
<1>4. RegState(arch, b) =
          [args |-> [i \in 1 .. 4 |-> get_reg_le(b, e.args[i], e.width)],
           ret_addr |-> get_reg_le(b, e.ret_addr, e.width),
           ret_val |-> get_reg_le(b, e.ret_val, e.width), sp |-> get_reg_le(b, e.sp, e.width)]
    BY DEF RegState
<1> HIDE DEF e, abi, b
<1>5. \A i \in 1 .. 4 : get_reg_le(b, e.args[i], e.width) = Register(abi.args[i], a)
    BY <1>2, <1>3
<1>6. [i \in 1 .. 4 |-> get_reg_le(b, e.args[i], e.width)] = [i \in 1 .. 4 |-> Register(abi.args[i], a)]
    BY <1>5
<1>7. /\ get_reg_le(b, e.ret_addr, e.width) = Register(abi.ra, a)
      /\ get_reg_le(b, e.ret_val, e.width) = Register(abi.val, a)
      /\ get_reg_le(b, e.sp, e.width) = Register(abi.sp, a)
    BY <1>2, <1>3
<1>8. RegState(arch, b) =
          [args |-> [i \in 1 .. 4 |-> Register(abi.args[i], a)], ret_addr |-> Register(abi.ra, a),
           ret_val |-> Register(abi.val, a), sp |-> Register(abi.sp, a)]
    BY <1>4, <1>6, <1>7
<1> QED
    BY <1>8 DEF abi, b, e

\* Only the hooks that pass registers tell registers: those of the block b.
RegsSeen(inst, b, d) ==
    /\ IsSeq(d)
    /\ \A i \in 1 .. Len(d) :
          d[i].op \in {"regs", "branch"} => inst \in {"Register", "Branch"} /\ d[i].regs = b

\* The events of an instruction tell its registers.
LEMMA EventsRegs ==
    ASSUME setup \in Setups, NEW bb_end, NEW a
    PROVE  /\ RegsSeen(lib.inst, Block, EventsOf(bb_end, a))
           /\ lib.inst \in {"Register", "Branch"} => Len(EventsOf(bb_end, a)) >= 1
<1> DEFINE A == InstEvents(bb_end)  B == IF a = <<>> THEN <<>> ELSE MemEvents(a[1])
           inst == lib.inst  b == Block  none == <<>>
           Fair(ev) == ev.op \in {"regs", "branch"} => inst \in {"Register", "Branch"} /\ ev.regs = b
<1>1. inst \in {"Always", "Once", "Register", "Branch"}
    BY TargetOK DEF Target
<1>2. RegsSeen(inst, b, none)
    <2>1. IsSeq(none) /\ Len(none) = 0
        BY DEF IsSeq
    <2> HIDE DEF none
    <2> QED
        BY <2>1 DEF RegsSeen
<1>3. ASSUME NEW x, Fair(x) PROVE RegsSeen(inst, b, <<x>>) /\ Len(<<x>>) = 1
    <2> DEFINE s == <<x>>
    <2>1. IsSeq(s) /\ Len(s) = 1 /\ s[1] = x
        BY OneElement
    <2> HIDE DEF s
    <2>2. RegsSeen(inst, b, s) /\ Len(s) = 1
        BY <1>3, <2>1 DEF RegsSeen
    <2> QED
        BY <2>2 DEF s
<1>4. ASSUME NEW x, NEW y, Fair(x), Fair(y) PROVE RegsSeen(inst, b, <<x, y>>)
    <2> DEFINE s == <<x, y>>
    <2>1. s \in Seq({x, y}) /\ Len(s) = 2 /\ s[1] = x /\ s[2] = y
        OBVIOUS
    <2> HIDE DEF s
    <2>2. IsSeq(s)
        BY <2>1 DEF IsSeq
    <2>3. RegsSeen(inst, b, s)
        BY <1>4, <2>1, <2>2 DEF RegsSeen
    <2> QED
        BY <2>3 DEF s
<1>5. RegsSeen(inst, b, A) /\ (inst \in {"Register", "Branch"} => Len(A) >= 1)
    <2> DEFINE x == InstEvent(bb_end)
    <2>1. Fair(x)
        BY <1>1 DEF InstEvent
    <2>2. CASE Armed
        <3>1. A = <<x>>
            BY <2>2 DEF InstEvents
        <3> HIDE DEF A, x, Fair, inst, b
        <3> QED
            BY <1>3, <2>1, <3>1
    <2>3. CASE ~Armed
        <3>1. A = none /\ inst = "Once"
            BY <2>3 DEF InstEvents, Armed
        <3> HIDE DEF A, x, Fair, inst, b, none
        <3> QED
            BY <1>2, <3>1
    <2> QED
        BY <2>2, <2>3
<1>6. RegsSeen(inst, b, B)
    <2> DEFINE m == a[1]  x == HalfEvent(m, m.at, Value(m, m.data), 8)
               y == HalfEvent(m, m.at + 8, Value(m, m.hi), 8)
               z == HalfEvent(m, m.at, Value(m, m.data), m.size)
    <2>1. B \in {none, <<x, y>>, <<z>>}
        BY DEF MemEvents
    <2>2. x.op \in {"read", "write"} /\ y.op \in {"read", "write"} /\ z.op \in {"read", "write"}
        BY DEF HalfEvent
    <2>3. Fair(x) /\ Fair(y) /\ Fair(z)
        BY <2>2
    <2> HIDE DEF x, y, z, B, Fair, inst, b, none
    <2> QED
        BY <1>2, <1>3, <1>4, <2>1, <2>3
<1> HIDE DEF A, B, inst, b
<1>7. EventsOf(bb_end, a) = Cat(A, B)
    BY DEF EventsOf, A, B
<1> DEFINE d == Cat(A, B)  k == Len(A)  n == Len(B)
<1>8. /\ IsSeq(d) /\ k \in Nat /\ n \in Nat /\ Len(d) = k + n
      /\ \A i \in 1 .. k + n : d[i] = IF i <= k THEN A[i] ELSE B[i - k]
    BY <1>5, <1>6, CatAt DEF RegsSeen
<1> HIDE DEF d
<1>9. ASSUME NEW i \in 1 .. k + n PROVE Fair(d[i])
    <2>1. CASE i <= k
        <3>1. i \in 1 .. k /\ d[i] = A[i]
            BY <1>8, <2>1
        <3> QED
            BY <1>5, <3>1 DEF RegsSeen
    <2>2. CASE ~(i <= k)
        <3>1. PICK j \in 1 .. n : j = i - k
            BY <1>8, <2>2
        <3>2. d[i] = B[j]
            BY <1>8, <2>2, <3>1
        <3> QED
            BY <1>6, <3>2 DEF RegsSeen
    <2> QED
        BY <2>1, <2>2
<1>10. RegsSeen(inst, b, d)
    BY <1>8, <1>9 DEF RegsSeen
<1>11. inst \in {"Register", "Branch"} => Len(d) >= 1
    BY <1>5, <1>8
<1> QED
    BY <1>7, <1>10, <1>11 DEF inst, b, d

\* The last event, if it has registers, has those of the instruction that ran last.
Recorded(inst, b, e) ==
    /\ IsSeq(e)
    /\ \A i \in 1 .. Len(e) : e[i].op \in {"regs", "branch"} => inst \in {"Register", "Branch"}
    /\ Len(e) > 0 /\ e[Len(e)].op \in {"regs", "branch"} => e[Len(e)].regs = b
RanBlock == BlockOf(setup.arch, setup.width, Low(Word(guest.ran.ra, 3) \o setup.high, 8))
RegsOK == Recorded(setup.lib.inst, RanBlock, executed)

RegsInv == PipelineInv /\ RegsOK

\* Events that tell the registers of what runs.
LEMMA RecordedMore ==
    ASSUME NEW inst, NEW b, NEW e, Recorded(inst, b, e), NEW c, NEW d, RegsSeen(inst, c, d),
           inst \in {"Register", "Branch"} => Len(d) >= 1
    PROVE  Recorded(inst, c, Cat(e, d))
<1> DEFINE z == Cat(e, d)  m == Len(e)  n == Len(d)
<1>1. IsSeq(e) /\ IsSeq(d)
    BY DEF Recorded, RegsSeen
<1>2. /\ IsSeq(z) /\ m \in Nat /\ n \in Nat /\ Len(z) = m + n
      /\ \A i \in 1 .. m + n : z[i] = IF i <= m THEN e[i] ELSE d[i - m]
    BY <1>1, CatAt
<1> HIDE DEF z
<1>3. ASSUME NEW i \in 1 .. m + n, z[i].op \in {"regs", "branch"}
      PROVE  inst \in {"Register", "Branch"}
    <2>1. CASE i <= m
        <3>1. i \in 1 .. m /\ z[i] = e[i]
            BY <1>2, <2>1
        <3> QED
            BY <1>3, <3>1 DEF Recorded
    <2>2. CASE ~(i <= m)
        <3>1. PICK j \in 1 .. n : j = i - m
            BY <1>2, <2>2
        <3>2. z[i] = d[j]
            BY <1>2, <2>2, <3>1
        <3> QED
            BY <1>3, <3>2 DEF RegsSeen
    <2> QED
        BY <2>1, <2>2
<1>4. ASSUME m + n > 0, z[m + n].op \in {"regs", "branch"}
      PROVE  z[m + n].regs = c
    <2>1. m + n \in 1 .. m + n
        BY <1>2, <1>4
    <2>2. n >= 1
        BY <1>3, <1>4, <2>1
    <2>3. z[m + n] = d[n] /\ n \in 1 .. n
        <3>1. ~(m + n <= m) /\ (m + n) - m = n /\ n \in 1 .. n
            BY <1>2, <2>2
        <3> QED
            BY <1>2, <2>1, <3>1
    <2> QED
        BY <1>4, <2>3 DEF RegsSeen
<1> HIDE DEF m, n
<1>5. Recorded(inst, c, z)
    BY <1>2, <1>3, <1>4 DEF Recorded
<1> QED
    BY <1>5 DEF z

\* An instruction leaves behind whose registers it told.
LEMMA ExecuteRan ==
    ASSUME NEW bb_end, NEW a, NEW next \in Guests, NEW why, Execute(bb_end, a, next, why)
    PROVE  guest'.ran.ra = guest.ra
<1>1. guest' = [next EXCEPT !.steps = @ + 1, !.ran = [frames |-> guest.frames, ra |-> guest.ra]]
    BY DEF Execute
<1> DEFINE F == Seq(Frame)  Rans == [frames : F, ra : Nat]  n == next.steps + 1
           run == [frames |-> guest.frames, ra |-> guest.ra]
           g == [next EXCEPT !.steps = n, !.ran = run]
<1>2. next \in [pc : Nat, ra : Nat, frames : F, steps : Nat, ran : Rans] /\ guest' = g
    BY <1>1 DEF Guests
<1>3. run.ra = guest.ra
    OBVIOUS
<1> HIDE DEF F, Rans, n, run
<1>4. g.ran = run
    BY <1>2
<1> HIDE DEF g
<1> QED
    BY <1>2, <1>3, <1>4

\* Steps that add nothing.
LEMMA RegsKept ==
    ASSUME RegsOK, setup' = setup, guest'.ran = guest.ran, executed' = executed
    PROVE  RegsOK'
BY DEF RegsOK, RanBlock

\* Every step keeps what is known of the registers.
LEMMA NextRegs ==
    ASSUME RegsInv, [Next]_vars
    PROVE  RegsInv'
<1>1. PipelineInv /\ GuestOK /\ RegsOK /\ setup \in Setups /\ guest \in Guests
    BY DEF RegsInv, PipelineInv, GuestOK
<1>2. PipelineInv'
    BY <1>1, NextInv
<1>3. SUFFICES RegsOK'
    BY <1>2 DEF RegsInv
<1>4. Recorded(setup.lib.inst, RanBlock, executed)
    BY <1>1 DEF RegsOK
<1>5. CASE Running
    <2>1. PICK bb_end \in BOOLEAN, next \in Guests : \E a, why :
              /\ Execute(bb_end, a, next, why) /\ Calls(next.frames) /\ next.steps = guest.steps
              /\ a # <<>> => Work(a[1])
        BY <1>5, Zenon DEF Running
    <2>2. PICK a, why : Execute(bb_end, a, next, why)
        BY <2>1
    <2> DEFINE d == EventsOf(bb_end, a)  inst == setup.lib.inst  b == RanBlock  c == Block
    <2>3. IsSeq(executed)
        BY <1>4 DEF Recorded
    <2>4. executed' = Cat(executed, d)
        BY <2>2, <2>3, ExecutedMore
    <2>5. guest'.ran.ra = guest.ra /\ setup' = setup
        BY <2>2, ExecuteRan DEF Execute
    <2>6. RegsSeen(inst, c, d) /\ (inst \in {"Register", "Branch"} => Len(d) >= 1)
        BY <1>1, EventsRegs DEF lib
    <2>7. RanBlock' = c
        BY <2>5 DEF RanBlock, Block, BlockOf, Address, w
    <2> HIDE DEF d, inst, b, c
    <2>8. Recorded(inst, c, Cat(executed, d))
        BY <1>4, <2>6, RecordedMore DEF inst
    <2> QED
        BY <2>4, <2>5, <2>7, <2>8 DEF RegsOK, inst
<1>6. CASE Reporting
    <2>1. PICK packet, ev, why : /\ Report(packet, ev, why)
                                 /\ ev.op \in {"mmap", "munmap", "syscall"}
        BY <1>6, Zenon DEF Reporting
    <2>2. /\ setup' = setup /\ guest' = [guest EXCEPT !.steps = @ + 1]
          /\ executed' = Append(executed, ev)
        BY <2>1 DEF Report
    <2>3. guest'.ran = guest.ran
        BY <1>1, <2>2 DEF Guests
    <2> DEFINE z == Append(executed, ev)  inst == setup.lib.inst  b == RanBlock  m == Len(executed)
    <2>4. /\ IsSeq(executed) /\ IsSeq(z) /\ m \in Nat /\ Len(z) = m + 1
          /\ (\A i \in 1 .. m : z[i] = executed[i]) /\ z[m + 1] = ev
        BY <1>4, AppendKnown DEF Recorded
    <2> HIDE DEF z, b, inst
    <2>5. ASSUME NEW i \in 1 .. m + 1, z[i].op \in {"regs", "branch"}
          PROVE  inst \in {"Register", "Branch"}
        <3>1. i # m + 1
            BY <2>1, <2>4, <2>5
        <3>2. i \in 1 .. m /\ z[i] = executed[i]
            BY <2>4, <3>1
        <3> QED
            BY <1>4, <2>5, <3>2 DEF Recorded, inst
    <2>6. z[m + 1].op \notin {"regs", "branch"}
        BY <2>1, <2>4
    <2> HIDE DEF m
    <2>7. Recorded(inst, b, z)
        BY <2>4, <2>5, <2>6 DEF Recorded
    <2> QED
        BY <2>2, <2>3, <2>7 DEF RegsOK, RanBlock, inst, b, z
<1>7. CASE JitExit
    BY <1>1, <1>7, RegsKept DEF JitExit
<1>8. CASE Retranslate
    BY <1>1, <1>8, RegsKept DEF Retranslate
<1>9. CASE FailedCall
    BY <1>1, <1>9, RegsKept DEF FailedCall
<1>10. CASE Unblock
    BY <1>1, <1>10, RegsKept DEF Unblock
<1>11. CASE Parse
    BY <1>1, <1>11, RegsKept DEF Parse
<1>12. CASE Trace
    BY <1>1, <1>12, RegsKept DEF Trace
<1>13. CASE UNCHANGED vars
    BY <1>1, <1>13, RegsKept DEF vars
<1>14. CASE Guest
    BY <1>1, <1>5, <1>6, <1>7, <1>8, <1>9, <1>10, <1>14, GuestSteps
<1> QED
    BY <1>11, <1>12, <1>13, <1>14, Zenon DEF Next

\* When nothing is on its way the client got all events, of their kinds and with
\* their registers.
LEMMA IdleAll ==
    ASSUME PipelineInv, chunk = <<>>, sent = <<>>, server.failed = 0
    PROVE  /\ IsSeq(parsed) /\ IsSeq(executed) /\ Len(parsed) = Len(executed)
           /\ Len(executed) \in Nat
           /\ \A i \in 1 .. Len(executed) :
                 /\ parsed[i].op = executed[i].op
                 /\ parsed[i].op \in {"regs", "branch"} => parsed[i].regs = executed[i].regs
<1> DEFINE feature == setup.feature  program == setup.client  none == <<>>
<1>1. Faith(program, feature, odd, server.failed, parsed, sent, chunk, executed)
    BY DEF PipelineInv, FaithOK
<1>2. PICK t : Alike(program, odd, t, executed) /\ Told(feature, odd, parsed, sent, chunk, t)
    BY <1>1 DEF Faith
<1>3. Told(feature, odd, parsed, none, none, t)
    BY <1>2
<1>4. parsed = t
    BY <1>3, ToldAll
<1>5. Alike(program, odd, parsed, executed)
    BY <1>2, <1>4
<1> HIDE DEF program
<1>6. Len(executed) \in Nat
    BY <1>5, LenProperties DEF Alike, IsSeq
<1> QED
    BY <1>5, <1>6 DEF Alike, SameEvent

\* RegState finds what the guest's registers held when the last instruction ran,
\* for every program and target, whatever the chunks the block came in: even at
\* an address that contains a placeholder. (lift_instruction, parse_payload,
\* RegState::new, get_mips_reg_le, get_arm_reg_le, get_aarch64_reg_le)
THEOREM RegistersFaithfulTheorem == Spec => []RegistersFaithful
<1>1. Init => RegsInv
    <2>1. SUFFICES ASSUME Init PROVE RegsInv
        OBVIOUS
    <2> DEFINE none == <<>>
    <2>2. executed = none /\ IsSeq(none) /\ Len(none) = 0
        BY <2>1 DEF Init, IsSeq
    <2> HIDE DEF none
    <2>3. RegsOK
        BY <2>2 DEF RegsOK, Recorded
    <2> QED
        BY <2>1, <2>3, InitInv DEF RegsInv
<1>2. RegsInv /\ [Next]_vars => RegsInv'
    BY NextRegs
<1>3. RegsInv => RegistersFaithful
    <2> DEFINE n == Len(executed)  a == Address(guest.ran.ra)
    <2>1. SUFFICES ASSUME RegsInv, Idle, parsed # <<>>, setup.feature = setup.arch,
                          Last(parsed).op \in {"regs", "branch"}
                   PROVE  RegState(setup.feature, Last(parsed).regs) =
                              [args |-> [i \in 1 .. 4 |-> Register(Abi[setup.arch].args[i], a)],
                               ret_addr |-> Register(Abi[setup.arch].ra, a),
                               ret_val |-> Register(Abi[setup.arch].val, a),
                               sp |-> Register(Abi[setup.arch].sp, a)]
        BY DEF RegistersFaithful
    <2>2. PipelineInv /\ setup \in Setups /\ guest \in Guests
        BY <2>1 DEF RegsInv, PipelineInv, GuestOK
    <2>3. /\ IsSeq(parsed) /\ Len(parsed) = n /\ n \in Nat
          /\ \A i \in 1 .. n :
                /\ parsed[i].op = executed[i].op
                /\ parsed[i].op \in {"regs", "branch"} => parsed[i].regs = executed[i].regs
        BY <2>1, <2>2, IdleAll DEF Idle
    <2>4. n > 0 /\ n \in 1 .. n /\ Last(parsed) = parsed[n]
        <3>1. n # 0
            BY <2>1, <2>3, EmptySeq DEF IsSeq
        <3> QED
            BY <2>3, <3>1 DEF Last
    <2>5. Recorded(setup.lib.inst, RanBlock, executed)
        BY <2>1 DEF RegsInv, RegsOK
    <2>6. Last(parsed).regs = RanBlock
        BY <2>1, <2>3, <2>4, <2>5 DEF Recorded
    <2>7. RanBlock = BlockOf(setup.arch, w, a)
        BY DEF RanBlock, Address, w
    <2>8. a \in Words
        <3>1. guest.ran.ra \in Nat
            BY <2>2 DEF Guests
        <3> QED
            BY <2>2, <3>1, TargetOK, AddressType
    <2> HIDE DEF a
    <2> QED
        BY <2>1, <2>2, <2>6, <2>7, <2>8, RegStateTold
<1> QED
    BY <1>1, <1>2, <1>3, PTL DEF Spec

\* What the callbacks get is what the guest did, in the order it did it, and
\* all of it once nothing is on its way: for every program, target, library,
\* client, size of the buffers and number of threads. (lift_instruction,
\* lift_memop, flush, send, parse_payload)
THEOREM EventsFaithfulTheorem == Spec => []EventsFaithful
<1>1. PipelineInv => EventsFaithful
    <2>1. SUFFICES ASSUME PipelineInv, "placeholder" \notin odd, "load128" \notin odd
                   PROVE  IsPrefix(parsed, executed) /\ (Idle => parsed = executed)
        BY DEF EventsFaithful
    <2>2. Faith(setup.client, setup.feature, odd, server.failed, parsed, sent, chunk, executed)
        BY <2>1 DEF PipelineInv, FaithOK
    <2>3. /\ IsPrefix(parsed, executed)
          /\ server.failed = 0 /\ sent = <<>> /\ chunk = <<>> => parsed = executed
        BY <2>1, <2>2, FaithShows
    <2> QED
        BY <2>3 DEF Idle
<1> QED
    BY <1>1, PipelineInvariant, PTL

-----------------------------------------------------------------------------
(* What the clients make of the events, whatever the chunks they came in.     *)

\* The states u of a client at the first entries of a trace.
Tracing(program, st, t, count, u) ==
    u[0] = st /\ \A k \in 1 .. count : u[k] = TraceEntry(program, u[k - 1], t[k])

\* trace() consumes one entry after the other.
LEMMA TracedSteps ==
    ASSUME NEW program, NEW st, NEW t, NEW count \in Nat, count = Len(t)
    PROVE  \E u : Tracing(program, st, t, count, u) /\ Traced(program, st, t) = u[count]
<1> DEFINE Is(u, n) == u = [k \in 0 .. n |-> IF k = 0 THEN st ELSE TraceEntry(program, u[k - 1], t[k])]
           S == {n \in Nat : \E u : Is(u, n)}
<1>1. 0 \in S
    <2> DEFINE u == [k \in 0 .. 0 |-> st]
    <2>1. Is(u, 0)
        OBVIOUS
    <2> QED
        BY <2>1
<1>2. ASSUME NEW n \in Nat, n \in S PROVE n + 1 \in S
    <2>1. PICK u : Is(u, n)
        BY <1>2
    <2> DEFINE v == [k \in 0 .. n + 1 |-> IF k = 0 THEN st ELSE TraceEntry(program, u[k - 1], t[k])]
    <2>2. \A k \in 0 .. n : v[k] = u[k]
        BY <2>1
    <2>3. \A k \in 1 .. n + 1 : k - 1 \in 0 .. n
        OBVIOUS
    <2>4. ASSUME NEW k \in 0 .. n + 1
          PROVE  (IF k = 0 THEN st ELSE TraceEntry(program, u[k - 1], t[k]))
                     = IF k = 0 THEN st ELSE TraceEntry(program, v[k - 1], t[k])
        <3>1. CASE k = 0
            BY <3>1
        <3>2. CASE k # 0
            <4>1. v[k - 1] = u[k - 1]
                <5> HIDE DEF v, Is
                <5>1. k - 1 \in 0 .. n
                    BY <3>2
                <5> QED
                    BY <2>2, <5>1
            <4> QED
                BY <4>1
        <3> QED
            BY <3>1, <3>2
    <2>5. Is(v, n + 1)
        BY <2>4, Zenon
    <2>6. n + 1 \in Nat
        OBVIOUS
    <2> HIDE DEF v, Is
    <2> QED
        BY <2>5, <2>6
<1>3. count \in S
    <2> HIDE DEF S
    <2>1. \A n \in Nat : n \in S => n + 1 \in S
        BY <1>2
    <2> QED
        BY <1>1, <2>1, SetInduction
<1>4. PICK x : Is(x, count)
    BY <1>3
<1> DEFINE u == CHOOSE u : u = [k \in 0 .. Len(t) |->
                                  IF k = 0 THEN st ELSE TraceEntry(program, u[k - 1], t[k])]
<1>5. u = [k \in 0 .. Len(t) |-> IF k = 0 THEN st ELSE TraceEntry(program, u[k - 1], t[k])]
    BY <1>4
<1>6. Traced(program, st, t) = u[Len(t)]
    BY Zenon DEF Traced
<1> HIDE DEF u
<1>7. Tracing(program, st, t, count, u)
    BY <1>5 DEF Tracing
<1> QED
    BY <1>6, <1>7

\* The states are determined by the trace.
LEMMA TracedIs ==
    ASSUME NEW program, NEW st, NEW t, NEW count \in Nat, count = Len(t),
           NEW v, Tracing(program, st, t, count, v)
    PROVE  Traced(program, st, t) = v[count]
<1>1. PICK u : Tracing(program, st, t, count, u) /\ Traced(program, st, t) = u[count]
    BY TracedSteps
<1>2. /\ u[0] = st /\ \A k \in 1 .. count : u[k] = TraceEntry(program, u[k - 1], t[k])
      /\ v[0] = st /\ \A k \in 1 .. count : v[k] = TraceEntry(program, v[k - 1], t[k])
    BY <1>1 DEF Tracing
<1> DEFINE S == {k \in Nat : k <= count => u[k] = v[k]}
<1>3. 0 \in S
    BY <1>2
<1>4. ASSUME NEW k \in Nat, k \in S PROVE k + 1 \in S
    <2>1. SUFFICES ASSUME k + 1 <= count PROVE u[k + 1] = v[k + 1]
        OBVIOUS
    <2>2. k + 1 \in 1 .. count /\ (k + 1) - 1 = k /\ u[k] = v[k]
        BY <1>4, <2>1
    <2> QED
        BY <1>2, <2>2
<1>5. count \in S
    <2> HIDE DEF S
    <2>1. \A k \in Nat : k \in S => k + 1 \in S
        BY <1>4
    <2> QED
        BY <1>3, <2>1, SetInduction
<1> QED
    BY <1>1, <1>5

\* Nothing is consumed of an empty trace, one entry of a trace of one.
LEMMA TracedSmall ==
    ASSUME NEW program, NEW st
    PROVE  Traced(program, st, <<>>) = st
           /\ \A e : Traced(program, st, <<e>>) = TraceEntry(program, st, e)
<1> DEFINE none == <<>>
<1>1. Traced(program, st, none) = st
    <2>1. Len(none) = 0
        OBVIOUS
    <2> HIDE DEF none
    <2>2. PICK u : Tracing(program, st, none, 0, u) /\ Traced(program, st, none) = u[0]
        BY <2>1, TracedSteps
    <2> QED
        BY <2>2 DEF Tracing
<1>2. ASSUME NEW e PROVE Traced(program, st, <<e>>) = TraceEntry(program, st, e)
    <2>0. Len(<<e>>) = 1 /\ <<e>>[1] = e
        OBVIOUS
    <2>1. PICK one : one = <<e>> /\ Len(one) = 1 /\ one[1] = e
        BY <2>0, Zenon
    <2>2. PICK n \in Nat : n = 1 /\ n = Len(one)
        BY <2>1
    <2>3. n \in 1 .. n /\ n - 1 = 0
        BY <2>2
    <2>4. PICK u : Tracing(program, st, one, n, u) /\ Traced(program, st, one) = u[n]
        BY <2>2, TracedSteps
    <2>5. u[n] = TraceEntry(program, u[n - 1], one[n]) /\ u[0] = st
        BY <2>3, <2>4 DEF Tracing
    <2>6. one[n] = e
        BY <2>1, <2>2
    <2> QED
        BY <2>1, <2>3, <2>4, <2>5, <2>6
<1> QED
    BY <1>1, <1>2

\* Two traces, one behind the other.
LEMMA TracedCat ==
    ASSUME NEW program, NEW st, NEW s, NEW t, IsSeq(s), IsSeq(t)
    PROVE  Traced(program, st, Cat(s, t)) = Traced(program, Traced(program, st, s), t)
<1> DEFINE z == Cat(s, t)
<1>0. Len(s) \in Nat /\ Len(t) \in Nat
    BY CatAt
<1>1. PICK m \in Nat, n \in Nat : m = Len(s) /\ n = Len(t)
    BY <1>0, Zenon
<1>2. Len(z) = m + n /\ \A i \in 1 .. m + n : z[i] = IF i <= m THEN s[i] ELSE t[i - m]
    BY <1>1, CatAt
<1> HIDE DEF z
<1>3. PICK u : Tracing(program, st, s, m, u) /\ Traced(program, st, s) = u[m]
    BY <1>1, TracedSteps
<1>4. PICK v : Tracing(program, u[m], t, n, v) /\ Traced(program, u[m], t) = v[n]
    BY <1>1, TracedSteps
<1> DEFINE x == [k \in 0 .. m + n |-> IF k <= m THEN u[k] ELSE v[k - m]]
<1>5. /\ u[0] = st /\ \A k \in 1 .. m : u[k] = TraceEntry(program, u[k - 1], s[k])
      /\ v[0] = u[m] /\ \A k \in 1 .. n : v[k] = TraceEntry(program, v[k - 1], t[k])
    BY <1>3, <1>4 DEF Tracing
<1>6. x[0] = st /\ x[m + n] = v[n]
    BY <1>5
<1>7. \A k \in 0 .. m + n : x[k] = IF k <= m THEN u[k] ELSE v[k - m]
    OBVIOUS
<1> HIDE DEF x
<1>8. ASSUME NEW k \in 1 .. m + n PROVE x[k] = TraceEntry(program, x[k - 1], z[k])
    <2>1. CASE k <= m
        <3>1. k \in 1 .. m /\ k - 1 \in 0 .. m + n /\ k - 1 <= m
            BY <2>1
        <3>2. x[k] = u[k] /\ x[k - 1] = u[k - 1] /\ z[k] = s[k]
            BY <1>2, <1>7, <2>1, <3>1
        <3> QED
            BY <1>5, <3>1, <3>2
    <2>2. CASE ~(k <= m)
        <3>1. PICK j \in 1 .. n : j = k - m
            BY <2>2
        <3>2. x[k] = v[j] /\ z[k] = t[j]
            BY <1>2, <1>7, <2>2, <3>1
        <3>3. x[k - 1] = v[j - 1]
            <4>1. k - 1 \in 0 .. m + n
                OBVIOUS
            <4>2. CASE j = 1
                <5>1. k - 1 = m /\ j - 1 = 0
                    BY <3>1, <4>2
                <5>2. x[k - 1] = u[m]
                    BY <1>7, <4>1, <5>1
                <5> QED
                    BY <1>5, <5>1, <5>2
            <4>3. CASE j # 1
                <5>1. ~(k - 1 <= m) /\ (k - 1) - m = j - 1
                    BY <3>1, <4>3
                <5> QED
                    BY <1>7, <4>1, <5>1
            <4> QED
                BY <4>2, <4>3
        <3> QED
            BY <1>5, <3>1, <3>2, <3>3
    <2> QED
        BY <2>1, <2>2
<1>9. Tracing(program, st, z, m + n, x)
    BY <1>6, <1>8 DEF Tracing
<1>10. Traced(program, st, z) = x[m + n]
    <2>1. PICK c \in Nat : c = m + n
        OBVIOUS
    <2> QED
        BY <1>2, <1>9, <2>1, TracedIs
<1> QED
    BY <1>3, <1>4, <1>6, <1>10 DEF z

\* What a callback pushes is a trace.
LEMMA CallbackSeq ==
    ASSUME NEW program \in Programs, NEW ev
    PROVE  IsSeq(Callback(program, ev))
<1> DEFINE e == Callback(program, ev)
<1>1. IsSeq(<<>>)
    BY DEF IsSeq
<1>2. CASE program = "symbolizer"
    <2>1. e = symbolizer_event(ev)
        BY <1>2 DEF Callback
    <2>2. \/ e = <<>>
          \/ e = <<[op |-> "exec", pc |-> resolve(Num(ev.pc))]>>
          \/ e = <<[op |-> ev.op, pc |-> resolve(Num(ev.pc)), addr |-> resolve(Num(ev.addr)),
                    val |-> ev.val, size |-> ev.size]>>
        BY <2>1 DEF symbolizer_event
    <2> QED
        BY <1>1, <2>2, OneElement, Zenon
<1>3. CASE program = "coverage"
    <2>1. e = coverage_event(ev)
        BY <1>3 DEF Callback
    <2>2. \/ e = <<>>
          \/ e = <<[op |-> "exec", pc |-> Num(ev.pc)]>>
          \/ e = <<AddSymbols(ev)>>
          \/ e = <<[op |-> "remove", base |-> Num(ev.addr), len |-> Num(ev.len)]>>
        BY <2>1 DEF coverage_event
    <2> QED
        BY <1>1, <2>2, OneElement, Zenon
<1>4. CASE program = "backtrace"
    <2>1. e = backtrace_event(ev)
        BY <1>4 DEF Callback
    <2>2. \/ e = <<>>
          \/ e = <<[op |-> "branch", branch |-> ev.branch, pc |-> resolve(Num(ev.pc)),
                    ra |-> Num(SubSeq(ev.regs, 31 * 4 + 1, 31 * 4 + 4))]>>
        BY <2>1 DEF backtrace_event
    <2> QED
        BY <1>1, <2>2, OneElement, Zenon
<1>5. CASE program = "benchmark"
    <2>1. e = benchmark_event(ev)
        BY <1>5 DEF Callback
    <2>2. e = <<>> \/ e = <<[op |-> "exec"]>>
        BY <2>1 DEF benchmark_event
    <2> QED
        BY <1>1, <2>2, OneElement, Zenon
<1>6. CASE program = "visualization"
    <2>1. e = visualization_event(ev)
        BY <1>6 DEF Callback
    <2>2. \/ e = <<>>
          \/ e = <<[op |-> "instr"]>>
          \/ e = <<[op |-> "load", addr |-> Low(ev.addr, 4)]>>
          \/ e = <<[op |-> "store", addr |-> Low(ev.addr, 4)]>>
        BY <2>1 DEF visualization_event
    <2> QED
        BY <1>1, <2>2, OneElement, Zenon
<1>7. CASE program = "regtrace"
    <2>1. e = <<>>
        BY <1>7 DEF Callback
    <2> QED
        BY <1>1, <2>1, Zenon
<1> QED
    BY <1>2, <1>3, <1>4, <1>5, <1>6, <1>7 DEF Programs

\* Nothing comes of nothing, and what callbacks push are traces.
LEMMA PushingSeq ==
    ASSUME NEW program \in Programs, NEW evs, NEW count \in Nat, NEW u,
           Pushing(program, evs, count, u)
    PROVE  \A k \in 0 .. count : IsSeq(u[k])
<1> DEFINE S == {k \in Nat : k <= count => IsSeq(u[k])}
<1>1. 0 \in S
    <2>1. u[0] = <<>> /\ <<>> \in Seq({})
        BY DEF Pushing
    <2>2. IsSeq(u[0])
        BY <2>1, Zenon DEF IsSeq
    <2> QED
        BY <2>2
<1>2. ASSUME NEW k \in Nat, k \in S PROVE k + 1 \in S
    <2>1. SUFFICES ASSUME k + 1 <= count PROVE IsSeq(u[k + 1])
        OBVIOUS
    <2>2. k + 1 \in 1 .. count /\ (k + 1) - 1 = k /\ IsSeq(u[k])
        BY <1>2, <2>1
    <2>3. u[k + 1] = Cat(u[k], Callback(program, evs[k + 1]))
        BY <2>2 DEF Pushing, Push
    <2> DEFINE a == u[k]  b == Callback(program, evs[k + 1])
    <2>4. IsSeq(a) /\ IsSeq(b)
        BY <2>2, CallbackSeq
    <2> HIDE DEF a, b
    <2>5. IsSeq(Cat(a, b))
        BY <2>4, CatAt
    <2> QED
        BY <2>3, <2>5 DEF a, b
<1> HIDE DEF S
<1>3. \A k \in Nat : k \in S => k + 1 \in S
    BY <1>2
<1>4. Nat \subseteq S
    BY <1>1, <1>3, SetInduction
<1> QED
    BY <1>4 DEF S

\* The trace of no events, and of those of two chunks.
LEMMA PushedNone ==
    ASSUME NEW program
    PROVE  Pushed(program, <<>>) = <<>>
<1> DEFINE none == <<>>
<1>0. Len(none) = 0
    OBVIOUS
<1>1. PICK n \in Nat : n = 0 /\ n = Len(none)
    BY <1>0
<1> HIDE DEF none
<1>2. PICK u : Pushing(program, none, n, u) /\ Pushed(program, none) = u[n]
    BY <1>1, PushedSteps
<1> QED
    BY <1>1, <1>2 DEF Pushing, none

\* The callbacks do not see where chunks begin and end.
LEMMA PushedCat ==
    ASSUME NEW program \in Programs, NEW s, NEW t, IsSeq(s), IsSeq(t)
    PROVE  /\ Pushed(program, Cat(s, t)) = Cat(Pushed(program, s), Pushed(program, t))
           /\ IsSeq(Pushed(program, s)) /\ IsSeq(Pushed(program, t))
<1> DEFINE z == Cat(s, t)
<1>0. Len(s) \in Nat /\ Len(t) \in Nat
    BY CatAt
<1>1. PICK m \in Nat, n \in Nat : m = Len(s) /\ n = Len(t)
    BY <1>0, Zenon
<1>2. Len(z) = m + n /\ \A i \in 1 .. m + n : z[i] = IF i <= m THEN s[i] ELSE t[i - m]
    BY <1>1, CatAt
<1> HIDE DEF z
<1>3. PICK c \in Nat : c = m + n
    OBVIOUS
<1>4. PICK u : Pushing(program, s, m, u) /\ Pushed(program, s) = u[m]
    BY <1>1, PushedSteps
<1>5. PICK v : Pushing(program, t, n, v) /\ Pushed(program, t) = v[n]
    BY <1>1, PushedSteps
<1>6. PICK x : Pushing(program, z, c, x) /\ Pushed(program, z) = x[c]
    BY <1>2, <1>3, PushedSteps
<1>7. (\A k \in 0 .. m : IsSeq(u[k])) /\ (\A k \in 0 .. n : IsSeq(v[k]))
    BY <1>4, <1>5, PushingSeq
<1>8. /\ u[0] = <<>> /\ \A k \in 1 .. m : u[k] = Push(program, u[k - 1], s[k])
      /\ v[0] = <<>> /\ \A k \in 1 .. n : v[k] = Push(program, v[k - 1], t[k])
      /\ x[0] = <<>> /\ \A k \in 1 .. c : x[k] = Push(program, x[k - 1], z[k])
    BY <1>4, <1>5, <1>6 DEF Pushing
<1> DEFINE A == {k \in Nat : k <= m => x[k] = u[k]}
           B == {k \in Nat : k <= n => x[m + k] = Cat(u[m], v[k])}
<1>9. 0 \in A
    BY <1>8
<1>10. ASSUME NEW k \in Nat, k \in A PROVE k + 1 \in A
    <2>1. SUFFICES ASSUME k + 1 <= m PROVE x[k + 1] = u[k + 1]
        OBVIOUS
    <2>2. /\ k + 1 \in 1 .. m /\ k + 1 \in 1 .. c /\ k + 1 \in 1 .. m + n /\ (k + 1) - 1 = k
          /\ x[k] = u[k] /\ k + 1 <= m
        BY <1>3, <1>10, <2>1
    <2>3. z[k + 1] = s[k + 1]
        BY <1>2, <2>2
    <2> QED
        BY <1>8, <2>2, <2>3
<1>11. x[m] = u[m]
    <2> HIDE DEF A
    <2>1. \A k \in Nat : k \in A => k + 1 \in A
        BY <1>10
    <2>2. Nat \subseteq A
        BY <1>9, <2>1, SetInduction
    <2> QED
        BY <2>2 DEF A
<1>12. m \in 0 .. m /\ n \in 0 .. n
    OBVIOUS
<1>13. 0 \in B
    <2> DEFINE a == u[m]
    <2>1. IsSeq(a)
        BY <1>7, <1>12
    <2> HIDE DEF a
    <2>2. Cat(a, <<>>) = a
        <3>1. PICK T : a \in Seq(T)
            BY <2>1 DEF IsSeq
        <3> QED
            BY <3>1, ConcatEmptySeq DEF Cat
    <2>3. m + 0 = m
        OBVIOUS
    <2> QED
        BY <1>8, <1>11, <2>2, <2>3 DEF a
<1>14. ASSUME NEW k \in Nat, k \in B PROVE k + 1 \in B
    <2>1. SUFFICES ASSUME k + 1 <= n PROVE x[m + (k + 1)] = Cat(u[m], v[k + 1])
        OBVIOUS
    <2>2. PICK j \in Nat : j = m + k
        OBVIOUS
    <2>3. /\ j + 1 \in 1 .. c /\ j + 1 \in 1 .. m + n /\ (j + 1) - 1 = j /\ m + (k + 1) = j + 1
          /\ ~(j + 1 <= m) /\ (j + 1) - m = k + 1
          /\ k + 1 \in 1 .. n /\ (k + 1) - 1 = k /\ k \in 0 .. n
        BY <1>3, <2>1, <2>2
    <2>4. x[j] = Cat(u[m], v[k])
        BY <1>14, <2>2, <2>3
    <2>5. z[j + 1] = t[k + 1]
        BY <1>2, <2>3
    <2> DEFINE a == u[m]  b == v[k]  e == Callback(program, t[k + 1])
    <2>6. IsSeq(a) /\ IsSeq(b) /\ IsSeq(e)
        BY <1>7, <1>12, <2>3, CallbackSeq
    <2>7. x[j + 1] = Cat(Cat(a, b), e) /\ v[k + 1] = Cat(b, e)
        BY <1>8, <2>3, <2>4, <2>5 DEF Push
    <2> HIDE DEF a, b, e
    <2>8. Cat(Cat(a, b), e) = Cat(a, Cat(b, e))
        BY <2>6, CatAssoc
    <2> QED
        BY <2>3, <2>7, <2>8 DEF a
<1>15. x[c] = Cat(u[m], v[n])
    <2> HIDE DEF B
    <2>1. \A k \in Nat : k \in B => k + 1 \in B
        BY <1>14
    <2>2. Nat \subseteq B
        BY <1>13, <2>1, SetInduction
    <2> QED
        BY <1>3, <2>2 DEF B
<1> QED
    BY <1>4, <1>5, <1>6, <1>7, <1>12, <1>15 DEF z

\* What the client becomes by all that it was told.
Consumed(program, p) == Traced(program, InitialState(program), Pushed(program, p))

\* The traces that wait bring it there, one after the other.
Delivered(program, c, ts, p) ==
    /\ IsSeq(ts)
    /\ \E x : /\ x[0] = c /\ x[Len(ts)] = Consumed(program, p)
              /\ \A i \in 1 .. Len(ts) : x[i] = Traced(program, x[i - 1], ts[i])
ClientOK == server.failed = 0 => Delivered(setup.client, client, traces, parsed)
ClientInv == LoadInv /\ ClientOK

\* When no trace waits the client's state is that of one trace of all events: it
\* does not depend on the chunks, the threads and the moments they came in.
ChunksInvisible ==
    server.failed = 0 /\ traces = <<>> => client = Consumed(setup.client, parsed)

\* A thread parsed a chunk more.
LEMMA DeliveredMore ==
    ASSUME NEW program \in Programs, NEW c, NEW ts, NEW p, NEW g, IsSeq(p), IsSeq(g),
           Delivered(program, c, ts, p)
    PROVE  Delivered(program, c, Append(ts, Pushed(program, g)), Cat(p, g))
<1> DEFINE e == Pushed(program, g)  z == Append(ts, e)  init == InitialState(program)
           s == Pushed(program, p)
<1>1. PICK x : /\ x[0] = c /\ x[Len(ts)] = Consumed(program, p)
               /\ \A i \in 1 .. Len(ts) : x[i] = Traced(program, x[i - 1], ts[i])
    BY DEF Delivered
<1>2. Pushed(program, Cat(p, g)) = Cat(s, e) /\ IsSeq(s) /\ IsSeq(e)
    BY PushedCat
<1>3. x[Len(ts)] = Traced(program, init, s)
    BY <1>1 DEF Consumed
<1>4. IsSeq(ts)
    BY DEF Delivered
<1> HIDE DEF e, init, s
<1>5. /\ IsSeq(z) /\ Len(ts) \in Nat /\ Len(z) = Len(ts) + 1
      /\ (\A i \in 1 .. Len(ts) : z[i] = ts[i]) /\ z[Len(ts) + 1] = e
    BY <1>4, AppendKnown
<1>6. PICK n \in Nat : n = Len(ts)
    BY <1>5
<1> HIDE DEF z
<1> DEFINE d == Traced(program, x[n], e)
<1>7. Traced(program, init, Cat(s, e)) = d
    BY <1>2, <1>3, <1>6, TracedCat
<1>8. d = Consumed(program, Cat(p, g))
    BY <1>2, <1>7 DEF Consumed, init
<1> DEFINE y == [i \in 0 .. n + 1 |-> IF i = n + 1 THEN d ELSE x[i]]
<1>9. (\A i \in 0 .. n + 1 : y[i] = IF i = n + 1 THEN d ELSE x[i])
      /\ y[0] = c /\ y[n + 1] = Consumed(program, Cat(p, g))
    BY <1>1, <1>8
<1> HIDE DEF y
<1>10. ASSUME NEW i \in 1 .. n + 1 PROVE y[i] = Traced(program, y[i - 1], z[i])
    <2>1. i \in 0 .. n + 1 /\ i - 1 \in 0 .. n + 1 /\ i - 1 # n + 1
        OBVIOUS
    <2>2. y[i - 1] = x[i - 1]
        BY <1>9, <2>1
    <2>3. CASE i = n + 1
        <3>1. y[i] = d /\ z[i] = e /\ i - 1 = n
            BY <1>5, <1>6, <1>9, <2>1, <2>3
        <3> QED
            BY <2>2, <3>1
    <2>4. CASE i # n + 1
        <3>1. i \in 1 .. n
            BY <2>4
        <3>2. y[i] = x[i] /\ z[i] = ts[i] /\ x[i] = Traced(program, x[i - 1], ts[i])
            BY <1>1, <1>5, <1>6, <1>9, <2>1, <2>4, <3>1
        <3> QED
            BY <2>2, <3>2
    <2> QED
        BY <2>3, <2>4
<1>11. Delivered(program, c, z, Cat(p, g))
    BY <1>5, <1>6, <1>9, <1>10 DEF Delivered
<1> QED
    BY <1>11 DEF z, e

\* The first trace is consumed.
LEMMA DeliveredLess ==
    ASSUME NEW program, NEW c, NEW ts, NEW p, Delivered(program, c, ts, p), ts # <<>>
    PROVE  Delivered(program, Traced(program, c, Head(ts)), Tail(ts), p)
<1> DEFINE z == Tail(ts)
<1>1. PICK x : /\ x[0] = c /\ x[Len(ts)] = Consumed(program, p)
               /\ \A i \in 1 .. Len(ts) : x[i] = Traced(program, x[i - 1], ts[i])
    BY DEF Delivered
<1>2. PICK T : ts \in Seq(T)
    BY DEF Delivered, IsSeq
<1>3. PICK m \in Nat : Len(ts) = m + 1
    <2>1. Len(ts) \in Nat /\ Len(ts) # 0
        BY <1>2, EmptySeq, LenProperties
    <2>2. Len(ts) - 1 \in Nat /\ Len(ts) = (Len(ts) - 1) + 1
        BY <2>1
    <2> QED
        BY <2>2
<1>4. /\ z \in Seq(T) /\ Len(z) = m /\ (\A i \in 1 .. m : z[i] = ts[i + 1])
      /\ Head(ts) = ts[1]
    <2>1. Tail(ts) \in Seq(T) /\ Len(Tail(ts)) = Len(ts) - 1
          /\ (\A i \in 1 .. Len(Tail(ts)) : Tail(ts)[i] = ts[i + 1])
          /\ Head(ts) = ts[1]
        BY <1>2, HeadTailProperties
    <2>2. Len(Tail(ts)) = m
        BY <1>3, <2>1
    <2> QED
        BY <2>1, <2>2 DEF z
<1> HIDE DEF z
<1> DEFINE y == [i \in 0 .. m |-> x[i + 1]]
<1>5. \A i \in 0 .. m : y[i] = x[i + 1]
    OBVIOUS
<1> HIDE DEF y
<1>6. y[0] = Traced(program, c, Head(ts))
    <2>1. 1 \in 1 .. m + 1 /\ 1 - 1 = 0 /\ 0 \in 0 .. m /\ 0 + 1 = 1
        OBVIOUS
    <2>2. x[1] = Traced(program, x[0], ts[1])
        BY <1>1, <1>3, <2>1
    <2> QED
        BY <1>1, <1>4, <1>5, <2>1, <2>2
<1>7. y[m] = Consumed(program, p)
    BY <1>1, <1>3, <1>5
<1>8. ASSUME NEW i \in 1 .. m PROVE y[i] = Traced(program, y[i - 1], z[i])
    <2>1. i \in 0 .. m /\ i - 1 \in 0 .. m /\ (i - 1) + 1 = i /\ i + 1 \in 1 .. m + 1
          /\ (i + 1) - 1 = i
        OBVIOUS
    <2>2. y[i] = x[i + 1] /\ y[i - 1] = x[i] /\ z[i] = ts[i + 1]
        BY <1>4, <1>5, <2>1
    <2>3. x[i + 1] = Traced(program, x[i], ts[i + 1])
        BY <1>1, <1>3, <2>1
    <2> QED
        BY <2>2, <2>3
<1>9. IsSeq(z)
    BY <1>4 DEF IsSeq
<1> QED
    BY <1>4, <1>6, <1>7, <1>8, <1>9 DEF Delivered, z

\* Initially the client was told nothing.
LEMMA InitClient ==
    ASSUME Init
    PROVE  ClientInv
<1> DEFINE none == <<>>  program == setup.client  c == InitialState(program)
<1>1. client = c /\ traces = none /\ parsed = none
    BY DEF Init
<1>2. Pushed(program, none) = none /\ Traced(program, c, none) = c
    BY PushedNone, TracedSmall
<1>3. IsSeq(none) /\ Len(none) = 0
    BY DEF IsSeq
<1> HIDE DEF none
<1>4. Consumed(program, none) = c
    BY <1>2 DEF Consumed
<1> HIDE DEF c, program
<1> DEFINE x == [i \in 0 .. 0 |-> c]
<1>5. x[0] = c
    OBVIOUS
<1> HIDE DEF x
<1>6. Delivered(program, c, none, none)
    BY <1>3, <1>4, <1>5 DEF Delivered
<1>7. LoadInv
    BY InitLoad
<1> QED
    BY <1>1, <1>6, <1>7 DEF ClientInv, ClientOK, program

\* Steps of the guest change neither the traces nor the client.
LEMMA ClientKept ==
    ASSUME ClientOK, UNCHANGED <<setup, server, traces, client, parsed>>
    PROVE  ClientOK'
BY DEF ClientOK

\* A thread parses a chunk, with the callbacks of the client.
LEMMA ParseClient ==
    ASSUME ClientInv, Parse
    PROVE  ClientOK'
<1> DEFINE program == setup.client  r == Parsed(setup.feature, Head(sent).bytes)  f == server'.failed
<1>1. PipelineInv /\ ServerOK /\ setup \in Setups /\ server.failed \in Nat /\ ClientOK
    BY DEF ClientInv, LoadInv, PipelineInv, ServerOK, GuestOK
<1>2. /\ setup' = setup /\ client' = client /\ f \in Nat
      /\ f = 0 => server.failed = 0
      /\ ~(f > 0) => traces' = Append(traces, Pushed(program, r.evs)) /\ parsed' = Cat(parsed, r.evs)
    <2>1. /\ setup' = setup /\ client' = client /\ f \in Nat
          /\ Failing(program, r) \/ server.poisoned => f = server.failed + 1
          /\ ~(Failing(program, r) \/ server.poisoned) => f = server.failed
          /\ ~(f > 0) => /\ traces' = Append(traces, Pushed(program, r.evs))
                         /\ parsed' = Cat(parsed, r.evs)
        BY <1>1, ParseDoes
    <2>2. f = server.failed + 1 \/ f = server.failed
        BY <2>1
    <2> HIDE DEF f, r, program
    <2>3. f = 0 => server.failed = 0
        BY <1>1, <2>2
    <2> QED
        BY <2>1, <2>3
<1>3. SUFFICES ASSUME f = 0 PROVE Delivered(setup'.client, client', traces', parsed')
    BY DEF ClientOK
<1>4. Delivered(program, client, traces, parsed)
    BY <1>1, <1>2, <1>3 DEF ClientOK
<1>5. program \in Programs
    BY <1>1, SetupsAssumption
<1>6. IsSeq(parsed)
    BY <1>1, FaithKinds DEF PipelineInv, FaithOK
<1>7. IsSeq(r.evs)
    <2> DEFINE W == Waiting(setup.client, setup.feature, odd, ChunkSize[setup.lib.inst])
    <2>2. sent \in Seq(W) /\ sent # <<>>
        BY <1>1 DEF ClientInv, LoadInv, BuffersOK, Held, Parse, CanParse
    <2>3. Head(sent) \in W
        <3> HIDE DEF W
        <3> QED
            BY <2>2, HeadOf
    <2>1. Head(sent).bytes \in Seq(Byte)
        BY <2>3 DEF Waiting, Chunks, Buffers
    <2> QED
        BY <2>1, ParsedType
<1> HIDE DEF program, r, f
<1>8. traces' = Append(traces, Pushed(program, r.evs)) /\ parsed' = Cat(parsed, r.evs)
    BY <1>2, <1>3
<1>9. Delivered(program, client, Append(traces, Pushed(program, r.evs)), Cat(parsed, r.evs))
    BY <1>4, <1>5, <1>6, <1>7, DeliveredMore
<1> QED
    BY <1>2, <1>8, <1>9 DEF program

\* The client consumes the first trace.
LEMMA TraceClient ==
    ASSUME ClientInv, Trace
    PROVE  ClientOK'
<1>1. ServerOK /\ ClientOK /\ server.failed \in Nat
    BY DEF ClientInv, LoadInv, PipelineInv, ServerOK
<1>2. traces # <<>> /\ traces' = Tail(traces) /\ setup' = setup /\ parsed' = parsed
    BY DEF Trace
<1>3. CASE /\ client' = Traced(setup.client, client, Head(traces))
           /\ UNCHANGED server
    <2>1. SUFFICES ASSUME server.failed = 0
                   PROVE  Delivered(setup.client, client', traces', parsed)
        BY <1>2, <1>3 DEF ClientOK
    <2>2. Delivered(setup.client, client, traces, parsed)
        BY <1>1, <2>1 DEF ClientOK
    <2> QED
        BY <1>2, <1>3, <2>2, DeliveredLess
<1>4. CASE server' = [server EXCEPT !.failed = @ + 1, !.poisoned = TRUE]
    <2> DEFINE n == server.failed + 1
    <2>1. server' = [server EXCEPT !.failed = n, !.poisoned = TRUE] /\ n # 0
        BY <1>1, <1>4
    <2> HIDE DEF n
    <2>2. server' = [failed |-> n, poisoned |-> TRUE, kept |-> server.kept]
        BY <1>1, <2>1 DEF ServerOK
    <2>3. server'.failed = n
        BY <2>2
    <2> QED
        BY <2>1, <2>3 DEF ClientOK
<1> QED
    BY <1>3, <1>4 DEF Trace

\* Every step keeps what the waiting traces bring about.
LEMMA NextClient ==
    ASSUME ClientInv, [Next]_vars
    PROVE  ClientInv'
<1>1. LoadInv /\ GuestOK /\ ClientOK
    BY DEF ClientInv, LoadInv, PipelineInv
<1>2. LoadInv'
    BY <1>1, NextLoad
<1>3. SUFFICES ClientOK'
    BY <1>2 DEF ClientInv
<1>4. CASE Running
    <2>1. PICK bb_end, next, a, why : Execute(bb_end, a, next, why)
        BY <1>4, Zenon DEF Running
    <2>2. UNCHANGED <<setup, server, traces, client, parsed>>
        BY <2>1 DEF Execute, server_vars
    <2> QED
        BY <1>1, <2>2, ClientKept
<1>5. CASE Reporting
    <2>1. PICK packet, ev, why : Report(packet, ev, why)
        BY <1>5, Zenon DEF Reporting
    <2>2. UNCHANGED <<setup, server, traces, client, parsed>>
        BY <2>1 DEF Report, server_vars
    <2> QED
        BY <1>1, <2>2, ClientKept
<1>6. CASE JitExit
    BY <1>1, <1>6, ClientKept DEF JitExit, server_vars
<1>7. CASE Retranslate
    BY <1>1, <1>7, ClientKept DEF Retranslate, server_vars
<1>8. CASE FailedCall
    BY <1>1, <1>8, ClientKept DEF FailedCall, server_vars
<1>9. CASE Unblock
    BY <1>1, <1>9, ClientKept DEF Unblock, server_vars
<1>10. CASE Parse
    BY <1>10, ParseClient
<1>11. CASE Trace
    BY <1>11, TraceClient
<1>12. CASE UNCHANGED vars
    BY <1>1, <1>12, ClientKept DEF vars
<1>13. CASE Guest
    BY <1>1, <1>4, <1>5, <1>6, <1>7, <1>8, <1>9, <1>13, GuestSteps
<1> QED
    BY <1>10, <1>11, <1>12, <1>13, Zenon DEF Next

\* When no trace waits the client is there.
LEMMA AllConsumed ==
    ASSUME ClientInv
    PROVE  ChunksInvisible
<1>1. SUFFICES ASSUME server.failed = 0, traces = <<>>
               PROVE  client = Consumed(setup.client, parsed)
    BY DEF ChunksInvisible
<1>2. Delivered(setup.client, client, traces, parsed)
    BY <1>1 DEF ClientInv, ClientOK
<1>3. PICK x : x[0] = client /\ x[Len(traces)] = Consumed(setup.client, parsed)
    BY <1>2 DEF Delivered
<1>4. Len(traces) = 0
    BY <1>1
<1> QED
    BY <1>3, <1>4

\* The clients' traces of chunks, made in parallel and consumed in order, have the
\* effect of one trace of all events, for every client, program and cut into
\* chunks. (parse_payload, Cannoli::trace, handle_client)
THEOREM ChunksInvisibleTheorem == Spec => []ChunksInvisible
<1>1. ClientInv => ChunksInvisible
    BY AllConsumed, Zenon
<1>2. Init => ClientInv
    BY InitClient
<1>3. ClientInv /\ [Next]_vars => ClientInv'
    BY NextClient
<1> QED
    BY <1>1, <1>2, <1>3, PTL DEF Spec

-----------------------------------------------------------------------------
(* Counting clients. *)

CountTo(s, k, op) == Cardinality({i \in 1 .. k : s[i].op = op})

\* One event more is counted or not.
LEMMA CountStep ==
    ASSUME NEW s, NEW k \in Nat, NEW op
    PROVE  /\ CountTo(s, k, op) \in Nat /\ CountTo(s, 0, op) = 0
           /\ s[k + 1].op = op => CountTo(s, k + 1, op) = CountTo(s, k, op) + 1
           /\ s[k + 1].op # op => CountTo(s, k + 1, op) = CountTo(s, k, op)
<1> DEFINE S == {i \in 1 .. k : s[i].op = op}  T == {i \in 1 .. k + 1 : s[i].op = op}
           U == {i \in 1 .. 0 : s[i].op = op}
<1>1. IsFiniteSet(S) /\ Cardinality(S) \in Nat
    <2>1. IsFiniteSet(1 .. k) /\ S \in SUBSET (1 .. k)
        BY FS_Interval
    <2> HIDE DEF S
    <2>2. IsFiniteSet(S)
        BY <2>1, FS_Subset
    <2> QED
        BY <2>2, FS_CardinalityType
<1>2. k + 1 \notin S
    OBVIOUS
<1>3. U = {}
    OBVIOUS
<1>4. ASSUME s[k + 1].op = op PROVE Cardinality(T) = Cardinality(S) + 1
    <2>1. T = S \cup {k + 1}
        BY <1>4
    <2> HIDE DEF S, T
    <2> QED
        BY <1>1, <1>2, <2>1, FS_AddElement
<1>5. ASSUME s[k + 1].op # op PROVE Cardinality(T) = Cardinality(S)
    <2>1. T = S
        BY <1>5
    <2> QED
        BY <2>1
<1>6. Cardinality(U) = 0
    BY <1>3, FS_EmptySet
<1> QED
    BY <1>1, <1>4, <1>5, <1>6 DEF CountTo

\* A counting client that got the first k events of s.
Tallied(program, s, k, st) ==
    /\ program = "benchmark" => st = [instructions |-> CountTo(s, k, "exec")]
    /\ program = "visualization" =>
          st = [loads |-> CountTo(s, k, "read"), stores |-> CountTo(s, k, "write"),
                instrs |-> CountTo(s, k, "exec")]

\* It counts the next one.
LEMMA TalliedStep ==
    ASSUME NEW program, NEW s, NEW k \in Nat, NEW st, Tallied(program, s, k, st)
    PROVE  Tallied(program, s, k + 1, Traced(program, st, Callback(program, s[k + 1])))
<1> DEFINE ev == s[k + 1]  e == Callback(program, ev)  z == Traced(program, st, e)
           l == CountTo(s, k, "read")  t == CountTo(s, k, "write")  n == CountTo(s, k, "exec")
           l1 == CountTo(s, k + 1, "read")  t1 == CountTo(s, k + 1, "write")
           n1 == CountTo(s, k + 1, "exec")
<1>1. l \in Nat /\ t \in Nat /\ n \in Nat
    BY CountStep
<1>2. /\ ev.op = "read" => l1 = l + 1 /\ t1 = t /\ n1 = n
      /\ ev.op = "write" => l1 = l /\ t1 = t + 1 /\ n1 = n
      /\ ev.op = "exec" => l1 = l /\ t1 = t /\ n1 = n + 1
      /\ ev.op \notin {"read", "write", "exec"} => l1 = l /\ t1 = t /\ n1 = n
    <2>1. /\ ev.op = "read" => l1 = l + 1
          /\ ev.op # "read" => l1 = l
          /\ ev.op = "write" => t1 = t + 1
          /\ ev.op # "write" => t1 = t
          /\ ev.op = "exec" => n1 = n + 1
          /\ ev.op # "exec" => n1 = n
        BY CountStep
    <2> HIDE DEF ev, l, t, n, l1, t1, n1
    <2> QED
        BY <2>1
<1>3. /\ program = "benchmark" => st = [instructions |-> n]
      /\ program = "visualization" => st = [loads |-> l, stores |-> t, instrs |-> n]
    BY DEF Tallied
<1>4. Traced(program, st, <<>>) = st /\ \A x : Traced(program, st, <<x>>) = TraceEntry(program, st, x)
    BY TracedSmall
<1>5. SUFFICES /\ program = "benchmark" => z = [instructions |-> n1]
               /\ program = "visualization" => z = [loads |-> l1, stores |-> t1, instrs |-> n1]
    BY DEF Tallied
<1> HIDE DEF l, t, n, l1, t1, n1, ev, z
<1>6. ASSUME program = "benchmark" PROVE z = [instructions |-> n1]
    <2>1. st = [instructions |-> n]
        BY <1>3, <1>6
    <2>2. CASE ev.op = "exec"
        <3> DEFINE x == [op |-> "exec"]
        <3>1. e = <<x>>
            BY <1>6, <2>2 DEF Callback, benchmark_event
        <3> HIDE DEF x, e
        <3>2. z = TraceEntry(program, st, x)
            BY <1>4, <3>1, Zenon DEF z
        <3>3. z = [st EXCEPT !.instructions = n + 1]
            BY <1>6, <2>1, <3>2 DEF TraceEntry
        <3> QED
            BY <1>2, <2>1, <2>2, <3>3
    <2>3. CASE ev.op # "exec"
        <3>1. e = <<>>
            BY <1>6, <2>3 DEF Callback, benchmark_event
        <3> HIDE DEF e
        <3>2. z = st
            BY <1>4, <3>1, Zenon DEF z
        <3>3. n1 = n
            BY <1>2, <2>3
        <3> QED
            BY <2>1, <3>2, <3>3
    <2> QED
        BY <2>2, <2>3
<1>7. ASSUME program = "visualization"
      PROVE  z = [loads |-> l1, stores |-> t1, instrs |-> n1]
    <2>1. st = [loads |-> l, stores |-> t, instrs |-> n]
        BY <1>3, <1>7
    <2>2. e = visualization_event(ev)
        BY <1>7 DEF Callback
    <2>3. CASE ev.op = "exec"
        <3> DEFINE x == [op |-> "instr"]
        <3>1. e = <<x>> /\ x.op = "instr"
            BY <2>2, <2>3 DEF visualization_event
        <3> HIDE DEF x, e
        <3>2. z = TraceEntry(program, st, x)
            BY <1>4, <3>1, Zenon DEF z
        <3>3. z = visualization_trace(st, x)
            BY <1>7, <3>2 DEF TraceEntry
        <3>4. z = [st EXCEPT !.instrs = n + 1]
            BY <2>1, <3>1, <3>3 DEF visualization_trace
        <3> QED
            BY <1>2, <2>1, <2>3, <3>4
    <2>4. CASE ev.op = "read"
        <3> DEFINE x == [op |-> "load", addr |-> Low(ev.addr, 4)]
        <3>1. e = <<x>> /\ x.op = "load"
            BY <2>2, <2>4 DEF visualization_event
        <3> HIDE DEF x, e
        <3>2. z = TraceEntry(program, st, x)
            BY <1>4, <3>1, Zenon DEF z
        <3>3. z = visualization_trace(st, x)
            BY <1>7, <3>2 DEF TraceEntry
        <3>4. z = [st EXCEPT !.loads = l + 1]
            BY <2>1, <3>1, <3>3 DEF visualization_trace
        <3> QED
            BY <1>2, <2>1, <2>4, <3>4
    <2>5. CASE ev.op = "write"
        <3> DEFINE x == [op |-> "store", addr |-> Low(ev.addr, 4)]
        <3>1. e = <<x>> /\ x.op = "store"
            BY <2>2, <2>5 DEF visualization_event
        <3> HIDE DEF x, e
        <3>2. z = TraceEntry(program, st, x)
            BY <1>4, <3>1, Zenon DEF z
        <3>3. z = visualization_trace(st, x)
            BY <1>7, <3>2 DEF TraceEntry
        <3>4. z = [st EXCEPT !.stores = t + 1]
            BY <2>1, <3>1, <3>3 DEF visualization_trace
        <3> QED
            BY <1>2, <2>1, <2>5, <3>4
    <2>6. CASE ev.op \notin {"read", "write", "exec"}
        <3>1. e = <<>>
            BY <2>2, <2>6 DEF visualization_event
        <3> HIDE DEF e
        <3>2. z = st
            BY <1>4, <3>1, Zenon DEF z
        <3>3. l1 = l /\ t1 = t /\ n1 = n
            BY <1>2, <2>6
        <3> QED
            BY <2>1, <3>2, <3>3
    <2> QED
        BY <2>3, <2>4, <2>5, <2>6
<1> QED
    BY <1>6, <1>7

\* What a counting client becomes by all events: their numbers.
LEMMA ConsumedTallied ==
    ASSUME NEW program \in Programs, NEW p, IsSeq(p), NEW n, n = Len(p)
    PROVE  Tallied(program, p, n, Consumed(program, p))
<1> DEFINE init == InitialState(program)
<1>1. n \in Nat
    BY LenProperties DEF IsSeq
<1>2. PICK u : Pushing(program, p, n, u) /\ Pushed(program, p) = u[n]
    BY <1>1, PushedSteps
<1>3. \A k \in 0 .. n : IsSeq(u[k])
    BY <1>1, <1>2, PushingSeq
<1> DEFINE S == {k \in Nat : k <= n => Tallied(program, p, k, Traced(program, init, u[k]))}
<1>4. 0 \in S
    <2>1. u[0] = <<>> /\ Traced(program, init, <<>>) = init
        BY <1>2, TracedSmall DEF Pushing
    <2>2. \A op : CountTo(p, 0, op) = 0
        BY CountStep, 0 \in Nat
    <2>3. Tallied(program, p, 0, init)
        BY <2>2 DEF Tallied, InitialState
    <2> HIDE DEF init
    <2> QED
        BY <2>1, <2>3
<1>5. ASSUME NEW k \in Nat, k \in S PROVE k + 1 \in S
    <2>1. SUFFICES ASSUME k + 1 <= n PROVE Tallied(program, p, k + 1, Traced(program, init, u[k + 1]))
        OBVIOUS
    <2>2. k + 1 \in 1 .. n /\ (k + 1) - 1 = k /\ k <= n /\ k \in 0 .. n
        BY <1>1, <2>1
    <2> DEFINE v == u[k]  e == Callback(program, p[k + 1])  st == Traced(program, init, v)
    <2>3. u[k + 1] = Cat(v, e) /\ IsSeq(v) /\ IsSeq(e) /\ Tallied(program, p, k, st)
        BY <1>2, <1>3, <1>5, <2>2, CallbackSeq DEF Pushing, Push
    <2>4. Tallied(program, p, k + 1, Traced(program, st, e))
        BY <2>3, TalliedStep
    <2> HIDE DEF v, e, init
    <2>5. Traced(program, init, Cat(v, e)) = Traced(program, st, e)
        BY <2>3, TracedCat
    <2> QED
        BY <2>3, <2>4, <2>5
<1>6. n \in S
    <2> HIDE DEF S
    <2>1. \A k \in Nat : k \in S => k + 1 \in S
        BY <1>5
    <2>2. Nat \subseteq S
        BY <1>4, <2>1, SetInduction
    <2> QED
        BY <1>1, <2>2
<1> QED
    BY <1>2, <1>6 DEF Consumed

\* The benchmark and the visualization count every instruction, load and store of
\* the guest once: for every program, and whatever the chunks they came in.
\* (Benchmark::exec, Visualization::exec, read, write, and trace of both)
THEOREM CountsExactTheorem == Spec => []CountsExact
<1>1. ClientInv => CountsExact
    <2>1. SUFFICES ASSUME ClientInv, Idle PROVE CountsExact
        BY DEF CountsExact
    <2> DEFINE program == setup.client  n == Len(executed)
    <2>2. PipelineInv /\ setup \in Setups
        BY <2>1 DEF ClientInv, LoadInv, PipelineInv, GuestOK
    <2>3. program \in Programs
        BY <2>2, SetupsAssumption
    <2>4. /\ IsSeq(parsed) /\ IsSeq(executed) /\ Len(parsed) = n /\ n \in Nat
          /\ \A i \in 1 .. n : parsed[i].op = executed[i].op
        BY <2>1, <2>2, IdleAll DEF Idle
    <2>5. client = Consumed(program, parsed)
        BY <2>1, AllConsumed DEF ChunksInvisible, Idle
    <2>6. Tallied(program, parsed, n, client)
        <3> HIDE DEF program, n
        <3> QED
            BY <2>3, <2>4, <2>5, ConsumedTallied
    <2>7. \A op : Happened(op) = CountTo(parsed, n, op)
        <3>1. DOMAIN executed = 1 .. n
            <4>1. PICK T : executed \in Seq(T)
                BY <2>4 DEF IsSeq
            <4> QED
                BY <4>1, LenProperties
        <3> HIDE DEF n
        <3>2. ASSUME NEW op
              PROVE  {i \in DOMAIN executed : executed[i].op = op} = {i \in 1 .. n : parsed[i].op = op}
            BY <2>4, <3>1
        <3> QED
            BY <3>2, Zenon DEF Happened, CountTo
    <2> HIDE DEF program, n
    <2> QED
        BY <2>6, <2>7 DEF CountsExact, Tallied, program
<1>2. Init => ClientInv
    BY InitClient
<1>3. ClientInv /\ [Next]_vars => ClientInv'
    BY NextClient
<1> QED
    BY <1>1, <1>2, <1>3, PTL DEF Spec

-----------------------------------------------------------------------------
(* The symbolizer's table. *)

\* One symbol comes before another: by address, then as in the file.
Before(K, a, b) == K[a] < K[b] \/ (K[a] = K[b] /\ a < b)
Ordered(K, p, k) ==
    /\ \A i \in 1 .. k : p[i] \in 1 .. k
    /\ \A a \in 1 .. k : \E i \in 1 .. k : p[i] = a
    /\ \A i, j \in 1 .. k : i < j => Before(K, p[i], p[j])

\* One address more goes to its place.
LEMMA Inserted ==
    ASSUME NEW K, NEW k \in Nat, \A a \in 1 .. k + 1 : K[a] \in Nat, NEW p, Ordered(K, p, k)
    PROVE  \E q : Ordered(K, q, k + 1)
<1>1. /\ \A i \in 1 .. k : p[i] \in 1 .. k
      /\ \A a \in 1 .. k : \E i \in 1 .. k : p[i] = a
      /\ \A i, j \in 1 .. k : i < j => Before(K, p[i], p[j])
    BY DEF Ordered
<1>2. PICK c \in 0 .. k : /\ \A i \in 1 .. c : Before(K, p[i], k + 1)
                          /\ \A i \in c + 1 .. k : Before(K, k + 1, p[i])
    <2> DEFINE S == {i \in 1 .. k : K[p[i]] > K[k + 1]}
    <2>1. \A i \in 1 .. k : p[i] \in 1 .. k /\ K[p[i]] \in Nat /\ K[k + 1] \in Nat
        BY <1>1
    <2>2. CASE S = {}
        <3>1. \A i \in 1 .. k : Before(K, p[i], k + 1)
            BY <2>1, <2>2 DEF Before
        <3> QED
            BY <3>1, k \in 0 .. k
    <2>3. CASE S # {}
        <3>1. S \in SUBSET Nat
            OBVIOUS
        <3>2. PICK m \in S : \A i \in S : m <= i
            <4> HIDE DEF S
            <4> QED
                BY <2>3, <3>1, LeastNumber
        <3>3. m \in 1 .. k /\ K[p[m]] > K[k + 1]
            BY <3>2
        <3>4. \A i \in 1 .. m - 1 : Before(K, p[i], k + 1)
            <4>1. ASSUME NEW i \in 1 .. m - 1 PROVE Before(K, p[i], k + 1)
                <5>1. i \in 1 .. k /\ i \notin S
                    BY <3>2, <3>3
                <5>2. ~(K[p[i]] > K[k + 1])
                    BY <5>1
                <5> QED
                    BY <2>1, <5>1, <5>2 DEF Before
            <4> QED
                BY <4>1
        <3>5. \A i \in (m - 1) + 1 .. k : Before(K, k + 1, p[i])
            <4>1. ASSUME NEW i \in m .. k PROVE Before(K, k + 1, p[i])
                <5>1. i \in 1 .. k /\ m \in 1 .. k /\ (i = m \/ m < i)
                    BY <3>3
                <5>2. K[p[i]] > K[k + 1]
                    <6>1. CASE i = m
                        BY <3>3, <6>1
                    <6>2. CASE m < i
                        <7>1. Before(K, p[m], p[i])
                            BY <1>1, <5>1, <6>2
                        <7>2. K[p[m]] <= K[p[i]]
                            BY <2>1, <5>1, <7>1 DEF Before
                        <7> QED
                            BY <2>1, <3>3, <5>1, <7>2
                    <6> QED
                        BY <5>1, <6>1, <6>2
                <5> QED
                    BY <2>1, <5>1, <5>2 DEF Before
            <4> QED
                BY <3>3, <4>1
        <3>6. m - 1 \in 0 .. k
            BY <3>3
        <3> QED
            BY <3>4, <3>5, <3>6
    <2> QED
        BY <2>2, <2>3
<1> DEFINE q == [i \in 1 .. k + 1 |-> IF i <= c THEN p[i] ELSE IF i = c + 1 THEN k + 1 ELSE p[i - 1]]
<1>3. \A i \in 1 .. k + 1 :
          /\ i <= c => q[i] = p[i] /\ i \in 1 .. k
          /\ i = c + 1 => q[i] = k + 1
          /\ i > c + 1 => q[i] = p[i - 1] /\ i - 1 \in 1 .. k /\ i - 1 \in c + 1 .. k
    OBVIOUS
<1> HIDE DEF q
<1>4. \A i \in 1 .. k + 1 : i <= c \/ i = c + 1 \/ i > c + 1
    OBVIOUS
<1>5. ASSUME NEW i \in 1 .. k + 1 PROVE q[i] \in 1 .. k + 1
    <2>1. \A j \in 1 .. k : p[j] \in 1 .. k + 1
        BY <1>1
    <2>2. k + 1 \in 1 .. k + 1
        OBVIOUS
    <2> QED
        BY <1>3, <1>4, <2>1, <2>2
<1>6. ASSUME NEW a \in 1 .. k + 1 PROVE \E i \in 1 .. k + 1 : q[i] = a
    <2>1. CASE a = k + 1
        <3>1. c + 1 \in 1 .. k + 1
            OBVIOUS
        <3> QED
            BY <1>3, <2>1, <3>1
    <2>2. CASE a # k + 1
        <3>1. PICK j \in 1 .. k : p[j] = a
            BY <1>1, <2>2
        <3>2. CASE j <= c
            BY <1>3, <3>1, <3>2, j \in 1 .. k + 1
        <3>3. CASE ~(j <= c)
            <4>1. PICK i \in 1 .. k + 1 : i = j + 1 /\ i > c + 1 /\ i - 1 = j
                BY <3>3
            <4> QED
                BY <1>3, <3>1, <4>1
        <3> QED
            BY <3>2, <3>3
    <2> QED
        BY <2>1, <2>2
<1>7. ASSUME NEW i \in 1 .. k + 1, NEW j \in 1 .. k + 1, i < j PROVE Before(K, q[i], q[j])
    <2>1. CASE j <= c
        <3>1. i <= c
            BY <1>7, <2>1
        <3>2. q[i] = p[i] /\ q[j] = p[j] /\ i \in 1 .. k /\ j \in 1 .. k
            BY <1>3, <2>1, <3>1
        <3> QED
            BY <1>1, <1>7, <3>2
    <2>2. CASE j = c + 1
        <3>1. i <= c /\ i \in 1 .. c
            BY <1>7, <2>2
        <3>2. q[i] = p[i] /\ q[j] = k + 1
            BY <1>3, <2>2, <3>1
        <3> QED
            BY <1>2, <3>1, <3>2
    <2>3. CASE j > c + 1
        <3>1. q[j] = p[j - 1] /\ j - 1 \in 1 .. k /\ j - 1 \in c + 1 .. k
            BY <1>3, <2>3
        <3>2. CASE i <= c
            <4>1. q[i] = p[i] /\ i \in 1 .. k /\ i < j - 1
                BY <1>3, <2>3, <3>2
            <4> QED
                BY <1>1, <3>1, <4>1
        <3>3. CASE i = c + 1
            <4>1. q[i] = k + 1
                BY <1>3, <3>3
            <4> QED
                BY <1>2, <3>1, <4>1
        <3>4. CASE i > c + 1
            <4>1. q[i] = p[i - 1] /\ i - 1 \in 1 .. k /\ i - 1 < j - 1
                BY <1>3, <1>7, <3>4
            <4> QED
                BY <1>1, <3>1, <4>1
        <3> QED
            BY <1>4, <3>2, <3>3, <3>4
    <2> QED
        BY <1>4, <2>1, <2>2, <2>3
<1>8. Ordered(K, q, k + 1)
    BY <1>5, <1>6, <1>7 DEF Ordered
<1> QED
    BY <1>8

\* Every sequence of addresses can be sorted.
LEMMA CanSort ==
    ASSUME NEW K, NEW n \in Nat, \A a \in 1 .. n : K[a] \in Nat
    PROVE  \E p : Ordered(K, p, n)
<1> DEFINE S == {k \in Nat : k <= n => \E p : Ordered(K, p, k)}
<1>1. 0 \in S
    BY DEF Ordered
<1>2. ASSUME NEW k \in Nat, k \in S PROVE k + 1 \in S
    <2>1. SUFFICES ASSUME k + 1 <= n PROVE \E q : Ordered(K, q, k + 1)
        OBVIOUS
    <2>2. PICK p : Ordered(K, p, k)
        BY <1>2, <2>1
    <2>3. \A a \in 1 .. k + 1 : K[a] \in Nat
        BY <2>1
    <2> QED
        BY <2>2, <2>3, Inserted
<1> HIDE DEF S
<1>3. \A k \in Nat : k \in S => k + 1 \in S
    BY <1>2
<1>4. Nat \subseteq S
    BY <1>1, <1>3, SetInduction
<1> QED
    BY <1>4 DEF S

\* The table holds the symbols of the file, sorted.
LEMMA Table ==
    /\ Len(Symbols) \in Nat /\ DOMAIN SymbolTable = 1 .. Len(Symbols)
    /\ \A i \in 1 .. Len(Symbols) :
          SymbolTable[i][1] \in Nat /\ SymbolTable[i] \in Range(Symbols)
    /\ \A s \in Range(Symbols) : \E i \in 1 .. Len(Symbols) : SymbolTable[i] = s
    /\ \A i, j \in 1 .. Len(Symbols) : i < j => SymbolTable[i][1] <= SymbolTable[j][1]
<1> DEFINE n == Len(Symbols)  K == [a \in 1 .. n |-> Symbols[a][1]]
           Good(p) == \A i, j \in DOMAIN Symbols : i < j =>
                          \/ Symbols[p[i]][1] < Symbols[p[j]][1]
                          \/ Symbols[p[i]][1] = Symbols[p[j]][1] /\ p[i] < p[j]
           order == CHOOSE p \in Bijection(DOMAIN Symbols, DOMAIN Symbols) : Good(p)
<1>1. n \in Nat /\ DOMAIN Symbols = 1 .. n /\ \A a \in 1 .. n : Symbols[a] \in Nat \X STRING
    BY SymbolsAssumption, LenProperties, ElementOfSeq
<1>2. \A a \in 1 .. n : Symbols[a][1] \in Nat /\ K[a] = Symbols[a][1]
    BY <1>1
<1> HIDE DEF n, K
<1>3. PICK p : Ordered(K, p, n)
    BY <1>1, <1>2, CanSort
<1>4. /\ \A i \in 1 .. n : p[i] \in 1 .. n
      /\ \A a \in 1 .. n : \E i \in 1 .. n : p[i] = a
      /\ \A i, j \in 1 .. n : i < j => Before(K, p[i], p[j])
    BY <1>3 DEF Ordered
<1> DEFINE q == [i \in 1 .. n |-> p[i]]
<1>5. q \in Bijection(1 .. n, 1 .. n)
    <2>1. q \in [1 .. n -> 1 .. n] /\ \A i \in 1 .. n : q[i] = p[i]
        BY <1>4
    <2> HIDE DEF q
    <2>2. \A i, j \in 1 .. n : i < j => p[i] # p[j]
        <3>1. \A a \in 1 .. n : ~Before(K, a, a)
            BY <1>2 DEF Before
        <3> QED
            BY <1>4, <3>1
    <2>3. \A i, j \in 1 .. n : q[i] = q[j] => i = j
        <3>1. \A i, j \in 1 .. n : i < j \/ j < i \/ i = j
            BY <1>1
        <3> QED
            BY <2>1, <2>2, <3>1
    <2>4. \A a \in 1 .. n : \E i \in 1 .. n : q[i] = a
        BY <1>4, <2>1
    <2> QED
        BY <2>1, <2>3, <2>4 DEF Bijection, Injection, IsInjective, Surjection
<1>6. Good(q)
    <2>1. \A i \in 1 .. n : q[i] = p[i] /\ K[p[i]] = Symbols[p[i]][1]
        BY <1>2, <1>4
    <2> HIDE DEF q
    <2>2. ASSUME NEW i \in 1 .. n, NEW j \in 1 .. n, i < j
          PROVE  \/ Symbols[q[i]][1] < Symbols[q[j]][1]
                 \/ Symbols[q[i]][1] = Symbols[q[j]][1] /\ q[i] < q[j]
        BY <1>4, <2>1, <2>2 DEF Before
    <2> QED
        BY <1>1, <2>2
<1> HIDE DEF q, Good
<1>7. order \in Bijection(1 .. n, 1 .. n) /\ Good(order)
    BY <1>1, <1>5, <1>6
<1>8. SymbolTable = [i \in DOMAIN Symbols |-> Symbols[order[i]]]
    BY Zenon DEF SymbolTable, Good
<1> HIDE DEF order
<1>9. \A i \in 1 .. n : order[i] \in 1 .. n
    BY <1>7 DEF Bijection, Surjection
<1>10. \A a \in 1 .. n : \E i \in 1 .. n : order[i] = a
    BY <1>7 DEF Bijection, Surjection
<1>11. DOMAIN SymbolTable = 1 .. n /\ \A i \in 1 .. n : SymbolTable[i] = Symbols[order[i]]
    BY <1>1, <1>8
<1>12. Range(Symbols) = {Symbols[a] : a \in 1 .. n}
    BY <1>1 DEF Range
<1>13. ASSUME NEW i \in 1 .. n
       PROVE  SymbolTable[i][1] \in Nat /\ SymbolTable[i] \in Range(Symbols)
    BY <1>2, <1>9, <1>11, <1>12
<1>14. ASSUME NEW s \in Range(Symbols) PROVE \E i \in 1 .. n : SymbolTable[i] = s
    <2>1. PICK a \in 1 .. n : s = Symbols[a]
        BY <1>12
    <2>2. PICK i \in 1 .. n : order[i] = a
        BY <1>10
    <2> QED
        BY <1>11, <2>1, <2>2
<1>15. ASSUME NEW i \in 1 .. n, NEW j \in 1 .. n, i < j
       PROVE  SymbolTable[i][1] <= SymbolTable[j][1]
    <2>1. \/ Symbols[order[i]][1] < Symbols[order[j]][1]
          \/ Symbols[order[i]][1] = Symbols[order[j]][1] /\ order[i] < order[j]
        BY <1>1, <1>7, <1>15 DEF Good
    <2>2. Symbols[order[i]][1] \in Nat /\ Symbols[order[j]][1] \in Nat
        BY <1>2, <1>9
    <2> QED
        BY <1>11, <2>1, <2>2
<1> QED
    BY <1>1, <1>11, <1>13, <1>14, <1>15 DEF n

\* What is found for an address is the nearest symbol.
LEMMA ResolveNearest ==
    ASSUME NEW addr \in Nat
    PROVE  Nearest(resolve(addr))
<1> DEFINE n == Len(Symbols)  T == SymbolTable
           B == {i \in 1 .. n : T[i][1] < addr}  E == {i \in 1 .. n : T[i][1] = addr}
           pos == Cardinality(B)  r == resolve(addr)
<1>1. /\ n \in Nat /\ DOMAIN T = 1 .. n
      /\ \A i \in 1 .. n : T[i][1] \in Nat /\ T[i] \in Range(Symbols)
      /\ \A s \in Range(Symbols) : \E i \in 1 .. n : T[i] = s
      /\ \A i, j \in 1 .. n : i < j => T[i][1] <= T[j][1]
    BY Table
<1>2. r = IF E # {} THEN [addr |-> addr, symbol |-> T[Max(E)][2], offset |-> 0]
          ELSE IF pos > 0 THEN [addr |-> addr, symbol |-> T[pos][2], offset |-> addr - T[pos][1]]
          ELSE [addr |-> addr, symbol |-> "<unknown>", offset |-> addr]
    BY <1>1, Zenon DEF resolve
<1>3. B \in SUBSET (1 .. n) /\ E \in SUBSET (1 .. n)
    OBVIOUS
<1>4. /\ \A i \in 1 .. n : i \in B <=> T[i][1] < addr
      /\ \A i \in 1 .. n : i \in E <=> T[i][1] = addr
    OBVIOUS
<1> HIDE DEF n, T, B, E, pos, r
<1>5. CASE E # {}
    <2>1. PICK m : m = Max(E) /\ m \in E
        BY <1>1, <1>3, <1>5, LargestOf
    <2>2. m \in 1 .. n /\ T[m][1] = addr /\ T[m] \in Range(Symbols)
        BY <1>1, <1>3, <1>4, <2>1
    <2>3. r = [addr |-> addr, symbol |-> T[m][2], offset |-> 0]
        BY <1>2, <1>5, <2>1
    <2>4. \A t \in Range(Symbols) : t[1] <= T[m][1] \/ t[1] > addr
        BY <1>1, <2>2
    <2> QED
        BY <2>2, <2>3, <2>4 DEF Nearest, r
<1>6. CASE E = {} /\ B # {}
    <2>1. PICK m : m \in B /\ \A i \in B : m >= i
        BY <1>1, <1>3, <1>6, LargestOf
    <2>2. m \in 1 .. n /\ T[m][1] < addr
        BY <1>3, <1>4, <2>1
    <2>3. B = 1 .. m
        <3>1. ASSUME NEW i \in B PROVE i \in 1 .. m
            BY <1>3, <2>1, <2>2
        <3>2. ASSUME NEW i \in 1 .. m PROVE i \in B
            <4>1. i \in 1 .. n /\ (i = m \/ i < m)
                <5>1. n \in Nat
                    BY <1>1
                <5> QED
                    BY <2>2, <5>1
            <4>2. T[i][1] <= T[m][1]
                BY <1>1, <2>2, <4>1
            <4> QED
                BY <1>1, <1>4, <2>2, <4>1, <4>2
        <3> QED
            BY <3>1, <3>2
    <2>4. pos = m /\ m > 0
        <3>1. m \in Nat /\ m >= 1
            BY <2>2
        <3>2. Cardinality(1 .. m) = m
            BY <3>1, FS_Interval
        <3> QED
            BY <2>3, <3>1, <3>2 DEF pos
    <2>5. r = [addr |-> addr, symbol |-> T[m][2], offset |-> addr - T[m][1]]
        BY <1>2, <1>6, <2>4
    <2>6. ASSUME NEW t \in Range(Symbols) PROVE t[1] <= T[m][1] \/ t[1] > addr
        <3>1. PICK i \in 1 .. n : T[i] = t
            BY <1>1
        <3>2. CASE i \in B
            <4>1. i = m \/ i < m
                BY <2>2, <2>3, <3>2
            <4> QED
                BY <1>1, <2>2, <3>1, <4>1
        <3>3. CASE i \notin B
            <4>1. ~(T[i][1] < addr) /\ T[i][1] # addr
                BY <1>4, <1>6, <3>3
            <4> QED
                BY <1>1, <3>1, <4>1
        <3> QED
            BY <3>2, <3>3
    <2>7. T[m] \in Range(Symbols) /\ T[m][1] + (addr - T[m][1]) = addr
        BY <1>1, <2>2
    <2> QED
        BY <2>5, <2>6, <2>7 DEF Nearest, r
<1>7. CASE E = {} /\ B = {}
    <2>1. pos = 0
        BY <1>7, FS_EmptySet DEF pos
    <2>2. r = [addr |-> addr, symbol |-> "<unknown>", offset |-> addr]
        BY <1>2, <1>7, <2>1
    <2>3. ASSUME NEW t \in Range(Symbols) PROVE t[1] > addr
        <3>1. PICK i \in 1 .. n : T[i] = t
            BY <1>1
        <3>2. ~(T[i][1] < addr) /\ T[i][1] # addr
            BY <1>4, <1>7
        <3> QED
            BY <1>1, <3>1, <3>2
    <2> QED
        BY <2>2, <2>3 DEF Nearest, r
<1> QED
    BY <1>5, <1>6, <1>7

-----------------------------------------------------------------------------
(* What the symbolizer prints. *)

\* The addresses of an event are words.
Located(ev) ==
    /\ ev.op \in {"exec", "read", "write"} => ev.pc \in Words
    /\ ev.op \in {"read", "write"} => ev.addr \in Words

\* A field of a chunk, as a word.
LEMMA FieldWord ==
    ASSUME NEW b \in Seq(Byte), NEW at \in Nat, NEW n \in Nat, at + n <= Len(b)
    PROVE  U64(Field(b, at, n)) \in Words
<1> DEFINE f == Field(b, at, n)
<1>1. f \in [1 .. n -> Byte] /\ Len(f) = n
    BY FieldType
<1> HIDE DEF f
<1>2. \A i \in 1 .. 8 : (IF i <= Len(f) THEN f[i] ELSE 0) \in Byte
    <2>1. 0 \in Byte
        BY DEF Byte
    <2>2. ASSUME NEW i \in 1 .. 8, i <= Len(f) PROVE f[i] \in Byte
        BY <1>1, <2>2
    <2> QED
        BY <2>1, <2>2
<1>3. U64(f) \in Words
    BY <1>2 DEF U64, Words, Bytes
<1> QED
    BY <1>3 DEF f

\* The event of a packet, whatever the packet's bytes are.
LEMMA PacketLocated ==
    ASSUME NEW feature, NEW b \in Seq(Byte), b # <<>>, ParsePacket(feature, b).out = "event"
    PROVE  Located(ParsePacket(feature, b).ev)
<1> DEFINE n == Wide(b)  r == Tail(b)  op == b[1] % 128  p == ParsePacket(feature, b)
<1>1. r \in Seq(Byte) /\ Len(r) \in Nat
    BY HeadTailProperties, LenProperties
<1>2. n \in {4, 8}
    BY DEF Wide
<1>4. ASSUME NEW ev, NEW rest, ev.op \notin {"exec", "read", "write"}, p = Event(ev, rest)
      PROVE  Located(p.ev)
    BY <1>4 DEF Located, Event
<1>5. ASSUME NEW kind \in {"read", "write"}, NEW size \in Nat, p = ParseAccess(kind, n, size, r)
      PROVE  Located(p.ev)
    <2>1. ~(Len(r) < 2 * n + size)
        BY <1>5 DEF ParseAccess, Ends
    <2> DEFINE x == U64(Field(r, n + size, n))  y == U64(Field(r, 0, n))
               ev == [op |-> kind, pc |-> x, addr |-> y, val |-> U64(Field(r, n, size)),
                      size |-> size]
    <2>2. p = Event(ev, From(r, 2 * n + size))
        BY <1>5, <2>1, Zenon DEF ParseAccess
    <2>3. x \in Words
        <3>1. n \in Nat /\ n + size \in Nat /\ (n + size) + n <= Len(r)
            BY <1>1, <1>2, <1>5, <2>1
        <3> HIDE DEF n, r
        <3> QED
            BY <1>1, <3>1, FieldWord
    <2>4. y \in Words
        <3>1. n \in Nat /\ 0 \in Nat /\ 0 + n <= Len(r)
            BY <1>1, <1>2, <1>5, <2>1
        <3> HIDE DEF n, r
        <3> QED
            BY <1>1, <3>1, FieldWord
    <2>5. ev.op = kind /\ ev.pc = x /\ ev.addr = y
        OBVIOUS
    <2> HIDE DEF ev, p
    <2>6. p.ev = ev
        BY <2>2 DEF Event
    <2> QED
        BY <2>3, <2>4, <2>5, <2>6 DEF Located
<1>6. ASSUME p = ParseExec(n, r) PROVE Located(p.ev)
    <2>1. ~(Len(r) < n)
        BY <1>6 DEF ParseExec, Ends
    <2> DEFINE x == U64(Field(r, 0, n))  ev == [op |-> "exec", pc |-> x]
    <2>2. p = Event(ev, From(r, n))
        BY <1>6, <2>1, Zenon DEF ParseExec
    <2>3. x \in Words
        <3>1. n \in Nat /\ 0 \in Nat /\ 0 + n <= Len(r)
            BY <1>1, <1>2, <2>1
        <3> HIDE DEF n, r
        <3> QED
            BY <1>1, <3>1, FieldWord
    <2>4. ev.op = "exec" /\ ev.pc = x
        OBVIOUS
    <2> HIDE DEF ev, p
    <2>5. p.ev = ev
        BY <2>2 DEF Event
    <2> QED
        BY <2>3, <2>4, <2>5 DEF Located
<1>7. ASSUME p = ParseRegs(n, r) PROVE Located(p.ev)
    <2>1. \E ev, rest : p = Event(ev, rest) /\ ev.op = "regs"
        BY <1>7 DEF ParseRegs, Ends
    <2> HIDE DEF p
    <2> QED
        BY <1>4, <2>1
<1>8. ASSUME p = ParseBranch(n, r) PROVE Located(p.ev)
    <2>1. \E ev, rest : p = Event(ev, rest) /\ ev.op = "branch"
        BY <1>8 DEF ParseBranch, Ends
    <2> HIDE DEF p
    <2> QED
        BY <1>4, <2>1
<1>9. ASSUME p = ParseMmap(n, r) PROVE Located(p.ev)
    <2>1. \E ev, rest : p = Event(ev, rest) /\ ev.op = "mmap"
        BY <1>9 DEF ParseMmap, Ends
    <2> HIDE DEF p
    <2> QED
        BY <1>4, <2>1
<1>10. ASSUME p = ParseMunmap(n, r) PROVE Located(p.ev)
    <2>1. \E ev, rest : p = Event(ev, rest) /\ ev.op = "munmap"
        BY <1>10 DEF ParseMunmap, Ends
    <2> HIDE DEF p
    <2> QED
        BY <1>4, <2>1
<1>11. ASSUME p = ParseSyscall(feature, r) PROVE Located(p.ev)
    <2>1. \E ev, rest : p = Event(ev, rest) /\ ev.op = "syscall"
        BY <1>11 DEF ParseSyscall, Ends
    <2> HIDE DEF p
    <2> QED
        BY <1>4, <2>1
<1>12. p.out = "event"
    OBVIOUS
<1>13. \/ p = ParseExec(n, r)
       \/ p = ParseRegs(n, r)
       \/ p = ParseBranch(n, r)
       \/ p = ParseMmap(n, r)
       \/ p = ParseMunmap(n, r)
       \/ p = ParseSyscall(feature, r)
       \/ op \in {17, 18, 20, 24} /\ p = ParseAccess("read", n, op - 16, r)
       \/ op \in {33, 34, 36, 40} /\ p = ParseAccess("write", n, op - 32, r)
       \/ p = Ends("error")
    BY DEF ParsePacket, Wide
<1>14. p # Ends("error")
    BY <1>12 DEF Ends
<1>15. /\ op \in {17, 18, 20, 24} => op - 16 \in Nat
       /\ op \in {33, 34, 36, 40} => op - 32 \in Nat
    OBVIOUS
<1> HIDE DEF n, r, op, p
<1>16. Located(p.ev)
    BY <1>5, <1>6, <1>7, <1>8, <1>9, <1>10, <1>11, <1>13, <1>14, <1>15
<1> QED
    BY <1>16 DEF p

AllLocated(evs) == IsSeq(evs) /\ \A i \in 1 .. Len(evs) : Located(evs[i])

\* Every event of a chunk, whatever its bytes are.
LEMMA ParsedLocated ==
    ASSUME NEW feature, NEW b \in Seq(Byte)
    PROVE  AllLocated(Parsed(feature, b).evs)
<1> DEFINE S == {n \in Nat : \A c \in Seq(Byte) : Len(c) = n => AllLocated(Parsed(feature, c).evs)}
<1>1. ASSUME NEW x, NEW evs, evs = <<>> PROVE AllLocated([out |-> x, evs |-> evs].evs)
    <2>1. IsSeq(evs) /\ Len(evs) = 0
        BY <1>1 DEF IsSeq
    <2> QED
        BY <2>1 DEF AllLocated
<1>2. ASSUME NEW x, NEW ev, Located(ev), NEW evs, AllLocated(evs)
      PROVE  AllLocated([out |-> x, evs |-> <<ev>> \o evs].evs)
    <2>1. Len(<<ev>>) = 1 /\ <<ev>>[1] = ev
        OBVIOUS
    <2>2. PICK one : one = <<ev>> /\ Len(one) = 1 /\ one[1] = ev /\ IsSeq(one)
        BY <2>1, OneElement, Zenon
    <2>3. IsSeq(evs) /\ \A i \in 1 .. Len(evs) : Located(evs[i])
        BY <1>2 DEF AllLocated
    <2> DEFINE z == Cat(one, evs)  n == Len(evs)
    <2>4. /\ IsSeq(z) /\ n \in Nat /\ Len(z) = 1 + n
          /\ \A i \in 1 .. 1 + n : z[i] = IF i <= 1 THEN one[i] ELSE evs[i - 1]
        BY <2>2, <2>3, CatAt
    <2> HIDE DEF z
    <2>5. ASSUME NEW i \in 1 .. 1 + n PROVE Located(z[i])
        <3>1. CASE i <= 1
            <4>1. i = 1
                BY <3>1
            <4> QED
                BY <1>2, <2>2, <2>4, <3>1, <4>1
        <3>2. CASE ~(i <= 1)
            <4>1. i - 1 \in 1 .. n
                BY <2>4, <3>2
            <4> QED
                BY <2>3, <2>4, <3>2, <4>1
        <3> QED
            BY <3>1, <3>2
    <2>6. AllLocated(z)
        BY <2>4, <2>5 DEF AllLocated
    <2> QED
        BY <2>2, <2>6, Zenon DEF z, Cat
<1>3. ASSUME NEW n \in Nat, \A m \in Nat : m < n => m \in S PROVE n \in S
    <2>1. SUFFICES ASSUME NEW c \in Seq(Byte), Len(c) = n
                   PROVE  AllLocated(Parsed(feature, c).evs)
        OBVIOUS
    <2>2. CASE c = <<>>
        BY <1>1, <2>2, ParsedEmpty
    <2>3. CASE c # <<>>
        <3> DEFINE p == ParsePacket(feature, c)
        <3>1. CASE p.out # "event"
            <4>1. Parsed(feature, c) = [out |-> p.out, evs |-> <<>>]
                BY <2>3, <3>1, ParsedEnd
            <4> QED
                BY <1>1, <4>1
        <3>2. CASE p.out = "event"
            <4>1. p.rest \in Seq(Byte) /\ \E k \in 1 .. n : Len(p.rest) = n - k
                BY <2>1, <2>3, <3>2, Progress
            <4>2. Len(p.rest) \in Nat /\ Len(p.rest) < n
                BY <4>1
            <4>3. AllLocated(Parsed(feature, p.rest).evs)
                BY <1>3, <4>1, <4>2
            <4>4. Located(p.ev)
                BY <2>3, <3>2, PacketLocated
            <4>5. Parsed(feature, c) = [out |-> Parsed(feature, p.rest).out,
                                        evs |-> <<p.ev>> \o Parsed(feature, p.rest).evs]
                BY <2>3, <3>2, ParsedTurn
            <4> QED
                BY <1>2, <4>3, <4>4, <4>5
        <3> QED
            BY <3>1, <3>2
    <2> QED
        BY <2>2, <2>3
<1>4. Len(b) \in S
    <2> HIDE DEF S
    <2>1. \A n \in Nat : (\A m \in Nat : m < n => m \in S) => n \in S
        BY <1>3
    <2> QED
        BY <2>1, LenProperties, SetStrongInduction
<1> QED
    BY <1>4

\* An entry of the symbolizer's trace whose addresses have their nearest symbols.
NearEntry(e) == Nearest(e.pc) /\ (e.op # "exec" => Nearest(e.addr))
NearTrace(t) == IsSeq(t) /\ \A i \in 1 .. Len(t) : NearEntry(t[i])
NearState(st) == st = [out |-> st.out] /\ NearTrace(st.out)

\* A word is an address.
LEMMA NumNat ==
    ASSUME NEW b \in Words
    PROVE  Num(b) \in Nat
<1>1. b \in [1 .. 8 -> Byte] /\ Byte \subseteq Nat
    BY DEF Words, Bytes, Byte
<1>2. 1 \in 1 .. 8 /\ 2 \in 1 .. 8 /\ 3 \in 1 .. 8
    OBVIOUS
<1>3. b[1] \in Nat /\ b[2] \in Nat /\ b[3] \in Nat
    BY <1>1, <1>2, Zenon
<1> QED
    BY <1>3 DEF Num

\* What the symbolizer's callbacks push is near.
LEMMA CallbackNear ==
    ASSUME NEW ev, Located(ev)
    PROVE  NearTrace(Callback("symbolizer", ev))
<1> DEFINE t == Callback("symbolizer", ev)
<1>1. t = symbolizer_event(ev)
    BY DEF Callback
<1>2. ASSUME NEW x, NearEntry(x) PROVE NearTrace(<<x>>)
    <2>1. IsSeq(<<x>>) /\ Len(<<x>>) = 1 /\ <<x>>[1] = x
        BY OneElement
    <2>2. PICK one : one = <<x>> /\ IsSeq(one) /\ Len(one) = 1 /\ one[1] = x
        BY <2>1, Zenon
    <2>3. ASSUME NEW i \in 1 .. Len(one) PROVE NearEntry(one[i])
        <3>1. i = 1
            BY <2>2
        <3> QED
            BY <1>2, <2>2, <3>1
    <2> QED
        BY <2>2, <2>3 DEF NearTrace
<1> DEFINE pc == resolve(Num(ev.pc))  addr == resolve(Num(ev.addr))
<1>3. CASE ev.op = "exec"
    <2> DEFINE x == [op |-> "exec", pc |-> pc]
    <2>1. t = <<x>>
        BY <1>1, <1>3 DEF symbolizer_event
    <2>2. Nearest(pc)
        BY <1>3, NumNat, ResolveNearest DEF Located
    <2> HIDE DEF pc, t
    <2>3. x.pc = pc /\ x.op = "exec"
        OBVIOUS
    <2> HIDE DEF x
    <2>4. NearEntry(x)
        BY <2>2, <2>3 DEF NearEntry
    <2> QED
        BY <1>2, <2>1, <2>4 DEF t
<1>4. CASE ev.op \in {"read", "write"}
    <2> DEFINE x == [op |-> ev.op, pc |-> pc, addr |-> addr, val |-> ev.val, size |-> ev.size]
    <2>1. t = <<x>>
        BY <1>1, <1>4 DEF symbolizer_event
    <2>2. Nearest(pc) /\ Nearest(addr)
        BY <1>4, NumNat, ResolveNearest DEF Located
    <2> HIDE DEF pc, addr, t
    <2>3. x.pc = pc /\ x.addr = addr
        OBVIOUS
    <2> HIDE DEF x
    <2>4. NearEntry(x)
        BY <2>2, <2>3 DEF NearEntry
    <2> QED
        BY <1>2, <2>1, <2>4 DEF t
<1>5. CASE ev.op \notin {"exec", "read", "write"}
    <2> DEFINE none == <<>>
    <2>1. t = none
        BY <1>1, <1>5 DEF symbolizer_event
    <2>2. IsSeq(none) /\ Len(none) = 0
        BY DEF IsSeq
    <2> HIDE DEF none
    <2>3. NearTrace(none)
        BY <2>2 DEF NearTrace
    <2> QED
        BY <2>1, <2>3
<1> QED
    BY <1>3, <1>4, <1>5

\* The trace of a chunk is near, too.
LEMMA PushedNear ==
    ASSUME NEW evs, AllLocated(evs)
    PROVE  NearTrace(Pushed("symbolizer", evs))
<1> DEFINE program == "symbolizer"
<1>1. IsSeq(evs) /\ \A i \in 1 .. Len(evs) : Located(evs[i])
    BY DEF AllLocated
<1>2. PICK m \in Nat : m = Len(evs)
    BY <1>1, LenProperties DEF IsSeq
<1>3. PICK u : Pushing(program, evs, m, u) /\ Pushed(program, evs) = u[m]
    BY <1>2, PushedSteps, Zenon
<1>4. u[0] = <<>> /\ \A k \in 1 .. m : u[k] = Push(program, u[k - 1], evs[k])
    BY <1>3 DEF Pushing
<1> DEFINE S == {k \in Nat : k <= m => NearTrace(u[k])}
<1>5. 0 \in S
    <2> DEFINE none == <<>>
    <2>1. IsSeq(none) /\ Len(none) = 0
        BY DEF IsSeq
    <2> HIDE DEF none
    <2>2. NearTrace(none)
        BY <2>1 DEF NearTrace
    <2> QED
        BY <1>4, <2>2 DEF none
<1>6. ASSUME NEW k \in Nat, k \in S PROVE k + 1 \in S
    <2>1. SUFFICES ASSUME k + 1 <= m PROVE NearTrace(u[k + 1])
        OBVIOUS
    <2>2. k + 1 \in 1 .. m /\ (k + 1) - 1 = k /\ k <= m
        BY <2>1
    <2> DEFINE v == u[k]  ev == evs[k + 1]  e == Callback(program, ev)
    <2>3. NearTrace(v) /\ u[k + 1] = Cat(v, e) /\ Located(ev)
        BY <1>1, <1>2, <1>4, <1>6, <2>2 DEF Push
    <2>4. NearTrace(e)
        BY <2>3, CallbackNear
    <2> HIDE DEF v, ev, e
    <2> DEFINE d == Cat(v, e)  a == Len(v)  b == Len(e)
    <2>5. /\ IsSeq(v) /\ IsSeq(e)
          /\ \A i \in 1 .. a : NearEntry(v[i])
          /\ \A i \in 1 .. b : NearEntry(e[i])
        BY <2>3, <2>4 DEF NearTrace
    <2>6. /\ IsSeq(d) /\ a \in Nat /\ b \in Nat /\ Len(d) = a + b
          /\ \A i \in 1 .. a + b : d[i] = IF i <= a THEN v[i] ELSE e[i - a]
        BY <2>5, CatAt
    <2> HIDE DEF d, a, b
    <2>7. ASSUME NEW i \in 1 .. a + b PROVE NearEntry(d[i])
        <3>1. CASE i <= a
            <4>1. i \in 1 .. a /\ d[i] = v[i]
                BY <2>6, <3>1
            <4> QED
                BY <2>5, <4>1
        <3>2. CASE ~(i <= a)
            <4>1. i - a \in 1 .. b /\ d[i] = e[i - a]
                BY <2>6, <3>2
            <4> QED
                BY <2>5, <4>1
        <3> QED
            BY <3>1, <3>2
    <2>8. NearTrace(d)
        BY <2>6, <2>7 DEF NearTrace
    <2> QED
        BY <2>3, <2>8 DEF d
<1>7. m \in S
    <2> HIDE DEF S
    <2>1. \A k \in Nat : k \in S => k + 1 \in S
        BY <1>6
    <2> QED
        BY <1>5, <2>1, SetInduction
<1> QED
    BY <1>3, <1>7

\* One more line is printed.
LEMMA AppendNear ==
    ASSUME NEW t, NEW e, NearTrace(t), NearEntry(e)
    PROVE  NearTrace(Append(t, e))
<1> DEFINE d == Append(t, e)  n == Len(t)
<1>1. IsSeq(t) /\ \A i \in 1 .. n : NearEntry(t[i])
    BY DEF NearTrace
<1>2. IsSeq(d) /\ n \in Nat /\ Len(d) = n + 1 /\ (\A i \in 1 .. n : d[i] = t[i]) /\ d[n + 1] = e
    BY <1>1, AppendKnown
<1> HIDE DEF d, n
<1>3. ASSUME NEW i \in 1 .. n + 1 PROVE NearEntry(d[i])
    <2>1. i \in 1 .. n \/ i = n + 1
        BY <1>2
    <2> QED
        BY <1>1, <1>2, <2>1
<1>4. NearTrace(d)
    BY <1>2, <1>3 DEF NearTrace
<1> QED
    BY <1>4 DEF d

\* What is printed of a near trace is near.
LEMMA TracedNear ==
    ASSUME NEW st, NEW t, NearState(st), NearTrace(t)
    PROVE  NearState(Traced("symbolizer", st, t))
<1> DEFINE program == "symbolizer"
<1>1. IsSeq(t) /\ \A i \in 1 .. Len(t) : NearEntry(t[i])
    BY DEF NearTrace
<1>2. PICK m \in Nat : m = Len(t)
    BY <1>1, LenProperties DEF IsSeq
<1>3. PICK u : Tracing(program, st, t, m, u) /\ Traced(program, st, t) = u[m]
    BY <1>2, TracedSteps
<1>4. u[0] = st /\ \A k \in 1 .. m : u[k] = TraceEntry(program, u[k - 1], t[k])
    BY <1>3 DEF Tracing
<1> DEFINE S == {k \in Nat : k <= m => NearState(u[k])}
<1>5. 0 \in S
    BY <1>4
<1>6. ASSUME NEW k \in Nat, k \in S PROVE k + 1 \in S
    <2>1. SUFFICES ASSUME k + 1 <= m PROVE NearState(u[k + 1])
        OBVIOUS
    <2>2. k + 1 \in 1 .. m /\ (k + 1) - 1 = k /\ k <= m
        BY <2>1
    <2> DEFINE v == u[k]  e == t[k + 1]  o == v.out  d == Append(o, e)
    <2>3. NearState(v) /\ NearEntry(e) /\ u[k + 1] = TraceEntry(program, v, e)
        BY <1>1, <1>2, <1>4, <1>6, <2>2
    <2>4. u[k + 1] = [v EXCEPT !.out = d]
        BY <2>3 DEF TraceEntry, symbolizer_trace
    <2>5. v = [out |-> o] /\ NearTrace(o)
        BY <2>3 DEF NearState
    <2>6. NearTrace(d)
        BY <2>3, <2>5, AppendNear
    <2> HIDE DEF v, e, o, d
    <2> DEFINE after == u[k + 1]
    <2>7. after = [out |-> d]
        BY <2>4, <2>5
    <2> HIDE DEF after
    <2>8. after.out = d
        BY <2>7
    <2>9. NearState(after)
        BY <2>6, <2>7, <2>8 DEF NearState
    <2> QED
        BY <2>9 DEF after
<1>7. m \in S
    <2> HIDE DEF S
    <2>1. \A k \in Nat : k \in S => k + 1 \in S
        BY <1>6
    <2> QED
        BY <1>5, <2>1, SetInduction
<1> QED
    BY <1>3, <1>7

\* What is printed and what waits to be printed is near.
NearTraces(ts) == IsSeq(ts) /\ \A i \in 1 .. Len(ts) : NearTrace(ts[i])
SymOK == setup.client = "symbolizer" => NearState(client) /\ NearTraces(traces)
SymInv == LoadInv /\ SymOK

\* Initially nothing is printed.
LEMMA InitSym ==
    ASSUME Init
    PROVE  SymInv
<1> DEFINE none == <<>>
<1>1. SUFFICES ASSUME setup.client = "symbolizer" PROVE NearState(client) /\ NearTraces(traces)
    BY InitLoad DEF SymInv, SymOK
<1>2. client = [out |-> none] /\ traces = none
    BY <1>1 DEF Init, InitialState
<1>3. IsSeq(none) /\ Len(none) = 0
    BY DEF IsSeq
<1> HIDE DEF none
<1>4. NearTrace(none) /\ NearTraces(none) /\ client.out = none
    BY <1>2, <1>3 DEF NearTrace, NearTraces
<1> QED
    BY <1>2, <1>4 DEF NearState

\* Steps of the guest print nothing.
LEMMA SymKept ==
    ASSUME SymOK, UNCHANGED <<setup, traces, client>>
    PROVE  SymOK'
BY DEF SymOK

\* A thread parses a chunk, whose addresses are resolved.
LEMMA ParseSym ==
    ASSUME SymInv, Parse
    PROVE  SymOK'
<1> DEFINE r == Parsed(setup.feature, Head(sent).bytes)  f == server'.failed
<1>1. ServerOK /\ SymOK
    BY DEF SymInv, LoadInv, PipelineInv
<1>2. /\ setup' = setup /\ client' = client /\ f \in Nat
      /\ f > 0 => traces' = traces
      /\ ~(f > 0) => traces' = Append(traces, Pushed(setup.client, r.evs))
    BY <1>1, ParseDoes
<1>3. SUFFICES ASSUME setup.client = "symbolizer" PROVE NearState(client) /\ NearTraces(traces')
    BY <1>2 DEF SymOK
<1>4. NearState(client) /\ NearTraces(traces)
    BY <1>1, <1>3 DEF SymOK
<1>5. AllLocated(r.evs)
    <2> DEFINE W == Waiting(setup.client, setup.feature, odd, ChunkSize[setup.lib.inst])
    <2>1. sent \in Seq(W) /\ sent # <<>>
        BY DEF SymInv, LoadInv, BuffersOK, Held, Parse, CanParse
    <2>2. Head(sent) \in W
        <3> HIDE DEF W
        <3> QED
            BY <2>1, HeadOf
    <2>3. Head(sent).bytes \in Seq(Byte)
        BY <2>2 DEF Waiting, Chunks, Buffers
    <2> QED
        BY <2>3, ParsedLocated
<1> DEFINE p == Pushed("symbolizer", r.evs)
<1>6. NearTrace(p)
    BY <1>5, PushedNear
<1>7. f > 0 => traces' = traces
    BY <1>2
<1>8. ~(f > 0) => traces' = Append(traces, p)
    BY <1>2, <1>3
<1> HIDE DEF p, r, f
<1> DEFINE d == Append(traces, p)  n == Len(traces)
<1>9. IsSeq(traces) /\ \A i \in 1 .. n : NearTrace(traces[i])
    BY <1>4 DEF NearTraces
<1>10. /\ IsSeq(d) /\ n \in Nat /\ Len(d) = n + 1
       /\ (\A i \in 1 .. n : d[i] = traces[i]) /\ d[n + 1] = p
    BY <1>9, AppendKnown
<1> HIDE DEF d, n
<1>11. ASSUME NEW i \in 1 .. n + 1 PROVE NearTrace(d[i])
    <2>1. i \in 1 .. n \/ i = n + 1
        BY <1>10
    <2> QED
        BY <1>6, <1>9, <1>10, <2>1
<1>12. NearTraces(d)
    BY <1>10, <1>11 DEF NearTraces
<1> QED
    BY <1>4, <1>7, <1>8, <1>12 DEF d

\* The first trace is printed.
LEMMA TraceSym ==
    ASSUME SymInv, Trace
    PROVE  SymOK'
<1> DEFINE h == Head(traces)  z == Tail(traces)
<1>1. traces # <<>> /\ traces' = z /\ setup' = setup
    BY DEF Trace
<1>2. client' = client \/ client' = Traced(setup.client, client, h)
    BY DEF Trace
<1>3. SUFFICES ASSUME setup.client = "symbolizer" PROVE NearState(client') /\ NearTraces(z)
    BY <1>1 DEF SymOK
<1>4. NearState(client) /\ IsSeq(traces) /\ \A i \in 1 .. Len(traces) : NearTrace(traces[i])
    BY <1>3 DEF SymInv, SymOK, NearTraces
<1>5. PICK T : traces \in Seq(T)
    BY <1>4 DEF IsSeq
<1>6. PICK m \in Nat : Len(traces) = m + 1
    <2>1. Len(traces) \in Nat /\ Len(traces) # 0
        BY <1>1, <1>5, EmptySeq, LenProperties
    <2>2. Len(traces) - 1 \in Nat /\ Len(traces) = (Len(traces) - 1) + 1
        BY <2>1
    <2> QED
        BY <2>2
<1>7. z \in Seq(T) /\ Len(z) = m /\ (\A i \in 1 .. m : z[i] = traces[i + 1]) /\ h = traces[1]
    <2>1. Tail(traces) \in Seq(T) /\ Len(Tail(traces)) = Len(traces) - 1
          /\ (\A i \in 1 .. Len(Tail(traces)) : Tail(traces)[i] = traces[i + 1])
          /\ Head(traces) = traces[1]
        BY <1>1, <1>5, HeadTailProperties
    <2>2. Len(Tail(traces)) = m
        BY <1>6, <2>1
    <2> QED
        BY <2>1, <2>2
<1> HIDE DEF h, z
<1>8. NearTrace(h)
    BY <1>4, <1>6, <1>7
<1>9. ASSUME NEW i \in 1 .. m PROVE NearTrace(z[i])
    <2>1. i + 1 \in 1 .. Len(traces)
        BY <1>6
    <2> QED
        BY <1>4, <1>7, <2>1
<1>10. NearTraces(z)
    BY <1>7, <1>9 DEF NearTraces, IsSeq
<1>11. NearState(client')
    BY <1>2, <1>3, <1>4, <1>8, TracedNear
<1> QED
    BY <1>10, <1>11

\* Every step keeps what is printed and what waits near.
LEMMA NextSym ==
    ASSUME SymInv, [Next]_vars
    PROVE  SymInv'
<1>1. LoadInv /\ GuestOK /\ SymOK
    BY DEF SymInv, LoadInv, PipelineInv
<1>2. LoadInv'
    BY <1>1, NextLoad
<1>3. SUFFICES SymOK'
    BY <1>2 DEF SymInv
<1>4. CASE Running
    <2>1. PICK bb_end, next, a, why : Execute(bb_end, a, next, why)
        BY <1>4, Zenon DEF Running
    <2>2. UNCHANGED <<setup, traces, client>>
        BY <2>1 DEF Execute, server_vars
    <2> QED
        BY <1>1, <2>2, SymKept
<1>5. CASE Reporting
    <2>1. PICK packet, ev, why : Report(packet, ev, why)
        BY <1>5, Zenon DEF Reporting
    <2>2. UNCHANGED <<setup, traces, client>>
        BY <2>1 DEF Report, server_vars
    <2> QED
        BY <1>1, <2>2, SymKept
<1>6. CASE JitExit
    BY <1>1, <1>6, SymKept DEF JitExit, server_vars
<1>7. CASE Retranslate
    BY <1>1, <1>7, SymKept DEF Retranslate, server_vars
<1>8. CASE FailedCall
    BY <1>1, <1>8, SymKept DEF FailedCall, server_vars
<1>9. CASE Unblock
    BY <1>1, <1>9, SymKept DEF Unblock, server_vars
<1>10. CASE Parse
    BY <1>10, ParseSym
<1>11. CASE Trace
    BY <1>11, TraceSym
<1>12. CASE UNCHANGED vars
    BY <1>1, <1>12, SymKept DEF vars
<1>13. CASE Guest
    BY <1>1, <1>4, <1>5, <1>6, <1>7, <1>8, <1>9, <1>13, GuestSteps
<1> QED
    BY <1>10, <1>11, <1>12, <1>13, Zenon DEF Next

\* Whatever the symbols and their order in the file, and whatever a chunk says, the
\* symbolizer names the nearest symbol at or below each address: the binary search
\* in the sorted table finds it. (symbolizer resolve, init_tid, trace)
THEOREM SymbolsNearestTheorem == Spec => []SymbolsNearest
<1>1. SymInv => SymbolsNearest
    <2>1. SUFFICES ASSUME SymInv, setup.client = "symbolizer", NEW i \in DOMAIN client.out
                   PROVE  NearEntry(client.out[i])
        BY DEF SymbolsNearest, NearEntry
    <2>2. NearTrace(client.out)
        BY <2>1 DEF SymInv, SymOK, NearState
    <2> DEFINE o == client.out
    <2>3. IsSeq(o) /\ \A k \in 1 .. Len(o) : NearEntry(o[k])
        BY <2>2 DEF NearTrace
    <2> HIDE DEF o
    <2>4. DOMAIN o = 1 .. Len(o)
        BY <2>3, LenProperties DEF IsSeq
    <2> QED
        BY <2>1, <2>3, <2>4 DEF o
<1>2. Init => SymInv
    BY InitSym
<1>3. SymInv /\ [Next]_vars => SymInv'
    BY NextSym
<1> QED
    BY <1>1, <1>2, <1>3, PTL DEF Spec

-----------------------------------------------------------------------------
(* Addresses as numbers. *)

Small == 0 .. AddressBound - 1

\* A small number is what its three bytes say.
LEMMA ThreeBytes ==
    ASSUME NEW n \in Small
    PROVE  n \in Nat /\ (n % 256) + 256 * ((n \div 256) % 256) + 65536 * ((n \div 65536) % 256) = n
<1>0. n \in Nat /\ n < AddressBound
    BY BoundType DEF Small
<1>1. n < 16777216
    BY <1>0, SMT DEF AddressBound
<1> DEFINE q == n \div 256  r == n % 256  u == q \div 256  v == q % 256
<1>2. q \in Nat /\ r \in Nat /\ n = 256 * q + r /\ q < 65536
    BY <1>0, <1>1, SMT
<1>3. n \div 65536 = u
    BY <1>0
<1> HIDE DEF q, r
<1>4. u \in Nat /\ v \in Nat /\ q = 256 * u + v /\ u < 256
    BY <1>2
<1>5. u % 256 = u
    BY <1>4
<1> HIDE DEF u, v
<1>6. r + 256 * v + 65536 * u = n
    BY <1>2, <1>4
<1> QED
    BY <1>0, <1>3, <1>5, <1>6 DEF q, r, v

\* An address below the bound is found again.
LEMMA NumAddress ==
    ASSUME Target, NEW n \in Small
    PROVE  n \in Nat /\ Address(n) \in Words /\ Num(Address(n)) = n
<1> DEFINE a == Address(n)
<1>1. n \in Nat /\ (n % 256) + 256 * ((n \div 256) % 256) + 65536 * ((n \div 65536) % 256) = n
    BY ThreeBytes
<1>2. a \in Words /\ \A i \in 1 .. 3 : a[i] = Word(n, 3)[i]
    BY <1>1, AddressParts
<1>3. Word(n, 3)[1] = n % 256 /\ Word(n, 3)[2] = (n \div 256) % 256
      /\ Word(n, 3)[3] = (n \div 65536) % 256
    BY DEF Word
<1> HIDE DEF a
<1>4. a[1] = n % 256 /\ a[2] = (n \div 256) % 256 /\ a[3] = (n \div 65536) % 256
    BY <1>2, <1>3
<1>5. Num(a) = n
    BY <1>1, <1>4 DEF Num
<1> QED
    BY <1>1, <1>2, <1>5 DEF a

-----------------------------------------------------------------------------
(* What the client becomes by events more. *)

\* The effect of more events is what their entries do.
LEMMA ConsumedMore ==
    ASSUME NEW program \in Programs, NEW p, NEW g, IsSeq(p), IsSeq(g)
    PROVE  Consumed(program, Cat(p, g)) = Traced(program, Consumed(program, p), Pushed(program, g))
<1> DEFINE e == Pushed(program, g)  init == InitialState(program)  s == Pushed(program, p)
<1>1. Pushed(program, Cat(p, g)) = Cat(s, e) /\ IsSeq(s) /\ IsSeq(e)
    BY PushedCat
<1>2. Traced(program, init, Cat(s, e)) = Traced(program, Traced(program, init, s), e)
    BY <1>1, TracedCat
<1> QED
    BY <1>1, <1>2 DEF Consumed

\* One event pushes what its callback says.
LEMMA PushedOne ==
    ASSUME NEW program \in Programs, NEW ev
    PROVE  Pushed(program, <<ev>>) = Callback(program, ev)
<1> DEFINE none == <<>>
<1>0. Len(<<ev>>) = 1 /\ <<ev>>[1] = ev
    OBVIOUS
<1>1. PICK one : one = <<ev>> /\ Len(one) = 1 /\ one[1] = ev
    BY <1>0, Zenon
<1>2. PICK n \in Nat : n = 1 /\ n = Len(one)
    BY <1>1
<1>3. n \in 1 .. n /\ n - 1 = 0
    BY <1>2
<1>4. PICK u : Pushing(program, one, n, u) /\ Pushed(program, one) = u[n]
    BY <1>2, PushedSteps
<1> DEFINE c == Callback(program, ev)
<1>5. IsSeq(c)
    BY CallbackSeq
<1> HIDE DEF c
<1>6. u[n] = Push(program, u[n - 1], one[n]) /\ u[0] = none
    BY <1>3, <1>4 DEF Pushing
<1>7. u[n] = Cat(none, c)
    BY <1>1, <1>2, <1>3, <1>6 DEF Push, c
<1>8. Cat(none, c) = c
    <2>1. PICK S : c \in Seq(S)
        BY <1>5 DEF IsSeq
    <2> QED
        BY <2>1 DEF Cat
<1> QED
    BY <1>1, <1>4, <1>7, <1>8 DEF c

\* Events no callback says anything about push nothing.
LEMMA PushedSilent ==
    ASSUME NEW program, NEW evs, IsSeq(evs),
           \A i \in 1 .. Len(evs) : Callback(program, evs[i]) = <<>>
    PROVE  Pushed(program, evs) = <<>>
<1> DEFINE none == <<>>
<1>0. Len(evs) \in Nat
    BY LenProperties DEF IsSeq
<1>1. PICK n \in Nat : n = Len(evs)
    BY <1>0
<1>2. PICK u : Pushing(program, evs, n, u) /\ Pushed(program, evs) = u[n]
    BY <1>1, PushedSteps
<1>3. u[0] = none /\ \A k \in 1 .. n : u[k] = Push(program, u[k - 1], evs[k])
    BY <1>2 DEF Pushing
<1>4. Cat(none, none) = none
    BY DEF Cat
<1>5. \A k \in 1 .. n : Callback(program, evs[k]) = none
    BY <1>1
<1> HIDE DEF none
<1> DEFINE S == {k \in Nat : k <= n => u[k] = none}
<1>6. 0 \in S
    BY <1>3
<1>7. ASSUME NEW k \in Nat, k \in S PROVE k + 1 \in S
    <2>1. SUFFICES ASSUME k + 1 <= n PROVE u[k + 1] = none
        OBVIOUS
    <2>2. k + 1 \in 1 .. n /\ (k + 1) - 1 = k /\ u[k] = none
        BY <1>7, <2>1
    <2>3. u[k + 1] = Push(program, u[k], evs[k + 1])
        BY <1>3, <2>2
    <2> QED
        BY <1>4, <1>5, <2>2, <2>3 DEF Push
<1>8. n \in S
    <2> HIDE DEF S
    <2>1. \A k \in Nat : k \in S => k + 1 \in S
        BY <1>7
    <2> QED
        BY <1>6, <2>1, SetInduction
<1> QED
    BY <1>2, <1>8 DEF none

\* Events the callbacks say the same about push the same.
LEMMA PushedAlike ==
    ASSUME NEW program, NEW s, NEW t, NEW n \in Nat, n = Len(s), n = Len(t),
           \A i \in 1 .. n : Callback(program, s[i]) = Callback(program, t[i])
    PROVE  Pushed(program, s) = Pushed(program, t)
<1>1. PICK u : Pushing(program, s, n, u) /\ Pushed(program, s) = u[n]
    BY PushedSteps
<1>2. PICK v : Pushing(program, t, n, v) /\ Pushed(program, t) = v[n]
    BY PushedSteps
<1>3. /\ u[0] = <<>> /\ \A k \in 1 .. n : u[k] = Push(program, u[k - 1], s[k])
      /\ v[0] = <<>> /\ \A k \in 1 .. n : v[k] = Push(program, v[k - 1], t[k])
    BY <1>1, <1>2 DEF Pushing
<1> DEFINE S == {k \in Nat : k <= n => u[k] = v[k]}
<1>4. 0 \in S
    BY <1>3
<1>5. ASSUME NEW k \in Nat, k \in S PROVE k + 1 \in S
    <2>1. SUFFICES ASSUME k + 1 <= n PROVE u[k + 1] = v[k + 1]
        OBVIOUS
    <2>2. k + 1 \in 1 .. n /\ (k + 1) - 1 = k /\ u[k] = v[k]
        BY <1>5, <2>1
    <2>3. u[k + 1] = Push(program, u[k], s[k + 1]) /\ v[k + 1] = Push(program, v[k], t[k + 1])
        BY <1>3, <2>2
    <2>4. Callback(program, s[k + 1]) = Callback(program, t[k + 1])
        BY <2>2
    <2> QED
        BY <2>2, <2>3, <2>4 DEF Push
<1>6. n \in S
    <2> HIDE DEF S
    <2>1. \A k \in Nat : k \in S => k + 1 \in S
        BY <1>5
    <2> QED
        BY <1>4, <2>1, SetInduction
<1> QED
    BY <1>1, <1>2, <1>6

\* The coverage and the backtrace do not look at data.
LEMMA Unread ==
    ASSUME NEW program \in {"coverage", "backtrace"}, NEW ev, ev.op \in {"read", "write", "syscall"}
    PROVE  Callback(program, ev) = <<>>
<1>1. CASE program = "coverage"
    <2>1. coverage_event(ev) = <<>>
        BY DEF coverage_event
    <2> QED
        BY <1>1, <2>1 DEF Callback
<1>2. CASE program = "backtrace"
    <2>1. backtrace_event(ev) = <<>>
        BY DEF backtrace_event
    <2> QED
        BY <1>2, <2>1 DEF Callback
<1> QED
    BY <1>1, <1>2

\* When nothing is on its way these clients are where what happened brings them.
LEMMA IdleConsumed ==
    ASSUME ClientInv, Idle, "placeholder" \notin odd, setup.client \in {"coverage", "backtrace"}
    PROVE  client = Consumed(setup.client, executed)
<1> DEFINE feature == setup.feature  program == setup.client  none == <<>>
<1>1. /\ PipelineInv /\ chunk = none /\ sent = none /\ traces = <<>> /\ server.failed = 0
    BY DEF ClientInv, LoadInv, Idle
<1>2. Faith(program, feature, odd, server.failed, parsed, sent, chunk, executed)
    BY <1>1 DEF PipelineInv, FaithOK
<1>3. PICK t : Alike(program, odd, t, executed) /\ Told(feature, odd, parsed, sent, chunk, t)
    BY <1>1, <1>2 DEF Faith
<1>4. Told(feature, odd, parsed, none, none, t)
    BY <1>1, <1>3
<1>5. parsed = t
    BY <1>4, ToldAll
<1>6. Alike(program, odd, parsed, executed)
    BY <1>3, <1>5
<1>7. PICK n \in Nat : n = Len(executed) /\ n = Len(parsed)
    <2>1. Len(executed) \in Nat
        BY <1>6, LenProperties DEF Alike, IsSeq
    <2> QED
        BY <1>6, <2>1 DEF Alike
<1>8. ASSUME NEW i \in 1 .. n
      PROVE  Callback(program, parsed[i]) = Callback(program, executed[i])
    <2>1. SameEvent(program, odd, parsed[i], executed[i])
        BY <1>6, <1>7 DEF Alike
    <2>2. CASE parsed[i] = executed[i]
        BY <2>2
    <2>3. CASE executed[i].op = "read" /\ parsed[i].op = "read"
        BY <2>3, Unread
    <2> QED
        BY <2>1, <2>2, <2>3 DEF SameEvent
<1> HIDE DEF program
<1>9. Pushed(program, parsed) = Pushed(program, executed)
    BY <1>7, <1>8, PushedAlike
<1>10. client = Consumed(program, parsed)
    BY <1>1, AllConsumed DEF ChunksInvisible, program
<1> QED
    BY <1>9, <1>10 DEF Consumed, program

-----------------------------------------------------------------------------
(* Where the guest is. *)

\* An instruction leaves the guest where it leads, and remembers where it was.
LEMMA ExecuteGuest ==
    ASSUME NEW bb_end, NEW a, NEW next \in Guests, NEW why, Execute(bb_end, a, next, why)
    PROVE  /\ guest'.pc = next.pc /\ guest'.ra = next.ra /\ guest'.frames = next.frames
           /\ guest'.ran.frames = guest.frames
<1>1. guest' = [next EXCEPT !.steps = @ + 1, !.ran = [frames |-> guest.frames, ra |-> guest.ra]]
    BY DEF Execute
<1> DEFINE F == Seq(Frame)  Rans == [frames : F, ra : Nat]  n == next.steps + 1
           run == [frames |-> guest.frames, ra |-> guest.ra]
           g == [next EXCEPT !.steps = n, !.ran = run]
<1>2. next \in [pc : Nat, ra : Nat, frames : F, steps : Nat, ran : Rans] /\ guest' = g
    BY <1>1 DEF Guests
<1>3. run.frames = guest.frames
    OBVIOUS
<1> HIDE DEF F, Rans, n, run
<1>4. g.ran = run /\ g.pc = next.pc /\ g.ra = next.ra /\ g.frames = next.frames
    BY <1>2
<1> HIDE DEF g
<1> QED
    BY <1>2, <1>3, <1>4

\* After a return the frames below the last one that was called are left.
LEMMA ReturnedIs ==
    ASSUME NEW frames, Calls(frames), frames # <<>>
    PROVE  \E k \in Nat :
              /\ k + 1 <= Len(frames) /\ ~frames[k + 1].tail
              /\ \A i \in k + 2 .. Len(frames) : frames[i].tail
              /\ Returned(frames) \in Seq(Frame) /\ Len(Returned(frames)) = k
              /\ \A i \in 1 .. k : Returned(frames)[i] = frames[i]
<1> DEFINE S == {i \in DOMAIN frames : ~frames[i].tail}  n == Len(frames)  c == Max(S)
<1>1. frames \in Seq(Frame) /\ frames[1].tail = FALSE /\ n \in Nat /\ n >= 1
      /\ DOMAIN frames = 1 .. n
    BY DEF Calls
<1>2. S \in SUBSET (1 .. n) /\ S # {}
    <2>1. 1 \in 1 .. n
        BY <1>1
    <2>2. 1 \in S
        BY <1>1, <2>1
    <2> QED
        BY <1>1, <2>2
<1>3. Returned(frames) = SubSeq(frames, 1, c - 1)
    BY DEF Returned
<1>4. \A i \in 1 .. n : i \in S <=> ~frames[i].tail
    BY <1>1
<1> HIDE DEF S
<1>5. c \in S /\ \A i \in S : c >= i
    BY <1>1, <1>2, LargestOf
<1>6. c \in 1 .. n
    BY <1>2, <1>5
<1> HIDE DEF c
<1>7. PICK k \in Nat : k = c - 1 /\ c = k + 1 /\ k + 1 <= n
    BY <1>1, <1>6
<1>8. ~frames[k + 1].tail
    BY <1>4, <1>5, <1>6, <1>7
<1>9. ASSUME NEW i \in k + 2 .. n PROVE frames[i].tail
    <2>1. i \in 1 .. n /\ ~(c >= i)
        BY <1>1, <1>7
    <2> QED
        BY <1>4, <1>5, <2>1
<1> DEFINE left == SubSeq(frames, 1, k)
<1>10. left \in Seq(Frame) /\ Len(left) = k /\ \A i \in 1 .. k : left[i] = frames[i]
    BY <1>1, <1>7
<1> QED
    BY <1>3, <1>7, <1>8, <1>9, <1>10

\* The guest and where it returns to are below the bound.
NearFrames(frames) == \A i \in 1 .. Len(frames) : frames[i].ret \in Small
PlaceOK == guest.pc \in Small /\ guest.ra \in Small /\ NearFrames(guest.frames)

\* One frame more, the last one.
LEMMA PushedFrame ==
    ASSUME NEW frames, Calls(frames), NEW fr
    PROVE  /\ Len(frames) \in Nat /\ Len(Append(frames, fr)) = Len(frames) + 1
           /\ \A i \in 1 .. Len(frames) : Append(frames, fr)[i] = frames[i]
           /\ Append(frames, fr)[Len(frames) + 1] = fr
<1>1. IsSeq(frames)
    BY DEF Calls, IsSeq
<1> QED
    BY <1>1, AppendKnown

\* Where the last function returns to.
LEMMA LastReturns ==
    ASSUME NEW frames, Calls(frames), frames # <<>>
    PROVE  /\ Len(frames) \in Nat /\ Len(frames) \in 1 .. Len(frames)
           /\ Last(frames) = frames[Len(frames)]
<1>1. frames \in Seq(Frame) /\ Len(frames) \in Nat /\ Len(frames) >= 1
    BY DEF Calls
<1> QED
    BY <1>1 DEF Last

\* An instruction leads to such a place.
LEMMA RunningPlace ==
    ASSUME GuestOK, PlaceOK, Running
    PROVE  PlaceOK'
<1>1. PICK bb_end \in BOOLEAN, next \in Guests : \E a, why :
          Execute(bb_end, a, next, why) /\ Goes(bb_end, next, why)
    BY Zenon DEF Running
<1>2. PICK a, why : Execute(bb_end, a, next, why) /\ Goes(bb_end, next, why)
    BY <1>1
<1>3. guest'.pc = next.pc /\ guest'.ra = next.ra /\ guest'.frames = next.frames
    BY <1>2, ExecuteGuest
<1> DEFINE frames == guest.frames  on == guest.pc + 4  ret == Last(frames).ret
<1>4. /\ setup \in Setups /\ guest.pc \in Nat /\ Calls(frames) /\ AddressBound \in Nat
      /\ guest.pc \in Small /\ guest.ra \in Small /\ NearFrames(frames)
    BY BoundType DEF GuestOK, Guests, PlaceOK
<1>5. Functions[setup.client] \subseteq Small
    BY <1>4, SetupsAssumption DEF Small
<1>6. Onward => on \in Small
    BY <1>4 DEF Onward, Small
<1>7. frames # <<>> => ret \in Small
    BY <1>4, LastReturns DEF NearFrames
<1>8. SUFFICES next.pc \in Small /\ next.ra \in Small /\ NearFrames(next.frames)
    BY <1>3 DEF PlaceOK
<1> HIDE DEF frames, on, ret
<1>9. ASSUME NEW f \in Small, NEW r \in Small, NEW t, NEW next_frames,
             next_frames = Append(frames, [f |-> f, ret |-> r, tail |-> t])
      PROVE  NearFrames(next_frames)
    <2> DEFINE fr == [f |-> f, ret |-> r, tail |-> t]  n == Len(frames)
    <2>1. fr.ret \in Small
        OBVIOUS
    <2> HIDE DEF fr
    <2>2. /\ n \in Nat /\ Len(next_frames) = n + 1
          /\ \A i \in 1 .. n : next_frames[i] = frames[i]
          /\ next_frames[n + 1] = fr
        BY <1>4, <1>9, PushedFrame DEF fr
    <2>3. \A i \in 1 .. n + 1 : i \in 1 .. n \/ i = n + 1
        BY <2>2
    <2> QED
        BY <1>4, <2>1, <2>2, <2>3 DEF NearFrames
<1>10. CASE GoesOn(next, why)
    BY <1>4, <1>6, <1>10 DEF GoesOn, frames, on
<1>11. CASE GoesIn(next, why)
    <2>1. CASE \E f \in Functions[setup.client] : Onward /\ Enters(next, f, guest.pc + 4, FALSE)
        <3>1. PICK f \in Functions[setup.client] : Onward /\ Enters(next, f, on, FALSE)
            BY <2>1 DEF on
        <3> QED
            BY <1>5, <1>6, <1>9, <3>1 DEF Enters, frames
    <2>2. CASE \E f \in Functions[setup.client] :
                  guest.frames # <<>> /\ Enters(next, f, Last(guest.frames).ret, TRUE)
        <3>1. PICK f \in Functions[setup.client] : frames # <<>> /\ Enters(next, f, ret, TRUE)
            BY <2>2 DEF frames, ret
        <3> QED
            BY <1>5, <1>7, <1>9, <3>1 DEF Enters, frames
    <2> QED
        BY <1>11, <2>1, <2>2 DEF GoesIn
<1>12. CASE GoesBack(next)
    <2>1. frames # <<>> /\ next.frames = Returned(frames) /\ next.pc = ret /\ next.ra = ret
        BY <1>12 DEF GoesBack, frames, ret
    <2>2. PICK k \in Nat : /\ k + 1 <= Len(frames) /\ Len(Returned(frames)) = k
                           /\ \A i \in 1 .. k : Returned(frames)[i] = frames[i]
        BY <1>4, <2>1, ReturnedIs
    <2>3. Len(frames) \in Nat
        BY <1>4, <2>1, LastReturns
    <2>4. \A i \in 1 .. k : i \in 1 .. Len(frames)
        BY <2>2, <2>3
    <2>5. NearFrames(Returned(frames))
        BY <1>4, <2>2, <2>4 DEF NearFrames
    <2> QED
        BY <1>7, <2>1, <2>5
<1> QED
    BY <1>2, <1>10, <1>11, <1>12 DEF Goes

\* Steps that stay.
LEMMA PlaceKept ==
    ASSUME PlaceOK, guest'.pc = guest.pc, guest'.ra = guest.ra, guest'.frames = guest.frames
    PROVE  PlaceOK'
BY DEF PlaceOK

\* A reported call leaves the guest where it is.
LEMMA ReportGuest ==
    ASSUME guest \in Guests, NEW packet, NEW ev, NEW why, Report(packet, ev, why)
    PROVE  /\ guest'.pc = guest.pc /\ guest'.ra = guest.ra /\ guest'.frames = guest.frames
           /\ guest'.ran = guest.ran
<1> DEFINE F == Seq(Frame)  Rans == [frames : F, ra : Nat]  n == guest.steps + 1
           g == [guest EXCEPT !.steps = n]
<1>1. guest \in [pc : Nat, ra : Nat, frames : F, steps : Nat, ran : Rans] /\ guest' = g
    BY DEF Guests, Report
<1> HIDE DEF F, Rans, n
<1>2. g.pc = guest.pc /\ g.ra = guest.ra /\ g.frames = guest.frames /\ g.ran = guest.ran
    BY <1>1
<1> HIDE DEF g
<1> QED
    BY <1>1, <1>2

\* A report pushes what its callback says.
LEMMA ConsumedReport ==
    ASSUME IsSeq(executed), NEW program \in Programs, NEW packet, NEW ev, NEW why,
           Report(packet, ev, why)
    PROVE  Consumed(program, executed') =
               Traced(program, Consumed(program, executed), Callback(program, ev))
<1> DEFINE g == <<ev>>
<1>1. executed' = Append(executed, ev)
    BY DEF Report
<1>2. IsSeq(g) /\ Pushed(program, g) = Callback(program, ev)
    BY OneElement, PushedOne
<1>3. Append(executed, ev) = Cat(executed, g)
    <2>1. PICK S : executed \in Seq(S)
        BY DEF IsSeq
    <2>2. executed \in Seq(S \cup {ev}) /\ ev \in S \cup {ev}
        BY <2>1, SeqMonotonic, S \subseteq S \cup {ev}
    <2> QED
        BY <2>2, AppendIsConcat DEF Cat
<1> HIDE DEF g
<1>4. Consumed(program, Cat(executed, g)) =
          Traced(program, Consumed(program, executed), Pushed(program, g))
    BY <1>2, ConsumedMore
<1> QED
    BY <1>1, <1>2, <1>3, <1>4

\* Of an instruction these clients see the instruction only.
LEMMA ConsumedRunning ==
    ASSUME IsSeq(executed), NEW program \in {"coverage", "backtrace"}, NEW bb_end, NEW a,
           NEW next, NEW why, Execute(bb_end, a, next, why)
    PROVE  /\ Armed => Consumed(program, executed') =
                  Traced(program, Consumed(program, executed), Callback(program, InstEvent(bb_end)))
           /\ ~Armed => Consumed(program, executed') = Consumed(program, executed)
<1> DEFINE A == InstEvents(bb_end)  B == IF a = <<>> THEN <<>> ELSE MemEvents(a[1])
           st == Consumed(program, executed)  x == InstEvent(bb_end)  none == <<>>
<1>1. IsSeq(A) /\ IsSeq(B) /\ program \in Programs
    BY EventsSeq DEF Programs
<1>2. executed' = Cat(Cat(executed, A), B) /\ IsSeq(Cat(executed, A))
    <2>1. executed' = Cat(executed, EventsOf(bb_end, a))
        BY ExecutedMore
    <2>2. EventsOf(bb_end, a) = Cat(A, B)
        BY DEF EventsOf
    <2> HIDE DEF A, B
    <2> QED
        BY <1>1, <2>1, <2>2, CatAssoc
<1>3. Pushed(program, B) = none
    <2> DEFINE m == a[1]  y == HalfEvent(m, m.at, Value(m, m.data), 8)
               z == HalfEvent(m, m.at + 8, Value(m, m.hi), 8)
               v == HalfEvent(m, m.at, Value(m, m.data), m.size)
    <2>1. B \in {none, <<y, z>>, <<v>>}
        BY DEF MemEvents
    <2>2. y.op \in {"read", "write"} /\ z.op \in {"read", "write"} /\ v.op \in {"read", "write"}
        BY DEF HalfEvent
    <2> HIDE DEF y, z, v
    <2>3. \A i \in 1 .. Len(B) : B[i] \in {y, z, v}
        <3>1. CASE B = none
            <4>1. Len(none) = 0
                OBVIOUS
            <4> QED
                BY <3>1, <4>1
        <3>2. CASE B = <<y, z>>
            <4>1. Len(<<y, z>>) = 2 /\ <<y, z>>[1] = y /\ <<y, z>>[2] = z
                OBVIOUS
            <4>2. \A i \in 1 .. 2 : <<y, z>>[i] \in {y, z}
                BY <4>1
            <4> QED
                BY <3>2, <4>1, <4>2
        <3>3. CASE B = <<v>>
            <4>1. Len(<<v>>) = 1 /\ <<v>>[1] = v
                OBVIOUS
            <4>2. \A i \in 1 .. 1 : <<v>>[i] = v
                BY <4>1
            <4> QED
                BY <3>3, <4>1, <4>2
        <3> QED
            BY <2>1, <3>1, <3>2, <3>3
    <2> HIDE DEF B, none
    <2>4. \A i \in 1 .. Len(B) : B[i].op \in {"read", "write", "syscall"}
        BY <2>2, <2>3
    <2>5. \A i \in 1 .. Len(B) : Callback(program, B[i]) = <<>>
        BY <2>4, Unread
    <2>6. Pushed(program, B) = <<>>
        BY <1>1, <2>5, PushedSilent
    <2> QED
        BY <2>6 DEF none
<1>4. CASE Armed
    <2>1. A = <<x>>
        BY <1>4 DEF InstEvents
    <2>2. Pushed(program, <<x>>) = Callback(program, x)
        BY <1>1, PushedOne
    <2> DEFINE t == Traced(program, st, Callback(program, x))
    <2> HIDE DEF A, B, x, st, none
    <2>3. Consumed(program, Cat(executed, A)) = t
        BY <1>1, <2>1, <2>2, ConsumedMore DEF st
    <2> HIDE DEF t
    <2>4. Consumed(program, executed') = Traced(program, t, none)
        BY <1>1, <1>2, <1>3, <2>3, ConsumedMore
    <2>5. Traced(program, t, none) = t
        BY TracedSmall DEF none
    <2> QED
        BY <1>4, <2>4, <2>5 DEF t, st, x
<1>5. CASE ~Armed
    <2>1. A = none
        BY <1>5 DEF InstEvents
    <2>2. Pushed(program, none) = none
        BY PushedNone
    <2>3. Traced(program, st, none) = st
        BY TracedSmall
    <2> HIDE DEF A, B, x, st, none
    <2>4. Consumed(program, Cat(executed, A)) = st
        BY <1>1, <2>1, <2>2, <2>3, ConsumedMore DEF st
    <2>5. Consumed(program, executed') = st
        BY <1>1, <1>2, <1>3, <2>3, <2>4, ConsumedMore
    <2> QED
        BY <1>5, <2>5 DEF st
<1> QED
    BY <1>4, <1>5

-----------------------------------------------------------------------------
(* The coverage. *)

\* What the coverage client becomes by all that happened: its table has the
\* symbols as they are mapped, its coverage the locations that ran.  A location
\* whose hook does not fire again is covered already.
Judged ==
    /\ setup.client = "coverage" /\ setup.lib.inst \in {"Always", "Once"}
    /\ odd \cap {"failed_munmap", "remapped", "moved"} = {}
CoverState(symbols, coverage) == [symbols |-> symbols, coverage |-> coverage]
CoverOK ==
    Judged =>
        /\ Consumed("coverage", executed) = CoverState(loaded, covered)
        /\ \A pc \in disarmed : Location(loaded, pc) \subseteq covered
CoverInv == ClientInv /\ PlaceOK /\ CoverOK

\* An instruction's location is covered.
LEMMA CoverExec ==
    ASSUME Target, NEW L, NEW C, NEW pc \in Small, NEW ev, ev.op = "exec", ev.pc = Address(pc)
    PROVE  Traced("coverage", CoverState(L, C), Callback("coverage", ev)) =
               CoverState(L, C \cup Location(L, pc))
<1> DEFINE e == [op |-> "exec", pc |-> pc]  st == CoverState(L, C)
<1>1. Num(ev.pc) = pc
    BY NumAddress
<1>2. Callback("coverage", ev) = <<e>>
    BY <1>1 DEF Callback, coverage_event
<1>3. Traced("coverage", st, <<e>>) = TraceEntry("coverage", st, e)
    BY TracedSmall
<1>4. TraceEntry("coverage", st, e) = coverage_trace(st, e)
    BY DEF TraceEntry
<1>5. coverage_trace(st, e) = CoverState(L, C \cup Location(L, pc))
    <2>1. e.op = "exec" /\ e.pc = pc /\ st.symbols = L /\ st.coverage = C
        BY DEF CoverState
    <2>2. \A c : [st EXCEPT !.coverage = c] = CoverState(L, c)
        BY DEF CoverState
    <2> DEFINE below == {s \in L : s[1] <= pc}
               nearest == {s \in below : \A t \in below : t[1] <= s[1]}
    <2>3. Location(L, pc) = IF below = {} THEN {<<<<>>, "<unknown>", pc>>}
                            ELSE {<<s[2], s[3], pc - s[1]>> : s \in nearest}
        BY DEF Location
    <2> HIDE DEF e, st
    <2>4. coverage_trace(st, e) =
              IF below = {} THEN [st EXCEPT !.coverage = C \cup {<<<<>>, "<unknown>", pc>>}]
              ELSE [st EXCEPT !.coverage = C \cup {<<s[2], s[3], pc - s[1]>> : s \in nearest}]
        BY <2>1 DEF coverage_trace
    <2> HIDE DEF below, nearest
    <2> QED
        BY <2>2, <2>3, <2>4
<1> QED
    BY <1>2, <1>3, <1>4, <1>5

\* A mapping's symbols are added.
LEMMA CoverAdd ==
    ASSUME NEW L, NEW C, NEW m, NEW ev, ev.op = "mmap", ev.anon = m.anon, ev.offset = m.offset,
           ev.path = m.path, ev.addr = m.addr, m.anon \in BOOLEAN,
           \A s \in L : \A t \in Loaded(m) : s[1] # t[1]
    PROVE  Traced("coverage", CoverState(L, C), Callback("coverage", ev)) =
               CoverState(L \cup Loaded(m), C)
<1> DEFINE st == CoverState(L, C)  e == AddSymbols(ev)  new == Loaded(m)
           told == FromStart(m) /\ Readable(m.path)
<1>1. Callback("coverage", ev) = IF told THEN <<e>> ELSE <<>>
    <2>1. FromStart(ev) <=> FromStart(m)
        BY DEF FromStart
    <2> HIDE DEF e
    <2> QED
        BY <2>1 DEF Callback, coverage_event, e
<1>2. CASE told
    <2>1. Traced("coverage", st, <<e>>) = coverage_trace(st, e)
        <3>1. Traced("coverage", st, <<e>>) = TraceEntry("coverage", st, e)
            BY TracedSmall
        <3>2. TraceEntry("coverage", st, e) = coverage_trace(st, e)
            BY DEF TraceEntry
        <3> QED
            BY <3>1, <3>2
    <2>2. e.op = "add" /\ e.syms = new
        BY <1>2 DEF AddSymbols, Loaded
    <2>3. st.symbols = L /\ \A l : [st EXCEPT !.symbols = l] = CoverState(l, C)
        BY DEF CoverState
    <2> HIDE DEF e, st, new
    <2>4. coverage_trace(st, e) =
              [st EXCEPT !.symbols = {s \in L : \A t \in new : s[1] # t[1]} \cup new]
        BY <2>2, <2>3 DEF coverage_trace
    <2>5. {s \in L : \A t \in new : s[1] # t[1]} = L
        BY DEF new
    <2> QED
        BY <1>1, <1>2, <2>1, <2>3, <2>4, <2>5 DEF st, e, new
<1>3. CASE ~told
    <2>1. new = {}
        BY <1>3 DEF Loaded
    <2>2. Traced("coverage", st, <<>>) = st
        BY TracedSmall
    <2>3. L \cup new = L
        BY <2>1
    <2> QED
        BY <1>1, <1>3, <2>2, <2>3
<1> QED
    BY <1>2, <1>3

\* An unmapping's symbols are removed.
LEMMA CoverRemove ==
    ASSUME NEW L, NEW C, NEW m, NEW ev, ev.op = "munmap", ev.addr = m.addr, ev.len = m.len
    PROVE  Traced("coverage", CoverState(L, C), Callback("coverage", ev)) =
               CoverState({s \in L : Outside(s[1], m)}, C)
<1> DEFINE st == CoverState(L, C)  e == [op |-> "remove", base |-> Num(ev.addr), len |-> Num(ev.len)]
<1>1. Callback("coverage", ev) = <<e>>
    BY DEF Callback, coverage_event
<1>2. Traced("coverage", st, <<e>>) = coverage_trace(st, e)
    <2>1. Traced("coverage", st, <<e>>) = TraceEntry("coverage", st, e)
        BY TracedSmall
    <2>2. TraceEntry("coverage", st, e) = coverage_trace(st, e)
        BY DEF TraceEntry
    <2> QED
        BY <2>1, <2>2
<1>3. e.op = "remove" /\ e.base = Num(m.addr) /\ e.len = Num(m.len)
    OBVIOUS
<1>4. st.symbols = L /\ \A l : [st EXCEPT !.symbols = l] = CoverState(l, C)
    BY DEF CoverState
<1> HIDE DEF e, st
<1>5. coverage_trace(st, e) =
          [st EXCEPT !.symbols = {s \in L : s[1] < e.base \/ s[1] >= e.base + e.len}]
    BY <1>3, <1>4 DEF coverage_trace
<1>6. {s \in L : s[1] < e.base \/ s[1] >= e.base + e.len} = {s \in L : Outside(s[1], m)}
    BY <1>3 DEF Outside
<1> QED
    BY <1>1, <1>2, <1>4, <1>5, <1>6 DEF st, e

\* An instruction.
LEMMA RunningCover ==
    ASSUME CoverInv, Running
    PROVE  CoverOK'
<1>1. PICK bb_end \in BOOLEAN, next \in Guests : \E a, why : Execute(bb_end, a, next, why)
    BY Zenon DEF Running
<1>2. PICK a, why : Execute(bb_end, a, next, why)
    BY <1>1
<1>3. /\ setup' = setup /\ loaded' = loaded /\ odd \subseteq odd'
      /\ disarmed' = IF lib.inst = "Once" THEN disarmed \cup {guest.pc} ELSE disarmed
      /\ covered' = covered \cup Location(loaded, guest.pc)
    BY <1>2 DEF Execute
<1>4. SUFFICES ASSUME Judged'
               PROVE  /\ Consumed("coverage", executed') = CoverState(loaded', covered')
                      /\ \A pc \in disarmed' : Location(loaded', pc) \subseteq covered'
    BY DEF CoverOK
<1>5. Judged
    BY <1>3, <1>4 DEF Judged
<1>6. /\ Consumed("coverage", executed) = CoverState(loaded, covered)
      /\ \A pc \in disarmed : Location(loaded, pc) \subseteq covered
    BY <1>5 DEF CoverInv, CoverOK
<1>7. IsSeq(executed) /\ setup \in Setups /\ Target /\ guest.pc \in Small
    <2>1. PipelineInv /\ setup \in Setups /\ guest.pc \in Small
        BY DEF CoverInv, ClientInv, LoadInv, PipelineInv, GuestOK, PlaceOK
    <2> QED
        BY <2>1, TargetOK, FaithKinds DEF PipelineInv, FaithOK
<1> DEFINE ev == InstEvent(bb_end)  at == Location(loaded, guest.pc)
<1>8. lib.inst \in {"Always", "Once"} /\ ev.op = "exec" /\ ev.pc = Address(guest.pc)
    BY <1>5 DEF Judged, lib, InstEvent
<1>9. /\ Armed => Consumed("coverage", executed') =
             Traced("coverage", Consumed("coverage", executed), Callback("coverage", ev))
      /\ ~Armed => Consumed("coverage", executed') = Consumed("coverage", executed)
    BY <1>2, <1>7, ConsumedRunning
<1> HIDE DEF ev
<1>10. CASE Armed
    <2>1. Consumed("coverage", executed') = CoverState(loaded, covered \cup at)
        BY <1>6, <1>7, <1>8, <1>9, <1>10, CoverExec
    <2> QED
        BY <1>3, <1>6, <2>1
<1>11. CASE ~Armed
    <2>1. at \subseteq covered /\ covered \cup at = covered
        BY <1>6, <1>11 DEF Armed
    <2> QED
        BY <1>3, <1>6, <1>9, <1>11, <2>1
<1> QED
    BY <1>10, <1>11

\* A mapping.
LEMMA MmapCover ==
    ASSUME CoverInv, NEW m \in Mmaps[setup.client], Mmap(m)
    PROVE  CoverOK'
<1> DEFINE p == MmapPacket(w, m)
           ev == [op |-> "mmap", addr |-> m.addr, len |-> m.len, anon |-> m.anon,
                  read |-> m.read, write |-> m.write, exec |-> m.exec, path |-> m.path,
                  offset |-> m.offset]
           symbols == {s \in loaded : Outside(s[1], m)} \cup Loaded(m)
           why == Given(~Utf8(m.path), "path")
                  \cup Given(/\ setup.client = "coverage"
                             /\ FromStart(m) /\ Unreadable(m.path), "elf")
                  \cup Given(\E s \in loaded : \/ ~Outside(s[1], m)
                                               \/ \E t \in Loaded(m) : s[1] = t[1], "remapped")
                  \cup Moved(symbols, m)
<1>1. /\ Report(p, ev, why) /\ loaded' = symbols
      /\ disarmed' = {pc \in disarmed : Outside(pc, m)}
    BY DEF Mmap
<1>2. setup' = setup /\ odd \subseteq odd' /\ why \subseteq odd' /\ covered' = covered
    BY <1>1 DEF Report
<1>3. SUFFICES ASSUME Judged'
               PROVE  /\ Consumed("coverage", executed') = CoverState(loaded', covered')
                      /\ \A pc \in disarmed' : Location(loaded', pc) \subseteq covered'
    BY DEF CoverOK
<1>4. Judged
    BY <1>2, <1>3 DEF Judged
<1>5. /\ Consumed("coverage", executed) = CoverState(loaded, covered)
      /\ \A pc \in disarmed : Location(loaded, pc) \subseteq covered
    BY <1>4 DEF CoverInv, CoverOK
<1>6. "remapped" \notin why /\ "moved" \notin why
    BY <1>2, <1>3 DEF Judged
<1>7. \A s \in loaded : Outside(s[1], m) /\ \A t \in Loaded(m) : s[1] # t[1]
    BY <1>6 DEF Given
<1>8. \A pc \in disarmed : Outside(pc, m) => Location(symbols, pc) = Location(loaded, pc)
    BY <1>6 DEF Given, Moved
<1>9. IsSeq(executed) /\ setup \in Setups /\ "coverage" \in Programs
    <2>1. PipelineInv /\ setup \in Setups
        BY DEF CoverInv, ClientInv, LoadInv, PipelineInv, GuestOK
    <2> QED
        BY <2>1, FaithKinds DEF PipelineInv, FaithOK, Programs
<1>10. m.anon \in BOOLEAN
    BY <1>9, WorkAssumption
<1>11. /\ ev.op = "mmap" /\ ev.anon = m.anon /\ ev.offset = m.offset /\ ev.path = m.path
       /\ ev.addr = m.addr
    OBVIOUS
<1>12. symbols = loaded \cup Loaded(m)
    BY <1>7
<1> HIDE DEF ev, why, symbols, p
<1>13. Consumed("coverage", executed') =
           Traced("coverage", Consumed("coverage", executed), Callback("coverage", ev))
    BY <1>1, <1>9, ConsumedReport
<1>14. Consumed("coverage", executed') = CoverState(loaded \cup Loaded(m), covered)
    BY <1>5, <1>7, <1>10, <1>11, <1>13, CoverAdd
<1>15. ASSUME NEW pc \in disarmed' PROVE Location(loaded', pc) \subseteq covered'
    <2>1. pc \in disarmed /\ Outside(pc, m)
        BY <1>1
    <2> QED
        BY <1>1, <1>2, <1>5, <1>8, <2>1
<1> QED
    BY <1>1, <1>2, <1>12, <1>14, <1>15

\* An unmapping.
LEMMA MunmapCover ==
    ASSUME CoverInv, NEW m \in Munmaps[setup.client], Munmap(m)
    PROVE  CoverOK'
<1> DEFINE p == MunmapPacket(w, m.addr, m.len)
           ev == [op |-> "munmap", addr |-> m.addr, len |-> m.len]
           symbols == {s \in loaded : Outside(s[1], m)}
           why == IF m.addr[1] # 0 THEN {"failed_munmap"} ELSE Moved(symbols, m)
<1>1. /\ Report(p, ev, why)
      /\ m.addr[1] = 0 => /\ loaded' = symbols
                          /\ disarmed' = {pc \in disarmed : Outside(pc, m)}
    BY DEF Munmap
<1>2. setup' = setup /\ odd \subseteq odd' /\ why \subseteq odd' /\ covered' = covered
    BY <1>1 DEF Report
<1>3. SUFFICES ASSUME Judged'
               PROVE  /\ Consumed("coverage", executed') = CoverState(loaded', covered')
                      /\ \A pc \in disarmed' : Location(loaded', pc) \subseteq covered'
    BY DEF CoverOK
<1>4. Judged
    BY <1>2, <1>3 DEF Judged
<1>5. /\ Consumed("coverage", executed) = CoverState(loaded, covered)
      /\ \A pc \in disarmed : Location(loaded, pc) \subseteq covered
    BY <1>4 DEF CoverInv, CoverOK
<1>6. "failed_munmap" \notin why /\ "moved" \notin why
    BY <1>2, <1>3 DEF Judged
<1>7. m.addr[1] = 0
    BY <1>6
<1>8. \A pc \in disarmed : Outside(pc, m) => Location(symbols, pc) = Location(loaded, pc)
    BY <1>6, <1>7 DEF Given, Moved
<1>9. IsSeq(executed) /\ "coverage" \in Programs
    <2>1. PipelineInv
        BY DEF CoverInv, ClientInv, LoadInv
    <2> QED
        BY <2>1, FaithKinds DEF PipelineInv, FaithOK, Programs
<1>10. ev.op = "munmap" /\ ev.addr = m.addr /\ ev.len = m.len
    OBVIOUS
<1> HIDE DEF ev, why, p
<1>11. Consumed("coverage", executed') =
           Traced("coverage", Consumed("coverage", executed), Callback("coverage", ev))
    BY <1>1, <1>9, ConsumedReport
<1>12. Consumed("coverage", executed') = CoverState(symbols, covered)
    BY <1>5, <1>10, <1>11, CoverRemove
<1> HIDE DEF symbols
<1>13. ASSUME NEW pc \in disarmed' PROVE Location(loaded', pc) \subseteq covered'
    <2>1. pc \in disarmed /\ Outside(pc, m)
        BY <1>1, <1>7
    <2> QED
        BY <1>1, <1>2, <1>5, <1>7, <1>8, <2>1
<1> QED
    BY <1>1, <1>2, <1>7, <1>12, <1>13

\* A system call says nothing to the coverage and the backtrace.
LEMMA SyscallSilent ==
    ASSUME IsSeq(executed), NEW program \in {"coverage", "backtrace"},
           NEW c \in Syscalls[setup.client], Syscall(c), setup \in Setups
    PROVE  /\ Consumed(program, executed') = Consumed(program, executed)
           /\ UNCHANGED <<setup, loaded, disarmed, covered>> /\ odd \subseteq odd'
           /\ guest' = guest \/ \E packet, ev, why : Report(packet, ev, why)
<1>1. CASE Failed(c.ret)
    <2>1. FailedCall
        BY <1>1 DEF Syscall, FailedCall
    <2>2. executed' = executed
        BY <2>1 DEF FailedCall
    <2> QED
        BY <2>1, <2>2 DEF FailedCall
<1>2. CASE ~Failed(c.ret)
    <2> DEFINE p == CallPacket(c)  ev == CallEvent(c)  why == {}  st == Consumed(program, executed)
    <2>1. Report(p, ev, why) /\ UNCHANGED <<loaded, disarmed>>
        <3>1. CASE HostSyscallNum(setup.feature, c.num) = "Read"
            BY <1>2, <3>1 DEF Syscall, CallPacket, CallEvent, Buffer
        <3>2. CASE HostSyscallNum(setup.feature, c.num) # "Read"
            BY <1>2, <3>2 DEF Syscall, CallPacket, CallEvent, Buffer
        <3> QED
            BY <3>1, <3>2
    <2>2. ev.op = "syscall" /\ program \in Programs
        BY DEF CallEvent, Programs
    <2> HIDE DEF ev, p, why
    <2>3. Callback(program, ev) = <<>>
        BY <2>2, Unread
    <2>4. Consumed(program, executed') = Traced(program, st, Callback(program, ev))
        BY <2>1, <2>2, ConsumedReport
    <2>5. Traced(program, st, <<>>) = st
        BY TracedSmall
    <2>6. UNCHANGED <<setup, covered>> /\ odd \subseteq odd'
        BY <2>1 DEF Report
    <2>7. \E packet, e, y : Report(packet, e, y)
        BY <2>1
    <2> QED
        BY <2>1, <2>3, <2>4, <2>5, <2>6, <2>7
<1> QED
    BY <1>1, <1>2

\* Steps that neither run nor map anything.
LEMMA CoverKept ==
    ASSUME CoverOK, UNCHANGED <<setup, loaded, covered>>, odd \subseteq odd',
           Consumed("coverage", executed') = Consumed("coverage", executed),
           disarmed' \subseteq disarmed
    PROVE  CoverOK'
<1>1. SUFFICES ASSUME Judged'
               PROVE  /\ Consumed("coverage", executed') = CoverState(loaded', covered')
                      /\ \A pc \in disarmed' : Location(loaded', pc) \subseteq covered'
    BY DEF CoverOK
<1>2. Judged
    BY <1>1 DEF Judged
<1> QED
    BY <1>2 DEF CoverOK

\* What the guest does, call by call.
LEMMA GuestCalls ==
    ASSUME GuestOK, Guest
    PROVE  \/ Running \/ JitExit \/ Retranslate \/ Unblock
           \/ \E m \in Mmaps[setup.client] : Mmap(m)
           \/ \E m \in Munmaps[setup.client] : Munmap(m)
           \/ \E c \in Syscalls[setup.client] : Syscall(c)
<1>1. ASSUME \/ \E bb_end \in BOOLEAN : Plain(bb_end)
             \/ \E a \in Accesses[setup.client] : Access(a)
             \/ \E f \in Functions[setup.client] : Call(f) \/ TailCall(f)
             \/ Return
      PROVE  Running
    BY <1>1, Runs
<1> QED
    BY <1>1, Zenon DEF Guest

\* Every step leaves the guest below the bound.
LEMMA NextPlace ==
    ASSUME GuestOK, PlaceOK, [Next]_vars
    PROVE  PlaceOK'
<1>1. CASE Running
    BY <1>1, RunningPlace
<1>2. CASE Reporting
    <2>1. PICK packet, ev, why : Report(packet, ev, why)
        BY <1>2, Zenon DEF Reporting
    <2>2. guest'.pc = guest.pc /\ guest'.ra = guest.ra /\ guest'.frames = guest.frames
        BY <2>1, ReportGuest DEF GuestOK
    <2> QED
        BY <2>2, PlaceKept
<1>3. CASE guest' = guest
    BY <1>3, PlaceKept
<1>4. JitExit \/ Retranslate \/ FailedCall \/ Unblock \/ Parse \/ Trace \/ UNCHANGED vars
          => guest' = guest
    BY DEF JitExit, Retranslate, FailedCall, Unblock, Parse, Trace, vars
<1>5. Guest => Running \/ JitExit \/ Retranslate \/ Reporting \/ FailedCall \/ Unblock
    BY GuestSteps
<1> QED
    BY <1>1, <1>2, <1>3, <1>4, <1>5, Zenon DEF Next

\* Initially nothing is covered.
LEMMA InitCover ==
    ASSUME Init
    PROVE  ClientInv /\ PlaceOK /\ CoverOK
<1> DEFINE none == <<>>
<1>1. ClientInv
    BY InitClient
<1>2. PlaceOK
    <2> DEFINE g == [pc |-> setup.start, ra |-> setup.start, frames |-> none, steps |-> 0,
                     ran |-> [frames |-> none, ra |-> setup.start]]
    <2>1. guest = g /\ setup \in Setups
        BY DEF Init
    <2>2. setup.start \in Small
        BY <2>1, SetupsAssumption DEF Small
    <2>3. g.pc = setup.start /\ g.ra = setup.start /\ g.frames = none /\ Len(none) = 0
        OBVIOUS
    <2> HIDE DEF g, none
    <2>4. NearFrames(none)
        BY <2>3 DEF NearFrames
    <2> QED
        BY <2>1, <2>2, <2>3, <2>4 DEF PlaceOK
<1>3. CoverOK
    <2>1. executed = none /\ loaded = {} /\ covered = {} /\ disarmed = {}
        BY DEF Init
    <2>2. Pushed("coverage", none) = none
        BY PushedNone
    <2>3. \A st : Traced("coverage", st, none) = st
        BY TracedSmall
    <2>4. InitialState("coverage") = CoverState({}, {})
        BY DEF InitialState, CoverState
    <2> HIDE DEF none
    <2>5. Consumed("coverage", none) = CoverState({}, {})
        BY <2>2, <2>3, <2>4 DEF Consumed
    <2> QED
        BY <2>1, <2>5 DEF CoverOK
<1> QED
    BY <1>1, <1>2, <1>3

\* Every step keeps the coverage.
LEMMA NextCover ==
    ASSUME CoverInv, [Next]_vars
    PROVE  CoverInv'
<1>1. ClientInv /\ PlaceOK /\ CoverOK /\ GuestOK /\ PipelineInv /\ setup \in Setups
    BY DEF CoverInv, ClientInv, LoadInv, PipelineInv, GuestOK
<1>2. ClientInv' /\ PlaceOK'
    BY <1>1, NextClient, NextPlace
<1>3. SUFFICES CoverOK'
    BY <1>2 DEF CoverInv
<1>4. CASE Running
    BY <1>4, RunningCover
<1>5. CASE \E m \in Mmaps[setup.client] : Mmap(m)
    BY <1>5, MmapCover
<1>6. CASE \E m \in Munmaps[setup.client] : Munmap(m)
    BY <1>6, MunmapCover
<1>7. CASE \E c \in Syscalls[setup.client] : Syscall(c)
    <2>1. PICK c \in Syscalls[setup.client] : Syscall(c)
        BY <1>7
    <2>2. IsSeq(executed)
        BY <1>1, FaithKinds DEF PipelineInv, FaithOK
    <2>3. /\ Consumed("coverage", executed') = Consumed("coverage", executed)
          /\ UNCHANGED <<setup, loaded, disarmed, covered>> /\ odd \subseteq odd'
        BY <1>1, <2>1, <2>2, SyscallSilent
    <2> QED
        BY <1>1, <2>3, CoverKept
<1>8. CASE JitExit \/ Retranslate \/ Unblock \/ Parse \/ Trace \/ UNCHANGED vars
    <2>1. UNCHANGED <<setup, loaded, covered, executed, odd>> /\ disarmed' \subseteq disarmed
        BY <1>8 DEF JitExit, Retranslate, Unblock, Parse, Trace, vars
    <2> QED
        BY <1>1, <2>1, CoverKept
<1>9. CASE Guest
    BY <1>1, <1>4, <1>5, <1>6, <1>7, <1>8, <1>9, GuestCalls
<1> QED
    BY <1>8, <1>9, Zenon DEF Next

\* The coverage is exactly the locations that ran, whatever is mapped, in whatever
\* chunks this is told and whenever they are parsed: for every program whose
\* mappings do not replace each other, whose unmappings do not fail, and in which
\* code whose hook has fired keeps its nearest symbol.
\* (Coverage::mmap, munmap and exec, Cannoli::trace, hook_inst)
THEOREM CoverageExactTheorem == Spec => []CoverageExact
<1>1. Init => CoverInv
    BY InitCover DEF CoverInv
<1>2. CoverInv /\ [Next]_vars => CoverInv'
    BY NextCover
<1>3. CoverInv => CoverageExact
    <2>1. SUFFICES ASSUME CoverInv, setup.client = "coverage",
                          setup.lib.inst \in {"Always", "Once"}, Idle,
                          odd \cap {"failed_munmap", "remapped", "moved", "placeholder"} = {}
                   PROVE  client.coverage = covered
        BY DEF CoverageExact
    <2>2. Judged /\ ClientInv /\ "placeholder" \notin odd
        BY <2>1 DEF Judged, CoverInv
    <2>3. client = Consumed("coverage", executed)
        BY <2>1, <2>2, IdleConsumed
    <2>4. client = CoverState(loaded, covered)
        BY <2>1, <2>2, <2>3 DEF CoverInv, CoverOK
    <2> QED
        BY <2>4 DEF CoverState
<1> QED
    BY <1>1, <1>2, <1>3, PTL DEF Spec

-----------------------------------------------------------------------------
(* The backtrace. *)

\* An entry is the address of a function.
LEMMA ResolveEntry ==
    ASSUME setup \in Setups, setup.client = "backtrace", NEW addr \in Nat
    PROVE  /\ resolve(addr).addr = addr
           /\ is_entry(resolve(addr)) <=> addr \in Functions[setup.client]
<1> DEFINE n == Len(Symbols)  T == SymbolTable  Fs == Functions[setup.client]
           B == {i \in 1 .. n : T[i][1] < addr}  E == {i \in 1 .. n : T[i][1] = addr}
           pos == Cardinality(B)  r == resolve(addr)
<1>1. /\ n \in Nat /\ DOMAIN T = 1 .. n
      /\ \A i \in 1 .. n : T[i][1] \in Nat /\ T[i] \in Range(Symbols)
      /\ \A s \in Range(Symbols) : \E i \in 1 .. n : T[i] = s
    BY Table
<1>2. r = IF E # {} THEN [addr |-> addr, symbol |-> T[Max(E)][2], offset |-> 0]
          ELSE IF pos > 0 THEN [addr |-> addr, symbol |-> T[pos][2], offset |-> addr - T[pos][1]]
          ELSE [addr |-> addr, symbol |-> "<unknown>", offset |-> addr]
    BY <1>1, Zenon DEF resolve
<1>3. E \in SUBSET (1 .. n) /\ \A i \in 1 .. n : i \in E <=> T[i][1] = addr
    OBVIOUS
<1>4. /\ \A a : a \in Fs <=> \E s \in Range(Symbols) : s[1] = a
      /\ \A s \in Range(Symbols) : s[2] # "<unknown>"
    <2>1. /\ Fs = {Symbols[i][1] : i \in DOMAIN Symbols}
          /\ \A i \in DOMAIN Symbols : Symbols[i][2] # "<unknown>"
        BY BacktraceAssumption
    <2>2. Range(Symbols) = {Symbols[i] : i \in DOMAIN Symbols}
        BY DEF Range
    <2> HIDE DEF Fs
    <2> QED
        BY <2>1, <2>2
<1> HIDE DEF n, T, B, E, pos, Fs
<1>5. r.addr = addr
    BY <1>2
<1>6. Nearest(r)
    BY ResolveNearest
<1> HIDE DEF r
<1>7. ASSUME is_entry(r) PROVE addr \in Fs
    <2>1. r.offset = 0 /\ r.symbol # "<unknown>"
        BY <1>7 DEF is_entry
    <2>2. PICK s \in Range(Symbols) : s[1] + r.offset = r.addr
        BY <1>6, <2>1 DEF Nearest
    <2>3. s[1] \in Nat
        BY <1>1
    <2>4. s[1] = addr
        BY <1>5, <2>1, <2>2, <2>3
    <2> QED
        BY <1>4, <2>4
<1>8. ASSUME addr \in Fs PROVE is_entry(r)
    <2>1. PICK s \in Range(Symbols) : s[1] = addr
        BY <1>4, <1>8
    <2>2. E # {}
        BY <1>1, <1>3, <2>1
    <2>3. PICK m : m = Max(E) /\ m \in E
        BY <1>1, <1>3, <2>2, LargestOf
    <2>4. m \in 1 .. n /\ T[m] \in Range(Symbols)
        BY <1>1, <1>3, <2>3
    <2>5. r = [addr |-> addr, symbol |-> T[m][2], offset |-> 0]
        BY <1>2, <2>2, <2>3
    <2>6. r.offset = 0 /\ r.symbol = T[m][2]
        BY <2>5
    <2> QED
        BY <1>4, <2>4, <2>6 DEF is_entry
<1> QED
    BY <1>5, <1>7, <1>8 DEF r, Fs

\* The largest of some numbers and zero.
LEMMA LargestIs ==
    ASSUME NEW n \in Nat, NEW S \in SUBSET (1 .. n), NEW k \in Nat, k = 0 \/ k \in S,
           \A i \in S : i <= k
    PROVE  Max({0} \cup S) = k
<1> DEFINE U == {0} \cup S
<1>1. k \in U /\ U \subseteq Nat /\ \A i \in U : k >= i
    OBVIOUS
<1> HIDE DEF U
<1>2. \A x \in U : (\A i \in U : x >= i) => x = k
    BY <1>1
<1> QED
    BY <1>1, <1>2 DEF Max, U

BackState(b, s, flag) == [backtrace |-> b, return_stack |-> s, branch_flag |-> flag]

\* A return to pc leaves the frames up to the last one that returns elsewhere.
LEMMA UnwindTo ==
    ASSUME NEW b, NEW s, NEW flag, NEW pc, NEW n \in Nat, IsSeq(b), IsSeq(s),
           Len(b) = n, Len(s) = n, NEW k \in Nat, k <= n, k = 0 \/ s[k] # pc,
           \A i \in k + 1 .. n : s[i] = pc
    PROVE  Unwind(BackState(b, s, flag), pc) = BackState(SubSeq(b, 1, k), SubSeq(s, 1, k), flag)
<1> DEFINE st == BackState(b, s, flag)  S == {i \in DOMAIN st.return_stack : st.return_stack[i] # pc}
           m == Max({0} \cup S)  popped == Len(st.return_stack) - m
<1>1. st.return_stack = s /\ st.backtrace = b /\ st.branch_flag = flag
    BY DEF BackState
<1>2. DOMAIN s = 1 .. n
    BY DEF IsSeq
<1>3. S \in SUBSET (1 .. n) /\ \A i \in 1 .. n : i \in S <=> s[i] # pc
    BY <1>1, <1>2
<1>4. Unwind(st, pc) = [st EXCEPT !.backtrace = SubSeq(@, 1, Len(@) - popped),
                                  !.return_stack = SubSeq(@, 1, Len(@) - popped)]
    BY DEF Unwind
<1> HIDE DEF S
<1>5. m = k
    <2>1. k = 0 \/ k \in S
        BY <1>3
    <2>2. ASSUME NEW i \in S PROVE i <= k
        <3>1. i \in 1 .. n /\ s[i] # pc
            BY <1>3
        <3>2. i \notin k + 1 .. n
            BY <3>1
        <3> QED
            BY <3>1, <3>2
    <2> QED
        BY <1>3, <2>1, <2>2, LargestIs
<1> HIDE DEF m
<1>6. Len(st.return_stack) - popped = k /\ Len(st.backtrace) - popped = k
    BY <1>1, <1>5
<1> HIDE DEF popped
<1>7. Unwind(st, pc) = [st EXCEPT !.backtrace = SubSeq(b, 1, k), !.return_stack = SubSeq(s, 1, k)]
    BY <1>1, <1>4, <1>6
<1> DEFINE x == SubSeq(b, 1, k)  y == SubSeq(s, 1, k)
<1>8. Unwind(st, pc) = [st EXCEPT !.backtrace = x, !.return_stack = y]
    BY <1>7
<1> HIDE DEF x, y
<1>9. st = [backtrace |-> b, return_stack |-> s, branch_flag |-> flag]
    BY DEF BackState
<1> HIDE DEF st
<1>10. PICK u : u = Unwind(st, pc) /\ u = [st EXCEPT !.backtrace = x, !.return_stack = y]
    BY <1>8
<1>11. u = [backtrace |-> x, return_stack |-> y, branch_flag |-> flag]
    BY <1>9, <1>10
<1> QED
    BY <1>10, <1>11 DEF st, x, y, BackState

\* A stack of functions: none returns into the beginning of a function, those
\* that were jumped to return where their predecessor does, the others do not.
Stacked(Fs, frames) ==
    /\ Calls(frames)
    /\ \A i \in 1 .. Len(frames) :
          /\ frames[i].f \in Fs /\ frames[i].ret \notin Fs
          /\ frames[i].tail => i > 1 /\ frames[i].ret = frames[i - 1].ret
          /\ ~frames[i].tail /\ i > 1 => frames[i].ret # frames[i - 1].ret

\* The client's stacks are those of the guest.
Follows(b, s, frames) ==
    /\ IsSeq(b) /\ IsSeq(s) /\ Len(b) = Len(frames) /\ Len(s) = Len(frames)
    /\ \A i \in 1 .. Len(frames) : b[i][2] = frames[i].f /\ s[i] = frames[i].ret

\* Some frames at the top are gone.
LEMMA FollowsCut ==
    ASSUME NEW b, NEW s, NEW frames, Calls(frames), Follows(b, s, frames), NEW k \in Nat,
           k <= Len(frames), NEW left, Len(left) = k, \A i \in 1 .. k : left[i] = frames[i]
    PROVE  Follows(SubSeq(b, 1, k), SubSeq(s, 1, k), left)
<1> DEFINE c == SubSeq(b, 1, k)  t == SubSeq(s, 1, k)
<1>0. IsSeq(b) /\ IsSeq(s)
    BY DEF Follows
<1>1. PICK S : b \in Seq(S)
    BY <1>0 DEF IsSeq
<1>01. PICK T : s \in Seq(T)
    BY <1>0 DEF IsSeq
<1>2. PICK n \in Nat : n = Len(frames) /\ n = Len(b) /\ n = Len(s) /\ k <= n
    BY DEF Calls, Follows
<1>3. c \in Seq(S) /\ Len(c) = k /\ \A i \in 1 .. k : c[i] = b[i]
    <2>1. Len(b) = n /\ k \in Nat /\ k <= n
        BY <1>2
    <2> QED
        BY <1>1, <2>1
<1>4. t \in Seq(T) /\ Len(t) = k /\ \A i \in 1 .. k : t[i] = s[i]
    BY <1>01, <1>2
<1> HIDE DEF c, t
<1>5. IsSeq(c) /\ IsSeq(t)
    BY <1>3, <1>4 DEF IsSeq
<1>6. \A i \in 1 .. k : i \in 1 .. n
    BY <1>2
<1>7. ASSUME NEW i \in 1 .. k PROVE c[i][2] = left[i].f /\ t[i] = left[i].ret
    BY <1>2, <1>3, <1>4, <1>6 DEF Follows
<1>8. Follows(c, t, left)
    BY <1>3, <1>4, <1>5, <1>7 DEF Follows
<1> QED
    BY <1>8 DEF c, t

\* One frame more on both stacks.
LEMMA FollowsMore ==
    ASSUME NEW b, NEW s, NEW frames, Calls(frames), Follows(b, s, frames), NEW x, NEW y, NEW fr,
           x[2] = fr.f, y = fr.ret
    PROVE  Follows(Append(b, x), Append(s, y), Append(frames, fr))
<1> DEFINE c == Append(b, x)  t == Append(s, y)  z == Append(frames, fr)  n == Len(frames)
<1>1. IsSeq(b) /\ IsSeq(s) /\ Len(b) = n /\ Len(s) = n
      /\ \A i \in 1 .. n : b[i][2] = frames[i].f /\ s[i] = frames[i].ret
    BY DEF Follows
<1>2. /\ n \in Nat /\ Len(z) = n + 1 /\ (\A i \in 1 .. n : z[i] = frames[i]) /\ z[n + 1] = fr
    BY PushedFrame
<1>3. /\ IsSeq(c) /\ Len(c) = n + 1 /\ (\A i \in 1 .. n : c[i] = b[i]) /\ c[n + 1] = x
    BY <1>1, AppendKnown
<1>4. /\ IsSeq(t) /\ Len(t) = n + 1 /\ (\A i \in 1 .. n : t[i] = s[i]) /\ t[n + 1] = y
    BY <1>1, AppendKnown
<1> HIDE DEF c, t, z, n
<1>5. ASSUME NEW i \in 1 .. n + 1 PROVE c[i][2] = z[i].f /\ t[i] = z[i].ret
    <2>1. i \in 1 .. n \/ i = n + 1
        BY <1>2
    <2>2. CASE i \in 1 .. n
        BY <1>1, <1>2, <1>3, <1>4, <2>2
    <2>3. CASE i = n + 1
        BY <1>2, <1>3, <1>4, <2>3
    <2> QED
        BY <2>1, <2>2, <2>3
<1>6. Follows(c, t, z)
    BY <1>2, <1>3, <1>4, <1>5 DEF Follows
<1> QED
    BY <1>6 DEF c, t, z

\* The frames above the one that was called last return to the same place, what
\* is below them elsewhere.
LEMMA SameReturn ==
    ASSUME NEW Fs, NEW frames, Stacked(Fs, frames), NEW k \in Nat, k + 1 <= Len(frames),
           ~frames[k + 1].tail, \A i \in k + 2 .. Len(frames) : frames[i].tail
    PROVE  /\ \A i \in k + 1 .. Len(frames) : frames[i].ret = frames[Len(frames)].ret
           /\ k = 0 \/ frames[k].ret # frames[Len(frames)].ret
<1>1. PICK n \in Nat : n = Len(frames)
    BY DEF Stacked, Calls
<1>2. \A i \in 1 .. n : /\ frames[i].tail => i > 1 /\ frames[i].ret = frames[i - 1].ret
                        /\ ~frames[i].tail /\ i > 1 => frames[i].ret # frames[i - 1].ret
    BY <1>1 DEF Stacked
<1> DEFINE r == frames[k + 1].ret  S == {j \in Nat : k + 1 + j <= n => frames[k + 1 + j].ret = r}
<1>3. 0 \in S
    <2>1. k + 1 + 0 = k + 1
        OBVIOUS
    <2> QED
        BY <2>1
<1>4. ASSUME NEW j \in Nat, j \in S PROVE j + 1 \in S
    <2>1. SUFFICES ASSUME k + 1 + (j + 1) <= n PROVE frames[k + 1 + (j + 1)].ret = r
        OBVIOUS
    <2>2. PICK i \in Nat : i = k + 1 + (j + 1) /\ i - 1 = k + 1 + j
        OBVIOUS
    <2>3. i \in k + 2 .. n /\ i \in 1 .. n
        BY <2>1, <2>2
    <2>4. frames[i].ret = frames[i - 1].ret
        BY <1>1, <1>2, <2>3
    <2>5. frames[k + 1 + j].ret = r
        BY <1>1, <1>4, <2>1
    <2> QED
        BY <2>2, <2>4, <2>5
<1>5. Nat \subseteq S
    <2> HIDE DEF S
    <2>1. \A j \in Nat : j \in S => j + 1 \in S
        BY <1>4
    <2> QED
        BY <1>3, <2>1, SetInduction
<1>6. ASSUME NEW i \in k + 1 .. n PROVE frames[i].ret = r
    <2>1. PICK j \in Nat : i = k + 1 + j
        <3>1. i - (k + 1) \in Nat /\ i = k + 1 + (i - (k + 1))
            BY <1>1
        <3> QED
            BY <3>1
    <2>2. j \in S /\ k + 1 + j <= n
        BY <1>1, <1>5, <2>1
    <2> QED
        BY <2>1, <2>2
<1>7. frames[n].ret = r
    <2>1. n \in k + 1 .. n
        BY <1>1
    <2> QED
        BY <1>6, <2>1
<1>8. k = 0 \/ frames[k].ret # r
    <2>1. SUFFICES ASSUME k # 0 PROVE frames[k].ret # r
        OBVIOUS
    <2>2. k + 1 \in 1 .. n /\ k + 1 > 1 /\ (k + 1) - 1 = k
        BY <1>1, <2>1
    <2> QED
        BY <1>2, <2>2
<1> QED
    BY <1>1, <1>6, <1>7, <1>8

\* How the next instruction comes after the last one: in the same function, as
\* the first one of another, or where some return.
Stays(Fs, at, frames, last) ==
    /\ frames = last /\ at \notin Fs
    /\ last # <<>> => Last(last).ret # at
Came(Fs, at, ra, frames, last) ==
    at \in Fs /\ \E t \in BOOLEAN : frames = Append(last, [f |-> at, ret |-> ra, tail |-> t])
Left(at, frames, last) ==
    last # <<>> /\ at = Last(last).ret /\ frames = Returned(last)
Follow(Fs, flag, at, ra, frames, last) ==
    IF flag THEN Stays(Fs, at, frames, last) \/ Came(Fs, at, ra, frames, last)
                 \/ Left(at, frames, last)
    ELSE frames = last

\* The client follows: it enters and leaves the functions that the guest does.
LEMMA BackStep ==
    ASSUME NEW Fs, NEW last, NEW frames, Stacked(Fs, last), Stacked(Fs, frames),
           NEW b, NEW s, Follows(b, s, last), NEW flag \in BOOLEAN, NEW at, NEW ra,
           Follow(Fs, flag, at, ra, frames, last), NEW e, e.pc.addr = at, e.ra = ra,
           is_entry(e.pc) <=> at \in Fs
    PROVE  \E c, t : /\ backtrace_trace(BackState(b, s, flag), e) = BackState(c, t, e.branch)
                     /\ Follows(c, t, frames)
<1> DEFINE st == BackState(b, s, flag)  entered == IF is_entry(e.pc) THEN Entered(st, e) ELSE st
           left == IF flag THEN Unwind(entered, at) ELSE st
<1>1. backtrace_trace(st, e) = [left EXCEPT !.branch_flag = e.branch]
    <2>1. st.branch_flag = flag
        BY DEF BackState
    <2> HIDE DEF st
    <2> QED
        BY <2>1 DEF backtrace_trace
<1>2. ASSUME NEW c, NEW t, left = BackState(c, t, flag), Follows(c, t, frames)
      PROVE  \E x, y : /\ backtrace_trace(st, e) = BackState(x, y, e.branch)
                       /\ Follows(x, y, frames)
    <2> HIDE DEF left, st
    <2>1. backtrace_trace(st, e) = BackState(c, t, e.branch)
        BY <1>1, <1>2 DEF BackState
    <2> QED
        BY <1>2, <2>1
<1>3. Calls(last) /\ Calls(frames)
    BY DEF Stacked
<1>4. PICK n \in Nat : n = Len(last)
    BY <1>3 DEF Calls
<1>5. /\ IsSeq(b) /\ IsSeq(s) /\ Len(b) = n /\ Len(s) = n
      /\ \A i \in 1 .. n : b[i][2] = last[i].f /\ s[i] = last[i].ret
    BY <1>4 DEF Follows
<1>6. last # <<>> => n \in 1 .. n /\ Last(last) = last[n]
    BY <1>3, <1>4, LastReturns
<1>7. last = <<>> => n = 0
    BY <1>4
<1>8. CASE flag = FALSE
    <2>1. left = st /\ frames = last
        BY <1>8 DEF Follow
    <2> QED
        BY <1>2, <2>1
<1>9. CASE flag = TRUE /\ Stays(Fs, at, frames, last)
    <2> DEFINE c == SubSeq(b, 1, n)  t == SubSeq(s, 1, n)
    <2>1. frames = last /\ at \notin Fs /\ (last # <<>> => Last(last).ret # at)
        BY <1>9 DEF Stays
    <2>2. entered = st /\ left = Unwind(st, at)
        BY <1>9, <2>1
    <2>3. n = 0 \/ s[n] # at
        BY <1>5, <1>6, <1>7, <2>1
    <2>4. n <= n /\ \A i \in n + 1 .. n : s[i] = at
        BY <1>4
    <2>5. Unwind(BackState(b, s, flag), at) = BackState(c, t, flag)
        BY <1>5, <2>3, <2>4, UnwindTo
    <2>6. Follows(c, t, frames)
        BY <1>3, <1>4, <2>1, <2>4, FollowsCut
    <2> HIDE DEF c, t
    <2> QED
        BY <1>2, <2>2, <2>5, <2>6
<1>10. CASE flag = TRUE /\ Came(Fs, at, ra, frames, last)
    <2>1. PICK tail \in BOOLEAN : frames = Append(last, [f |-> at, ret |-> ra, tail |-> tail])
        BY <1>10 DEF Came
    <2> DEFINE fr == [f |-> at, ret |-> ra, tail |-> tail]  x == <<e.pc.symbol, e.pc.addr>>
               bx == Append(b, x)  sx == Append(s, ra)  m == n + 1
               c == SubSeq(bx, 1, m)  t == SubSeq(sx, 1, m)
    <2>2. fr.f = at /\ fr.ret = ra /\ x[2] = at
        OBVIOUS
    <2>3. frames = Append(last, fr)
        BY <2>1
    <2>4. entered = BackState(bx, sx, flag)
        <3>1. entered = [st EXCEPT !.backtrace = Append(@, <<e.pc.symbol, e.pc.addr>>),
                                   !.return_stack = Append(@, e.ra)]
            BY <1>10 DEF Came, Entered
        <3>2. st.backtrace = b /\ st.return_stack = s
            BY DEF BackState
        <3>3. st = [backtrace |-> b, return_stack |-> s, branch_flag |-> flag]
            BY DEF BackState
        <3> HIDE DEF st, entered
        <3>4. entered = [st EXCEPT !.backtrace = bx, !.return_stack = sx]
            BY <3>1, <3>2
        <3> HIDE DEF bx, sx
        <3>5. entered = [backtrace |-> bx, return_stack |-> sx, branch_flag |-> flag]
            BY <3>3, <3>4
        <3> QED
            BY <3>5 DEF BackState
    <2> HIDE DEF fr, x
    <2>5. Follows(bx, sx, frames)
        BY <1>3, <2>2, <2>3, FollowsMore
    <2>6. Len(frames) = m /\ frames[m] = fr /\ m \in Nat
        BY <1>3, <1>4, <2>3, PushedFrame
    <2>7. /\ IsSeq(bx) /\ IsSeq(sx) /\ Len(bx) = m /\ Len(sx) = m
          /\ \A i \in 1 .. m : sx[i] = frames[i].ret
        BY <2>5, <2>6 DEF Follows
    <2>8. m \in 1 .. m /\ m <= m /\ m + 1 > m
        BY <2>6
    <2> HIDE DEF bx, sx, m, entered
    <2>9. sx[m] # at
        <3>1. frames[m].ret \notin Fs
            BY <2>6, <2>8 DEF Stacked
        <3>2. at \in Fs
            BY <1>10 DEF Came
        <3> QED
            BY <2>7, <2>8, <3>1, <3>2
    <2>10. \A i \in m + 1 .. m : sx[i] = at
        BY <2>6
    <2>11. Unwind(BackState(bx, sx, flag), at) = BackState(c, t, flag)
        BY <2>6, <2>7, <2>8, <2>9, <2>10, UnwindTo
    <2>12. Follows(c, t, frames)
        BY <1>3, <2>5, <2>6, <2>8, FollowsCut
    <2>13. left = Unwind(entered, at)
        BY <1>10
    <2> HIDE DEF c, t, left
    <2> QED
        BY <1>2, <2>4, <2>11, <2>12, <2>13
<1>11. CASE flag = TRUE /\ Left(at, frames, last)
    <2>1. last # <<>> /\ at = Last(last).ret /\ frames = Returned(last)
        BY <1>11 DEF Left
    <2>2. PICK k \in Nat :
              /\ k + 1 <= Len(last) /\ ~last[k + 1].tail
              /\ \A i \in k + 2 .. Len(last) : last[i].tail
              /\ Len(Returned(last)) = k
              /\ \A i \in 1 .. k : Returned(last)[i] = last[i]
        BY <1>3, <2>1, ReturnedIs
    <2> DEFINE c == SubSeq(b, 1, k)  t == SubSeq(s, 1, k)
    <2>3. /\ \A i \in k + 1 .. n : last[i].ret = last[n].ret
          /\ k = 0 \/ last[k].ret # last[n].ret
        BY <1>4, <2>2, SameReturn
    <2>4. at = last[n].ret /\ n \in 1 .. n
        BY <1>6, <2>1
    <2>5. at \notin Fs
        BY <1>4, <2>4 DEF Stacked
    <2>6. entered = st /\ left = Unwind(st, at)
        BY <1>11, <2>5
    <2>7. k = 0 \/ s[k] # at
        <3>1. k = 0 \/ k \in 1 .. n
            BY <1>4, <2>2
        <3> QED
            BY <1>5, <2>3, <2>4, <3>1
    <2>8. \A i \in k + 1 .. n : s[i] = at
        <3>1. \A i \in k + 1 .. n : i \in 1 .. n
            BY <1>4, <2>2
        <3> QED
            BY <1>5, <2>3, <2>4, <3>1
    <2>9. k <= n
        BY <1>4, <2>2
    <2>10. Unwind(BackState(b, s, flag), at) = BackState(c, t, flag)
        BY <1>5, <2>7, <2>8, <2>9, UnwindTo
    <2>11. Follows(c, t, frames)
        BY <1>3, <1>4, <2>1, <2>2, <2>9, FollowsCut
    <2> HIDE DEF c, t
    <2> QED
        BY <1>2, <2>6, <2>10, <2>11
<1> QED
    BY <1>8, <1>9, <1>10, <1>11 DEF Follow

\* What the client is told of an instruction: where it is, and where its function
\* returns to.
LEMMA BranchEntry ==
    ASSUME setup \in Setups, setup.client = "backtrace", setup.arch = "mips",
           setup.lib.inst = "Branch", guest.pc \in Small, guest.ra \in Small, NEW bb_end
    PROVE  /\ Armed
           /\ \E e : /\ Callback("backtrace", InstEvent(bb_end)) = <<e>>
                     /\ e.pc = resolve(guest.pc) /\ e.ra = guest.ra /\ e.branch = bb_end
<1> DEFINE ev == InstEvent(bb_end)  pc == guest.pc  ra == guest.ra  a == Address(ra)
           e == [op |-> "branch", branch |-> ev.branch, pc |-> resolve(Num(ev.pc)),
                 ra |-> Num(SubSeq(ev.regs, 31 * 4 + 1, 31 * 4 + 4))]
<1>1. ev = [op |-> "branch", pc |-> Address(pc), branch |-> bb_end, regs |-> Block]
    BY DEF InstEvent, lib
<1>2. ev.op = "branch" /\ ev.pc = Address(pc) /\ ev.branch = bb_end /\ ev.regs = Block
    BY <1>1
<1>3. Callback("backtrace", ev) = <<e>>
    BY <1>2 DEF Callback, backtrace_event
<1>4. Armed
    BY DEF Armed, lib
<1>5. Target /\ w = 4 /\ Abi["mips"].ra = 31 /\ Abi["mips"].n = 32
    BY TargetOK, SetupsAssumption DEF w, Abi
<1>6. Num(Address(pc)) = pc /\ a \in Words /\ Num(a) = ra
    BY <1>5, NumAddress
<1>7. Block = BlockOf("mips", 4, a)
    BY <1>5 DEF Block, BlockOf
<1> HIDE DEF a, ev, pc, ra
<1>8. SubSeq(Block, 31 * 4 + 1, 31 * 4 + 4) = Low(a, 4)
    <2>1. "mips" \in Archs /\ WidthOf("mips") = 4 /\ 31 \in 0 .. Abi["mips"].n - 1
        BY <1>5 DEF Archs, WidthOf
    <2>2. get_reg_le(BlockOf("mips", WidthOf("mips"), a), 31, WidthOf("mips")) =
              Low(a, WidthOf("mips"))
        BY <1>5, <1>6, <2>1, BlockRegister
    <2>3. get_reg_le(Block, 31, 4) = Low(a, 4)
        BY <1>7, <2>1, <2>2
    <2>4. get_reg_le(Block, 31, 4) = SubSeq(Block, 31 * 4 + 1, (31 + 1) * 4)
        BY DEF get_reg_le
    <2>5. (31 + 1) * 4 = 31 * 4 + 4
        OBVIOUS
    <2> QED
        BY <2>3, <2>4, <2>5
<1>9. Num(Low(a, 4)) = Num(a)
    <2>1. a \in Bytes(8) /\ 8 \in Nat /\ 4 \in Nat /\ 4 <= 8
        BY <1>6 DEF Words
    <2>2. \A i \in 1 .. 4 : Low(a, 4)[i] = a[i]
        BY <2>1, LowBytes
    <2> QED
        BY <2>2 DEF Num
<1>10. e.pc = resolve(pc) /\ e.ra = ra /\ e.branch = bb_end
    <2>1. e.pc = resolve(Num(ev.pc)) /\ e.branch = ev.branch
          /\ e.ra = Num(SubSeq(ev.regs, 31 * 4 + 1, 31 * 4 + 4))
        OBVIOUS
    <2> HIDE DEF e
    <2> QED
        BY <1>2, <1>6, <1>8, <1>9, <2>1
<1> HIDE DEF e
<1> QED
    BY <1>3, <1>4, <1>10 DEF ev, pc, ra

\* A function that is entered: called from elsewhere than the one below, or
\* jumped to.
LEMMA StackedPush ==
    ASSUME NEW Fs, NEW frames, Stacked(Fs, frames), NEW f \in Fs, f \in Nat,
           NEW ret \in Nat, ret \notin Fs, NEW t \in BOOLEAN,
           t => frames # <<>> /\ ret = Last(frames).ret,
           ~t /\ frames # <<>> => Last(frames).ret # ret
    PROVE  Stacked(Fs, Append(frames, [f |-> f, ret |-> ret, tail |-> t]))
<1> DEFINE fr == [f |-> f, ret |-> ret, tail |-> t]  z == Append(frames, fr)  n == Len(frames)
<1>1. Calls(frames) /\ frames \in Seq(Frame)
    BY DEF Stacked, Calls
<1>2. fr \in Frame /\ fr.f = f /\ fr.ret = ret /\ fr.tail = t
    BY DEF Frame
<1> HIDE DEF fr
<1>3. /\ n \in Nat /\ Len(z) = n + 1 /\ (\A i \in 1 .. n : z[i] = frames[i]) /\ z[n + 1] = fr
    BY <1>1, PushedFrame
<1>4. z \in Seq(Frame)
    BY <1>1, <1>2
<1>5. n = 0 <=> frames = <<>>
    BY <1>1
<1>6. n # 0 => Last(frames) = frames[n]
    BY <1>1, <1>5, LastReturns
<1> HIDE DEF z, n
<1>7. z[1].tail = FALSE
    <2>1. CASE n = 0
        BY <1>2, <1>3, <1>5, <2>1
    <2>2. CASE n # 0
        <3>1. 1 \in 1 .. n
            BY <1>3, <2>2
        <3> QED
            BY <1>1, <1>3, <1>5, <2>2, <3>1 DEF Calls
    <2> QED
        BY <2>1, <2>2
<1>8. \A i \in 1 .. n : /\ frames[i].f \in Fs /\ frames[i].ret \notin Fs
                        /\ frames[i].tail => i > 1 /\ frames[i].ret = frames[i - 1].ret
                        /\ ~frames[i].tail /\ i > 1 => frames[i].ret # frames[i - 1].ret
    BY DEF Stacked, n
<1>9. ASSUME NEW i \in 1 .. n + 1
      PROVE  /\ z[i].f \in Fs /\ z[i].ret \notin Fs
             /\ z[i].tail => i > 1 /\ z[i].ret = z[i - 1].ret
             /\ ~z[i].tail /\ i > 1 => z[i].ret # z[i - 1].ret
    <2>1. CASE i \in 1 .. n
        <3>1. i > 1 => i - 1 \in 1 .. n
            BY <1>3, <2>1
        <3>2. z[i] = frames[i] /\ (i > 1 => z[i - 1] = frames[i - 1])
            BY <1>3, <2>1, <3>1
        <3> QED
            BY <1>8, <2>1, <3>2
    <2>2. CASE i = n + 1
        <3>1. z[i] = fr /\ i - 1 = n /\ (i > 1 <=> n # 0)
            BY <1>3, <2>2
        <3>2. n # 0 => z[i - 1] = frames[n]
            <4>1. n # 0 => n \in 1 .. n
                BY <1>3
            <4> QED
                BY <1>3, <3>1, <4>1
        <3>3. z[i].f \in Fs /\ z[i].ret \notin Fs
            BY <1>2, <3>1
        <3>4. z[i].tail => i > 1 /\ z[i].ret = z[i - 1].ret
            BY <1>2, <1>5, <1>6, <3>1, <3>2
        <3>5. ~z[i].tail /\ i > 1 => z[i].ret # z[i - 1].ret
            BY <1>2, <1>5, <1>6, <3>1, <3>2
        <3> QED
            BY <3>3, <3>4, <3>5
    <2>3. i \in 1 .. n \/ i = n + 1
        BY <1>3
    <2> QED
        BY <2>1, <2>2, <2>3
<1>10. Stacked(Fs, z)
    BY <1>3, <1>4, <1>7, <1>9 DEF Stacked, Calls
<1> QED
    BY <1>10 DEF z, fr

\* A return leaves such a stack.
LEMMA StackedReturned ==
    ASSUME NEW Fs, NEW frames, Stacked(Fs, frames), frames # <<>>
    PROVE  Stacked(Fs, Returned(frames))
<1> DEFINE left == Returned(frames)
<1>1. Calls(frames)
    BY DEF Stacked
<1>2. PICK k \in Nat : /\ k + 1 <= Len(frames) /\ left \in Seq(Frame) /\ Len(left) = k
                       /\ \A i \in 1 .. k : left[i] = frames[i]
    BY <1>1, ReturnedIs
<1> HIDE DEF left
<1>3. PICK n \in Nat : n = Len(frames) /\ k + 1 <= n
    BY <1>1, <1>2 DEF Calls
<1>4. frames[1].tail = FALSE
    BY <1>1 DEF Calls
<1>5. left # <<>> => left[1].tail = FALSE
    <2>1. SUFFICES ASSUME left # <<>> PROVE left[1].tail = FALSE
        OBVIOUS
    <2>2. 1 \in 1 .. k
        BY <1>2, <2>1
    <2> QED
        BY <1>2, <1>4, <2>2
<1>6. ASSUME NEW i \in 1 .. k
      PROVE  /\ left[i].f \in Fs /\ left[i].ret \notin Fs
             /\ left[i].tail => i > 1 /\ left[i].ret = left[i - 1].ret
             /\ ~left[i].tail /\ i > 1 => left[i].ret # left[i - 1].ret
    <2>1. i \in 1 .. n /\ (i > 1 => i - 1 \in 1 .. k)
        BY <1>3
    <2>2. left[i] = frames[i] /\ (i > 1 => left[i - 1] = frames[i - 1])
        BY <1>2, <2>1
    <2>3. /\ frames[i].f \in Fs /\ frames[i].ret \notin Fs
          /\ frames[i].tail => i > 1 /\ frames[i].ret = frames[i - 1].ret
          /\ ~frames[i].tail /\ i > 1 => frames[i].ret # frames[i - 1].ret
        BY <1>3, <2>1 DEF Stacked
    <2> QED
        BY <2>2, <2>3
<1>7. Stacked(Fs, left)
    BY <1>2, <1>5, <1>6 DEF Stacked, Calls
<1> QED
    BY <1>7 DEF left

\* The backtrace client becomes, by all that happened, what the guest's stack was
\* at the last instruction, and it is known how the guest went on from there.
BackOK ==
    (/\ setup.client = "backtrace" /\ setup.arch = "mips" /\ setup.lib.inst = "Branch"
     /\ "recursion" \notin odd) =>
        /\ Stacked(Functions[setup.client], guest.ran.frames)
        /\ Stacked(Functions[setup.client], guest.frames)
        /\ \E b, s : \E flag \in BOOLEAN :
              /\ Consumed("backtrace", executed) = BackState(b, s, flag)
              /\ Follows(b, s, guest.ran.frames)
              /\ Follow(Functions[setup.client], flag, guest.pc, guest.ra,
                        guest.frames, guest.ran.frames)
BackInv == ClientInv /\ PlaceOK /\ BackOK

\* Where an instruction leads, as the client sees it by the next one.
LEMMA GoesFollow ==
    ASSUME GuestOK, setup.client = "backtrace",
           Stacked(Functions[setup.client], guest.frames),
           NEW bb_end \in BOOLEAN, NEW next \in Guests, NEW why, Goes(bb_end, next, why),
           "recursion" \notin why
    PROVE  /\ Stacked(Functions[setup.client], next.frames)
           /\ Follow(Functions[setup.client], bb_end, next.pc, next.ra, next.frames, guest.frames)
<1> DEFINE Fs == Functions[setup.client]  frames == guest.frames  on == guest.pc + 4
           ret == Last(frames).ret
<1>1. guest.pc \in Nat /\ on \in Nat /\ Calls(frames) /\ setup \in Setups
    BY DEF GuestOK, Guests
<1>2. Fs \subseteq Nat
    BY <1>1, SetupsAssumption, BoundType
<1>3. Onward => on \notin Fs
    BY DEF Onward
<1>4. why = Again => (frames # <<>> => ret # on)
    BY DEF Again, Given
<1>5. frames # <<>> => ret \in Nat /\ ret \notin Fs
    <2>1. SUFFICES ASSUME frames # <<>> PROVE ret \in Nat /\ ret \notin Fs
        OBVIOUS
    <2>2. PICK n \in 1 .. Len(frames) : Last(frames) = frames[n]
        BY <1>1, <2>1, LastReturns
    <2>3. frames[n] \in Frame
        BY <1>1, ElementOfSeq DEF Calls
    <2>4. frames[n].ret \notin Fs
        BY DEF Stacked
    <2> QED
        BY <2>2, <2>3, <2>4 DEF Frame
<1> HIDE DEF Fs, frames, on, ret
<1>6. CASE GoesOn(next, why)
    <2>1. Onward /\ why = Again /\ next.pc = on /\ next.frames = frames
        BY <1>6 DEF GoesOn, on, frames
    <2>2. Stays(Fs, next.pc, next.frames, frames)
        BY <1>3, <1>4, <2>1 DEF Stays, ret
    <2>3. Follow(Fs, bb_end, next.pc, next.ra, next.frames, frames)
        BY <2>1, <2>2 DEF Follow
    <2> QED
        BY <2>1, <2>3 DEF Fs, frames
<1>7. ASSUME NEW f \in Fs, NEW r \in Nat, r \notin Fs, NEW t \in BOOLEAN, Enters(next, f, r, t),
             t => frames # <<>> /\ r = ret, ~t /\ frames # <<>> => ret # r, bb_end = TRUE
      PROVE  /\ Stacked(Fs, next.frames)
             /\ Follow(Fs, bb_end, next.pc, next.ra, next.frames, frames)
    <2>1. next.frames = Append(frames, [f |-> f, ret |-> r, tail |-> t])
          /\ next.pc = f /\ next.ra = r
        BY <1>7 DEF Enters, frames
    <2>2. Stacked(Fs, frames) /\ f \in Nat
        BY <1>2 DEF Fs, frames
    <2>3. Stacked(Fs, Append(frames, [f |-> f, ret |-> r, tail |-> t]))
        BY <1>7, <2>2, StackedPush DEF ret
    <2>4. Came(Fs, next.pc, next.ra, next.frames, frames)
        BY <2>1 DEF Came
    <2> QED
        BY <1>7, <2>1, <2>3, <2>4 DEF Follow
<1>8. CASE bb_end = TRUE /\ GoesIn(next, why)
    <2>1. CASE \E f \in Functions[setup.client] :
                  Onward /\ why = Again /\ Enters(next, f, guest.pc + 4, FALSE)
        <3>1. PICK f \in Fs : Onward /\ why = Again /\ Enters(next, f, on, FALSE)
            BY <2>1 DEF on, Fs
        <3>2. on \notin Fs /\ (frames # <<>> => ret # on) /\ FALSE \in BOOLEAN
            BY <1>3, <1>4, <3>1
        <3>3. /\ Stacked(Fs, next.frames)
              /\ Follow(Fs, bb_end, next.pc, next.ra, next.frames, frames)
            BY <1>1, <1>7, <1>8, <3>1, <3>2
        <3> QED
            BY <3>3 DEF Fs, frames
    <2>2. CASE \E f \in Functions[setup.client] :
                  guest.frames # <<>> /\ Enters(next, f, Last(guest.frames).ret, TRUE)
        <3>1. PICK f \in Fs : frames # <<>> /\ Enters(next, f, ret, TRUE)
            BY <2>2 DEF frames, ret, Fs
        <3>2. ret \in Nat /\ ret \notin Fs /\ TRUE \in BOOLEAN
            BY <1>5, <3>1
        <3>3. /\ Stacked(Fs, next.frames)
              /\ Follow(Fs, bb_end, next.pc, next.ra, next.frames, frames)
            BY <1>7, <1>8, <3>1, <3>2
        <3> QED
            BY <3>3 DEF Fs, frames
    <2> QED
        BY <1>8, <2>1, <2>2 DEF GoesIn
<1>9. CASE bb_end = TRUE /\ GoesBack(next)
    <2>1. frames # <<>> /\ next.frames = Returned(frames) /\ next.pc = ret
        BY <1>9 DEF GoesBack, frames, ret
    <2>2. Stacked(Fs, frames)
        BY DEF Fs, frames
    <2>3. Stacked(Fs, next.frames)
        BY <2>1, <2>2, StackedReturned
    <2>4. Left(next.pc, next.frames, frames)
        BY <2>1 DEF Left, ret
    <2>5. Follow(Fs, bb_end, next.pc, next.ra, next.frames, frames)
        BY <1>9, <2>4 DEF Follow
    <2> QED
        BY <2>3, <2>5 DEF Fs, frames
<1> QED
    BY <1>6, <1>8, <1>9 DEF Goes

\* An instruction.
LEMMA RunningBack ==
    ASSUME BackInv, Running
    PROVE  BackOK'
<1>1. PICK bb_end \in BOOLEAN, next \in Guests : \E a, why :
          Execute(bb_end, a, next, why) /\ Goes(bb_end, next, why)
    BY Zenon DEF Running
<1>2. PICK a, why : Execute(bb_end, a, next, why) /\ Goes(bb_end, next, why)
    BY <1>1
<1>3. /\ guest'.pc = next.pc /\ guest'.ra = next.ra /\ guest'.frames = next.frames
      /\ guest'.ran.frames = guest.frames
    BY <1>2, ExecuteGuest
<1>4. setup' = setup /\ odd \subseteq odd' /\ why \subseteq odd'
    BY <1>2 DEF Execute
<1> DEFINE Fs == Functions[setup.client]
<1>5. SUFFICES ASSUME setup.client = "backtrace", setup.arch = "mips",
                      setup.lib.inst = "Branch", "recursion" \notin odd'
               PROVE  /\ Stacked(Fs, guest.frames) /\ Stacked(Fs, next.frames)
                      /\ \E b, s : \E flag \in BOOLEAN :
                            /\ Consumed("backtrace", executed') = BackState(b, s, flag)
                            /\ Follows(b, s, guest.frames)
                            /\ Follow(Fs, flag, next.pc, next.ra, next.frames, guest.frames)
    BY <1>3, <1>4 DEF BackOK
<1>6. "recursion" \notin odd /\ "recursion" \notin why
    BY <1>4, <1>5
<1>7. GuestOK /\ PipelineInv /\ setup \in Setups /\ guest.pc \in Small /\ guest.ra \in Small
    BY DEF BackInv, ClientInv, LoadInv, PipelineInv, GuestOK, PlaceOK
<1>8. IsSeq(executed)
    BY <1>7, FaithKinds DEF PipelineInv, FaithOK
<1>9. Stacked(Fs, guest.ran.frames) /\ Stacked(Fs, guest.frames)
    BY <1>5, <1>6 DEF BackInv, BackOK
<1>10. PICK b, s : \E flag \in BOOLEAN :
          /\ Consumed("backtrace", executed) = BackState(b, s, flag)
          /\ Follows(b, s, guest.ran.frames)
          /\ Follow(Fs, flag, guest.pc, guest.ra, guest.frames, guest.ran.frames)
    BY <1>5, <1>6 DEF BackInv, BackOK
<1>11. PICK flag \in BOOLEAN :
          /\ Consumed("backtrace", executed) = BackState(b, s, flag)
          /\ Follows(b, s, guest.ran.frames)
          /\ Follow(Fs, flag, guest.pc, guest.ra, guest.frames, guest.ran.frames)
    BY <1>10
<1>12. Armed /\ \E e : /\ Callback("backtrace", InstEvent(bb_end)) = <<e>>
                       /\ e.pc = resolve(guest.pc) /\ e.ra = guest.ra /\ e.branch = bb_end
    BY <1>5, <1>7, BranchEntry
<1>13. PICK e : /\ Callback("backtrace", InstEvent(bb_end)) = <<e>>
                /\ e.pc = resolve(guest.pc) /\ e.ra = guest.ra /\ e.branch = bb_end
    BY <1>12
<1>14. /\ Stacked(Fs, next.frames)
       /\ Follow(Fs, bb_end, next.pc, next.ra, next.frames, guest.frames)
    BY <1>2, <1>5, <1>6, <1>7, <1>9, GoesFollow
<1>15. e.pc.addr = guest.pc /\ (is_entry(e.pc) <=> guest.pc \in Fs)
    <2>1. guest.pc \in Nat
        BY <1>7 DEF GuestOK, Guests
    <2> QED
        BY <1>5, <1>7, <1>13, <2>1, ResolveEntry
<1> DEFINE ev == InstEvent(bb_end)  st == Consumed("backtrace", executed)
<1>16. Consumed("backtrace", executed') = Traced("backtrace", st, Callback("backtrace", ev))
    BY <1>2, <1>8, <1>12, ConsumedRunning
<1>17. Traced("backtrace", st, <<e>>) = backtrace_trace(st, e)
    <2>1. Traced("backtrace", st, <<e>>) = TraceEntry("backtrace", st, e)
        BY TracedSmall
    <2>2. TraceEntry("backtrace", st, e) = backtrace_trace(st, e)
        BY DEF TraceEntry
    <2> QED
        BY <2>1, <2>2
<1> HIDE DEF Fs, ev, st
<1>18. \E c, t : /\ backtrace_trace(BackState(b, s, flag), e) = BackState(c, t, e.branch)
                 /\ Follows(c, t, guest.frames)
    <2>1. \E last, frames, at, ra : /\ last = guest.ran.frames /\ frames = guest.frames
                                    /\ at = guest.pc /\ ra = guest.ra
        OBVIOUS
    <2>2. PICK last, frames, at, ra : /\ last = guest.ran.frames /\ frames = guest.frames
                                      /\ at = guest.pc /\ ra = guest.ra
        BY <2>1
    <2>3. /\ Stacked(Fs, last) /\ Stacked(Fs, frames) /\ Follows(b, s, last)
          /\ Follow(Fs, flag, at, ra, frames, last)
          /\ e.pc.addr = at /\ e.ra = ra /\ (is_entry(e.pc) <=> at \in Fs)
        BY <1>9, <1>11, <1>13, <1>15, <2>2
    <2>4. \E c, t : /\ backtrace_trace(BackState(b, s, flag), e) = BackState(c, t, e.branch)
                    /\ Follows(c, t, frames)
        BY <2>3, BackStep
    <2> QED
        BY <2>2, <2>4
<1>19. PICK c, t : /\ backtrace_trace(BackState(b, s, flag), e) = BackState(c, t, e.branch)
                   /\ Follows(c, t, guest.frames)
    BY <1>18
<1>20. Consumed("backtrace", executed') = BackState(c, t, bb_end)
    BY <1>11, <1>13, <1>16, <1>17, <1>19 DEF ev, st
<1> QED
    BY <1>9, <1>14, <1>19, <1>20

\* A step that executes nothing.
LEMMA BackKept ==
    ASSUME BackOK, setup' = setup, odd \subseteq odd',
           guest'.pc = guest.pc, guest'.ra = guest.ra, guest'.frames = guest.frames,
           guest'.ran = guest.ran,
           Consumed("backtrace", executed') = Consumed("backtrace", executed)
    PROVE  BackOK'
<1>1. "recursion" \notin odd' => "recursion" \notin odd
    OBVIOUS
<1> QED
    BY <1>1 DEF BackOK

\* Calls say nothing to the backtrace.
LEMMA ReportBack ==
    ASSUME BackInv, Reporting
    PROVE  BackOK'
<1>1. PICK packet, ev, why : Report(packet, ev, why) /\ ev.op \in {"mmap", "munmap", "syscall"}
    BY Zenon DEF Reporting
<1>2. GuestOK /\ PipelineInv /\ BackOK
    BY DEF BackInv, ClientInv, LoadInv, PipelineInv
<1>3. IsSeq(executed) /\ "backtrace" \in Programs
    BY <1>2, FaithKinds DEF PipelineInv, FaithOK, Programs
<1>4. Callback("backtrace", ev) = <<>>
    BY <1>1 DEF Callback, backtrace_event
<1> DEFINE st == Consumed("backtrace", executed)
<1>5. Consumed("backtrace", executed') = Traced("backtrace", st, Callback("backtrace", ev))
    BY <1>1, <1>3, ConsumedReport
<1>6. Traced("backtrace", st, <<>>) = st
    BY TracedSmall
<1>7. Consumed("backtrace", executed') = Consumed("backtrace", executed)
    BY <1>4, <1>5, <1>6
<1>8. setup' = setup /\ odd \subseteq odd'
    BY <1>1 DEF Report
<1>9. /\ guest'.pc = guest.pc /\ guest'.ra = guest.ra /\ guest'.frames = guest.frames
      /\ guest'.ran = guest.ran
    BY <1>1, <1>2, ReportGuest DEF GuestOK
<1> QED
    BY <1>2, <1>7, <1>8, <1>9, BackKept

\* Every step keeps the backtrace.
LEMMA NextBack ==
    ASSUME BackInv, [Next]_vars
    PROVE  BackInv'
<1>1. ClientInv /\ PlaceOK /\ BackOK /\ GuestOK
    BY DEF BackInv, ClientInv, LoadInv, PipelineInv
<1>2. ClientInv' /\ PlaceOK'
    BY <1>1, NextClient, NextPlace
<1>3. SUFFICES BackOK'
    BY <1>2 DEF BackInv
<1>4. CASE Running
    BY <1>4, RunningBack
<1>5. CASE Reporting
    BY <1>5, ReportBack
<1>6. CASE JitExit \/ Retranslate \/ FailedCall \/ Unblock \/ Parse \/ Trace \/ UNCHANGED vars
    <2>1. UNCHANGED <<setup, guest, executed>> /\ odd \subseteq odd'
        BY <1>6 DEF JitExit, Retranslate, FailedCall, Unblock, Parse, Trace, vars
    <2> QED
        BY <1>1, <2>1, BackKept
<1>7. CASE Guest
    BY <1>1, <1>4, <1>5, <1>6, <1>7, GuestSteps
<1> QED
    BY <1>6, <1>7, Zenon DEF Next

\* Initially there is no stack.
LEMMA InitBack ==
    ASSUME Init
    PROVE  BackOK
<1> DEFINE none == <<>>  Fs == Functions[setup.client]
           g == [pc |-> setup.start, ra |-> setup.start, frames |-> none, steps |-> 0,
                 ran |-> [frames |-> none, ra |-> setup.start]]
<1>1. guest = g /\ executed = none
    BY DEF Init
<1>2. g.frames = none /\ g.ran.frames = none /\ Len(none) = 0 /\ none \in Seq(Frame) /\ IsSeq(none)
    BY DEF IsSeq
<1>3. Pushed("backtrace", none) = none
    BY PushedNone
<1>4. \A st : Traced("backtrace", st, none) = st
    BY TracedSmall
<1>5. InitialState("backtrace") = BackState(none, none, FALSE)
    BY DEF InitialState, BackState
<1>6. Stacked(Fs, none)
    BY DEF Stacked, Calls
<1> HIDE DEF g, Fs
<1>7. Consumed("backtrace", none) = BackState(none, none, FALSE)
    BY <1>3, <1>4, <1>5 DEF Consumed
<1>8. Follows(none, none, none)
    BY <1>2 DEF Follows
<1>9. \A at, ra : Follow(Fs, FALSE, at, ra, none, none)
    BY DEF Follow
<1> HIDE DEF none
<1>10. guest.frames = none /\ guest.ran.frames = none /\ FALSE \in BOOLEAN
    BY <1>1, <1>2
<1>11. \E b, s : \E flag \in BOOLEAN :
          /\ Consumed("backtrace", executed) = BackState(b, s, flag)
          /\ Follows(b, s, guest.ran.frames)
          /\ Follow(Fs, flag, guest.pc, guest.ra, guest.frames, guest.ran.frames)
    BY <1>1, <1>7, <1>8, <1>9, <1>10
<1> QED
    BY <1>6, <1>10, <1>11 DEF BackOK, Fs

\* The backtrace is the guest's stack of functions, whatever it calls, jumps to and
\* returns from, in whatever chunks this is told and whenever they are parsed: for
\* every program without a function that comes to the call it was called by.
\* (the backtrace's branch callback and trace(), is_entry, is_return)
THEOREM BacktraceExactTheorem == Spec => []BacktraceExact
<1>1. Init => BackInv
    BY InitCover, InitBack DEF BackInv
<1>2. BackInv /\ [Next]_vars => BackInv'
    BY NextBack
<1>3. BackInv => BacktraceExact
    <2>1. SUFFICES ASSUME BackInv, setup.client = "backtrace", setup.arch = "mips",
                          setup.lib.inst = "Branch", Idle,
                          odd \cap {"recursion", "placeholder"} = {}
                   PROVE  /\ Len(client.backtrace) = Len(guest.ran.frames)
                          /\ \A i \in DOMAIN client.backtrace :
                                client.backtrace[i][2] = guest.ran.frames[i].f
        BY DEF BacktraceExact
    <2>2. ClientInv /\ "placeholder" \notin odd /\ "recursion" \notin odd
        BY <2>1 DEF BackInv
    <2>3. client = Consumed("backtrace", executed)
        BY <2>1, <2>2, IdleConsumed
    <2>4. PICK b, s, flag : client = BackState(b, s, flag) /\ Follows(b, s, guest.ran.frames)
        BY <2>1, <2>2, <2>3 DEF BackInv, BackOK
    <2>5. client.backtrace = b
        BY <2>4 DEF BackState
    <2>6. /\ IsSeq(b) /\ Len(b) = Len(guest.ran.frames)
          /\ \A i \in 1 .. Len(guest.ran.frames) : b[i][2] = guest.ran.frames[i].f
        BY <2>4 DEF Follows
    <2>7. DOMAIN b = 1 .. Len(b)
        BY <2>6 DEF IsSeq
    <2> QED
        BY <2>5, <2>6, <2>7
<1> QED
    BY <1>1, <1>2, <1>3, PTL DEF Spec
=============================================================================
