--------------------------- MODULE LiftingProofs ---------------------------
(* Proofs about Lifting: for every program counter, target, pair of host      *)
(* registers and register block the hook that is put into the code logs a     *)
(* packet which parse_payload tells as the event it stands for.               *)
EXTENDS Lifting, WireProofs

-----------------------------------------------------------------------------
(* patch. *)

\* One window of patch.
Put(b, magic, new, k) == IF Matches(b, magic, k) THEN Replaced(b, k, new) ELSE b

\* The number of windows.
LastWindow(buf, magic, last) == last = (Len(buf) + 1) - Len(magic)

\* The buffers u that patch makes of buf, from window to window.
Patching(buf, magic, new, last, u) ==
    /\ u[0] = buf
    /\ \A k \in 1 .. last : u[k] = Put(u[k - 1], magic, new, k)
    /\ Patched(buf, magic, new) = u[last]

\* patch goes from window to window.
LEMMA PatchedSteps ==
    ASSUME NEW buf, NEW magic, NEW new, NEW last \in Nat, LastWindow(buf, magic, last)
    PROVE  \E u : Patching(buf, magic, new, last, u)
<1> DEFINE Is(u, n) == u = [k \in 0 .. n |-> IF k = 0 THEN buf
                                             ELSE Put(u[k - 1], magic, new, k)]
           S == {n \in Nat : \E u : Is(u, n)}
<1>1. 0 \in S
    <2> DEFINE u == [k \in 0 .. 0 |-> buf]
    <2>1. Is(u, 0)
        OBVIOUS
    <2> QED
        BY <2>1
<1>2. ASSUME NEW n \in Nat, n \in S PROVE n + 1 \in S
    <2>1. PICK u : Is(u, n)
        BY <1>2
    <2> DEFINE v == [k \in 0 .. n + 1 |-> IF k = 0 THEN buf ELSE Put(u[k - 1], magic, new, k)]
    <2>2. \A k \in 0 .. n : v[k] = u[k]
        BY <2>1
    <2>3. \A k \in 1 .. n + 1 : k - 1 \in 0 .. n
        OBVIOUS
    <2>4. ASSUME NEW k \in 0 .. n + 1
          PROVE  (IF k = 0 THEN buf ELSE Put(u[k - 1], magic, new, k))
                     = IF k = 0 THEN buf ELSE Put(v[k - 1], magic, new, k)
        <3>1. CASE k = 0
            BY <3>1
        <3>2. CASE k # 0
            <4>1. k - 1 \in 0 .. n
                BY <2>3, <3>2
            <4>2. v[k - 1] = u[k - 1]
                BY <2>2, <4>1, Zenon
            <4> QED
                BY <4>2
        <3> QED
            BY <3>1, <3>2
    <2>5. Is(v, n + 1)
        BY <2>4, Zenon
    <2>6. n + 1 \in Nat
        OBVIOUS
    <2> HIDE DEF v, Is
    <2> QED
        BY <2>5, <2>6
<1>3. last \in S
    <2> HIDE DEF S
    <2>1. \A n \in Nat : n \in S => n + 1 \in S
        BY <1>2
    <2> QED
        BY <1>1, <2>1, SetInduction
<1>4. PICK w : Is(w, last)
    BY <1>3
<1> DEFINE u == CHOOSE u : Is(u, last)
<1>5. Is(u, last)
    BY <1>4
<1>6. Patched(buf, magic, new) = IF last < 1 THEN buf ELSE u[last]
    BY DEF Patched, Put, LastWindow
<1> HIDE DEF u
<1>7. u[0] = buf /\ \A k \in 1 .. last : u[k] = Put(u[k - 1], magic, new, k)
    BY <1>5
<1>8. Patched(buf, magic, new) = u[last]
    BY <1>6, <1>7
<1> QED
    BY <1>7, <1>8 DEF Patching

\* A buffer shorter than the placeholder is left alone.
LEMMA PatchedShort ==
    ASSUME NEW S, NEW T, NEW buf \in Seq(S), NEW magic \in Seq(T), NEW new, Len(buf) < Len(magic)
    PROVE  Patched(buf, magic, new) = buf
<1>1. Len(buf) \in Nat /\ Len(magic) \in Nat
    BY LenProperties
<1>2. (Len(buf) + 1) - Len(magic) < 1
    BY <1>1
<1> QED
    BY <1>2 DEF Patched

\* patch changes bytes to bytes, and moves none.
LEMMA PatchedType ==
    ASSUME NEW S, NEW buf \in Seq(S), NEW T, NEW magic \in Seq(T), NEW new \in Seq(S),
           Len(magic) = Len(new)
    PROVE  Patched(buf, magic, new) \in Seq(S) /\ Len(Patched(buf, magic, new)) = Len(buf)
<1> DEFINE m == Len(buf)  n == Len(magic)
<1>1. m \in Nat /\ n \in Nat /\ n = Len(new)
    BY LenProperties
<1>2. CASE m < n
    BY <1>2, PatchedShort
<1>3. CASE ~(m < n)
    <2>1. PICK last \in Nat : LastWindow(buf, magic, last)
        BY <1>1, <1>3, SMTT(30) DEF LastWindow
    <2>p. PICK u : Patching(buf, magic, new, last, u)
        BY <2>1, PatchedSteps
    <2>2. /\ u[0] = buf
          /\ \A k \in 1 .. last : u[k] = Put(u[k - 1], magic, new, k)
          /\ Patched(buf, magic, new) = u[last]
        BY <2>p DEF Patching
    <2> DEFINE Good(b) == b \in Seq(S) /\ Len(b) = m
    <2>3. ASSUME NEW b, NEW k \in 1 .. last, Good(b) PROVE Good(Put(b, magic, new, k))
        <3>1. DOMAIN b = 1 .. m /\ \A i \in 1 .. m : b[i] \in S
            BY <2>3
        <3>2. \A i \in 1 .. m : i \in k .. k + Len(new) - 1 => new[i - k + 1] \in S
            <4> DEFINE l == Len(new)
            <4>1. \A j \in 1 .. l : new[j] \in S
                BY ElementOfSeq
            <4>2. l \in Nat
                BY <1>1
            <4> HIDE DEF l
            <4>3. \A i \in 1 .. m : i \in k .. k + l - 1 => i - k + 1 \in 1 .. l
                BY <1>1, <4>2
            <4> QED
                BY <4>1, <4>3 DEF l
        <3> DEFINE c == [i \in 1 .. m |-> IF i \in k .. k + Len(new) - 1 THEN new[i - k + 1] ELSE b[i]]
        <3>3. c \in [1 .. m -> S]
            BY <3>1, <3>2
        <3>4. Replaced(b, k, new) = c
            BY <3>1 DEF Replaced
        <3> HIDE DEF c
        <3>5. Good(c)
            BY <1>1, <3>3, SMTT(30)
        <3> QED
            BY <2>3, <3>4, <3>5 DEF Put
    <2> HIDE DEF Good
    <2> DEFINE N == {k \in Nat : k <= last => Good(u[k])}
    <2>4. 0 \in N
        BY <1>1, <2>2 DEF Good
    <2>5. ASSUME NEW k \in Nat, k \in N PROVE k + 1 \in N
        <3>1. CASE k + 1 <= last
            <4>1. k + 1 \in 1 .. last /\ (k + 1) - 1 = k /\ k <= last
                BY <3>1
            <4>2. u[k + 1] = Put(u[k], magic, new, k + 1) /\ Good(u[k])
                BY <2>2, <2>5, <4>1
            <4> QED
                BY <2>3, <4>1, <4>2
        <3> QED
            BY <3>1
    <2>6. last \in N
        <3> HIDE DEF N
        <3>1. \A k \in Nat : k \in N => k + 1 \in N
            BY <2>5
        <3> QED
            BY <2>4, <3>1, SetInduction
    <2>7. Good(u[last])
        BY <2>6
    <2> QED
        BY <2>2, <2>7 DEF Good
<1> QED
    BY <1>2, <1>3

\* A buffer without the placeholder is left alone.
LEMMA PatchedNone ==
    ASSUME NEW S, NEW T, NEW buf \in Seq(S), NEW magic \in Seq(T), NEW new, ~Occurs(buf, magic)
    PROVE  Patched(buf, magic, new) = buf
<1> DEFINE m == Len(buf)  n == Len(magic)
<1>1. m \in Nat /\ n \in Nat
    BY LenProperties
<1>2. CASE m < n
    BY <1>2, PatchedShort
<1>3. CASE ~(m < n)
    <2>1. PICK last \in Nat : LastWindow(buf, magic, last)
        BY <1>1, <1>3 DEF LastWindow
    <2>p. PICK u : Patching(buf, magic, new, last, u)
        BY <2>1, PatchedSteps
    <2>2. /\ u[0] = buf
          /\ \A k \in 1 .. last : u[k] = Put(u[k - 1], magic, new, k)
          /\ Patched(buf, magic, new) = u[last]
        BY <2>p DEF Patching
    <2>3. \A k \in 1 .. last : Put(buf, magic, new, k) = buf
        BY <2>1 DEF Put, Occurs, Windows, LastWindow
    <2> DEFINE N == {k \in Nat : k <= last => u[k] = buf}
    <2>4. 0 \in N
        BY <2>2
    <2>5. ASSUME NEW k \in Nat, k \in N PROVE k + 1 \in N
        <3>1. CASE k + 1 <= last
            <4>1. k + 1 \in 1 .. last /\ (k + 1) - 1 = k /\ k <= last
                BY <3>1
            <4>2. u[k + 1] = Put(u[k], magic, new, k + 1) /\ u[k] = buf
                BY <2>2, <2>5, <4>1
            <4> QED
                BY <2>3, <4>1, <4>2
        <3> QED
            BY <3>1
    <2>6. last \in N
        <3> HIDE DEF N
        <3>1. \A k \in Nat : k \in N => k + 1 \in N
            BY <2>5
        <3> QED
            BY <2>4, <3>1, SetInduction
    <2> QED
        BY <2>2, <2>6
<1> QED
    BY <1>2, <1>3

\* The placeholder itself becomes the value.
LEMMA PatchedWhole ==
    ASSUME NEW S, NEW T, NEW magic \in Seq(S), NEW new \in Seq(T), Len(new) = Len(magic), magic # <<>>
    PROVE  Patched(magic, magic, new) = new
<1> DEFINE n == Len(magic)
<1>1. n \in Nat /\ (n + 1) - n = 1 /\ 1 \in Nat /\ n = Len(new)
    BY LenProperties
<1>6. LastWindow(magic, magic, 1)
    BY <1>1 DEF LastWindow
<1>2. PICK u : /\ u[0] = magic
               /\ \A k \in 1 .. 1 : u[k] = Put(u[k - 1], magic, new, k)
               /\ Patched(magic, magic, new) = u[1]
    BY <1>1, <1>6, PatchedSteps DEF Patching
<1>3. u[1] = Put(magic, magic, new, 1)
    BY <1>2
<1>4. Matches(magic, magic, 1)
    BY <1>1, FieldAll DEF Matches
<1>5. Replaced(magic, 1, new) = new
    <2>1. DOMAIN magic = 1 .. n /\ DOMAIN new = 1 .. n /\ new = [i \in 1 .. n |-> new[i]]
        BY <1>1
    <2>2. \A i \in 1 .. n : i \in 1 .. 1 + Len(new) - 1 /\ i - 1 + 1 = i
        BY <1>1
    <2> QED
        BY <2>1, <2>2 DEF Replaced
<1> QED
    BY <1>2, <1>3, <1>4, <1>5 DEF Put

\* A placeholder cannot be where its first byte is not.
LEMMA NotThere ==
    ASSUME NEW S, NEW T, NEW buf \in Seq(S), NEW magic \in Seq(T), magic # <<>>,
           \A i \in 1 .. Len(buf) : buf[i] # magic[1]
    PROVE  ~Occurs(buf, magic)
<1> DEFINE m == Len(buf)  n == Len(magic)
<1>1. m \in Nat /\ n \in Nat /\ n >= 1
    BY LenProperties, EmptySeq
<1>2. ASSUME NEW k \in Windows(buf, magic), Matches(buf, magic, k) PROVE FALSE
    <2>1. k \in 1 .. m /\ (k - 1) + n <= m /\ k - 1 \in Nat /\ (k - 1) + 1 = k
        BY <1>1 DEF Windows
    <2> DEFINE at == k - 1  f == Field(buf, at, n)
    <2>2. at \in Nat /\ at + n <= Len(buf)
        BY <2>1
    <2> HIDE DEF at
    <2>3. \A i \in 1 .. n : f[i] = buf[at + i]
        BY <1>1, <2>2, FieldType
    <2>4. f = magic
        BY <1>2 DEF Matches, at
    <2> HIDE DEF f
    <2>5. magic[1] = buf[at + 1] /\ at + 1 = k
        BY <1>1, <2>1, <2>3, <2>4 DEF at
    <2> QED
        BY <2>1, <2>5
<1> QED
    BY <1>2 DEF Occurs

\* What is in a beginning is in the whole.
LEMMA OccursInside ==
    ASSUME NEW S, NEW l \in Seq(S), NEW p \in Seq(S), NEW T, NEW magic \in Seq(T), Len(l) <= Len(p),
           \A i \in 1 .. Len(l) : l[i] = p[i], Occurs(l, magic)
    PROVE  Occurs(p, magic)
<1>1. PICK k \in Windows(l, magic) : Matches(l, magic, k)
    BY DEF Occurs
<1>2. Len(l) \in Nat /\ Len(p) \in Nat /\ Len(magic) \in Nat
    BY LenProperties
<1>3. PICK of \in Nat : of = k - 1
    BY DEF Windows
<1>4. PICK n \in Nat : n = Len(magic)
    BY <1>2
<1>5. of + n <= Len(l) /\ of + n <= Len(p) /\ k \in Windows(p, magic)
    BY <1>2, <1>3, <1>4 DEF Windows
<1>6. \A i \in 1 .. n : l[of + i] = p[of + i]
    BY <1>2, <1>5
<1>7. Field(l, of, n) = Field(p, of, n)
    BY <1>5, <1>6, SameField
<1>8. Matches(p, magic, k)
    BY <1>1, <1>3, <1>4, <1>7 DEF Matches
<1> QED
    BY <1>5, <1>8 DEF Occurs

\* What is not in a word is not in its low bytes either.
LEMMA NotInLow ==
    ASSUME NEW pc \in Words, NEW v \in Widths, NEW T, NEW magic \in Seq(T),
           ~Occurs(pc, magic)
    PROVE  ~Occurs(Low(pc, v), magic)
<1> DEFINE l == Low(pc, v)
<1>1. v \in Nat /\ v <= 8 /\ v >= 4 /\ 8 \in Nat
    BY DEF Widths
<1>2. pc \in Bytes(8) /\ pc \in Seq(Byte) /\ Len(pc) = 8
    BY BytesType DEF Words
<1>3. l \in Bytes(v) /\ \A i \in 1 .. v : i <= 8 => l[i] = pc[i]
    BY <1>1, <1>2, LowBytes
<1>6. \A i \in 1 .. v : l[i] = pc[i]
    BY <1>1, <1>3
<1> HIDE DEF l
<1>4. l \in Seq(Byte) /\ Len(l) = v
    BY <1>1, <1>3, BytesType
<1>5. ~Occurs(l, magic)
    BY <1>1, <1>2, <1>4, <1>6, OccursInside
<1> QED
    BY <1>5 DEF l
-----------------------------------------------------------------------------
(* The segments of a template, patched. *)

\* The placeholders are words, and the low bytes of the program counter's are
\* a placeholder too.
LEMMA Magics ==
    /\ REPLACE_WITH_FLUSH \in Bytes(8) /\ REPLACE_WITH_PC \in Bytes(8)
    /\ REPLACE_WITH_REGHOOK_OFFSET \in Bytes(4) /\ REPLACE_WITH_REGHOOK_SIZE \in Bytes(4)
<1>1. /\ REPLACE_WITH_FLUSH \in [1 .. 8 -> Byte]
      /\ REPLACE_WITH_PC \in [1 .. 8 -> Byte]
    BY DEF REPLACE_WITH_FLUSH, REPLACE_WITH_PC, Byte
<1>2. /\ REPLACE_WITH_REGHOOK_OFFSET \in [1 .. 4 -> Byte]
      /\ REPLACE_WITH_REGHOOK_SIZE \in [1 .. 4 -> Byte]
    BY DEF REPLACE_WITH_REGHOOK_OFFSET, REPLACE_WITH_REGHOOK_SIZE, Byte
<1> QED
    BY <1>1, <1>2 DEF Bytes

\* The program counter's placeholder, for targets of either width.
LEMMA PcMagic ==
    ASSUME NEW w \in Widths
    PROVE  /\ Low(REPLACE_WITH_PC, w) \in Bytes(w)
           /\ Low(REPLACE_WITH_PC, w)[1] = 132
           /\ Low(REPLACE_WITH_PC, w) \in Placeholders
<1>1. w \in Nat /\ 8 \in Nat /\ w <= 8 /\ w >= 4
    BY DEF Widths
<1>2. /\ Low(REPLACE_WITH_PC, w) \in Bytes(w)
      /\ \A i \in 1 .. w : i <= 8 => Low(REPLACE_WITH_PC, w)[i] = REPLACE_WITH_PC[i]
    BY <1>1, Magics, LowBytes
<1>3. Low(REPLACE_WITH_PC, w)[1] = REPLACE_WITH_PC[1]
    BY <1>1, <1>2
<1>4. REPLACE_WITH_PC[1] = 132
    BY DEF REPLACE_WITH_PC
<1>5. Low(REPLACE_WITH_PC, 8) = REPLACE_WITH_PC
    BY <1>1, Magics, LowBytes
<1>6. CASE w = 8
    BY <1>2, <1>3, <1>4, <1>5, <1>6 DEF Placeholders
<1>7. CASE w = 4
    BY <1>2, <1>3, <1>4, <1>7 DEF Placeholders
<1> QED
    BY <1>6, <1>7 DEF Widths

\* patch on bytes: what fits no placeholder stays, the placeholder goes.
LEMMA PatchedBytes ==
    ASSUME NEW n \in Nat, NEW buf \in Bytes(n), NEW k \in Nat, k > 0, NEW magic \in Bytes(k),
           NEW new \in Bytes(k)
    PROVE  /\ Patched(buf, magic, new) \in Bytes(n)
           /\ n < k => Patched(buf, magic, new) = buf
           /\ ~Occurs(buf, magic) => Patched(buf, magic, new) = buf
<1>1. /\ buf \in Seq(Byte) /\ Len(buf) = n /\ magic \in Seq(Byte) /\ Len(magic) = k
      /\ new \in Seq(Byte) /\ Len(new) = k
    BY BytesType
<1> DEFINE b == Patched(buf, magic, new)
<1>2. b \in Seq(Byte) /\ Len(b) = n
    BY <1>1, PatchedType
<1>3. n < k => b = buf
    BY <1>1, PatchedShort
<1>4. ~Occurs(buf, magic) => b = buf
    BY <1>1, PatchedNone
<1> HIDE DEF b
<1>5. b \in Bytes(n)
    BY <1>2, BytesMade
<1> QED
    BY <1>3, <1>4, <1>5 DEF b

\* A placeholder is replaced as a whole.
LEMMA PatchedMagic ==
    ASSUME NEW k \in Nat, k > 0, NEW magic \in Bytes(k), NEW new \in Bytes(k)
    PROVE  Patched(magic, magic, new) = new
<1>1. magic \in Seq(Byte) /\ Len(magic) = k /\ new \in Seq(Byte) /\ Len(new) = k
    BY BytesType
<1>2. magic # <<>>
    BY <1>1
<1> QED
    BY <1>1, <1>2, PatchedWhole

\* No placeholder where its first byte is not.
LEMMA Absent ==
    ASSUME NEW n \in Nat, NEW buf \in Bytes(n), NEW k \in Nat, k > 0, NEW magic \in Bytes(k),
           \A i \in 1 .. n : buf[i] # magic[1]
    PROVE  ~Occurs(buf, magic)
<1>1. buf \in Seq(Byte) /\ Len(buf) = n /\ magic \in Seq(Byte) /\ Len(magic) = k
    BY BytesType
<1>2. magic # <<>>
    BY <1>1
<1>3. \A i \in 1 .. Len(buf) : buf[i] # magic[1]
    BY <1>1
<1> QED
    BY <1>1, <1>2, <1>3, NotThere

\* A buffer of the placeholder's size is the placeholder or does not have it.
LEMMA AbsentEqual ==
    ASSUME NEW n \in Nat, NEW buf \in Bytes(n), NEW magic \in Bytes(n), buf # magic
    PROVE  ~Occurs(buf, magic)
<1>1. buf \in Seq(Byte) /\ Len(buf) = n /\ magic \in Seq(Byte) /\ Len(magic) = n
    BY BytesType
<1>2. \A k \in Windows(buf, magic) : k = 1
    BY <1>1 DEF Windows
<1>3. ~Matches(buf, magic, 1)
    <2>1. Field(buf, 0, n) = buf
        BY WholeBytes
    <2> QED
        BY <1>1, <2>1 DEF Matches
<1> QED
    BY <1>2, <1>3 DEF Occurs

\* A program counter without a placeholder in it.
Clear(pc) == \A m \in Placeholders : ~Occurs(pc, m)

\* A segment after the patches of every hook, and after those of a hook that
\* copies the register block.
Step2(seg, w, pc, flush) ==
    Patched(Patched(seg, Low(REPLACE_WITH_PC, w), Low(pc, w)), REPLACE_WITH_FLUSH, flush)
Step4(seg, w, pc, flush, offset, size) ==
    Patched(Patched(Step2(seg, w, pc, flush), REPLACE_WITH_REGHOOK_OFFSET, Word(offset, 4)),
            REPLACE_WITH_REGHOOK_SIZE, Word(size, 4))

\* What the patches write has the size of what they replace.
LEMMA PatchSizes ==
    ASSUME NEW w \in Widths, NEW pc \in Words, NEW flush \in Words, NEW offset \in Nat,
           NEW size \in Nat
    PROVE  /\ Low(pc, w) \in Bytes(w) /\ flush \in Bytes(8)
           /\ Word(offset, 4) \in Bytes(4) /\ Word(size, 4) \in Bytes(4)
           /\ Word(offset, 4)[4] = 0
           /\ w \in Nat /\ w > 0 /\ w <= 8 /\ 4 \in Nat /\ 8 \in Nat
<1>1. w \in {4, 8}
    BY DEF Widths
<1>2. Low(pc, w) \in Bytes(w)
    BY <1>1, WordKept
<1>3. \A n \in Nat : n % 256 \in Byte /\ (n \div 256) % 256 \in Byte /\ (n \div 65536) % 256 \in Byte
    BY DEF Byte
<1>4. \A n \in Nat : Word(n, 4) \in [1 .. 4 -> Byte] /\ Word(n, 4)[4] = 0
    BY <1>3 DEF Word, Byte
<1> QED
    BY <1>1, <1>2, <1>4 DEF Bytes, Words

\* Opcodes and flags are too short for a placeholder.
LEMMA SmallSegment ==
    ASSUME NEW w \in Widths, NEW pc \in Words, NEW flush \in Words, NEW offset \in Nat,
           NEW size \in Nat, NEW n \in Nat, n < 4, NEW seg \in Bytes(n)
    PROVE  Step2(seg, w, pc, flush) = seg /\ Step4(seg, w, pc, flush, offset, size) = seg
<1> DEFINE m == Low(REPLACE_WITH_PC, w)  v == Low(pc, w)  o == Word(offset, 4)  s == Word(size, 4)
<1>1. /\ m \in Bytes(w) /\ v \in Bytes(w) /\ flush \in Bytes(8) /\ o \in Bytes(4) /\ s \in Bytes(4)
      /\ w \in Nat /\ w > 0 /\ n < w /\ n < 8 /\ 4 \in Nat /\ 8 \in Nat /\ 4 > 0 /\ 8 > 0
    BY PatchSizes, PcMagic DEF Widths
<1> HIDE DEF m, v, o, s
<1>2. Patched(seg, m, v) = seg
    BY <1>1, PatchedBytes
<1>3. Patched(seg, REPLACE_WITH_FLUSH, flush) = seg
    BY <1>1, Magics, PatchedBytes
<1>4. Patched(seg, REPLACE_WITH_REGHOOK_OFFSET, o) = seg
    BY <1>1, Magics, PatchedBytes
<1>5. Patched(seg, REPLACE_WITH_REGHOOK_SIZE, s) = seg
    BY <1>1, Magics, PatchedBytes
<1> QED
    BY <1>2, <1>3, <1>4, <1>5, Zenon DEF Step2, Step4, m, v, o, s

\* The address of flush gets into the hook, whatever the program counter is.
LEMMA FlushSegment ==
    ASSUME NEW w \in Widths, NEW pc \in Words, NEW flush \in Words, NEW offset \in Nat,
           NEW size \in Nat
    PROVE  /\ Step2(REPLACE_WITH_FLUSH, w, pc, flush) = flush
           /\ (/\ ~Occurs(flush, REPLACE_WITH_REGHOOK_OFFSET)
               /\ ~Occurs(flush, REPLACE_WITH_REGHOOK_SIZE))
                 => Step4(REPLACE_WITH_FLUSH, w, pc, flush, offset, size) = flush
<1> DEFINE m == Low(REPLACE_WITH_PC, w)  v == Low(pc, w)  o == Word(offset, 4)  s == Word(size, 4)
           f == REPLACE_WITH_FLUSH
<1>1. /\ m \in Bytes(w) /\ v \in Bytes(w) /\ flush \in Bytes(8) /\ o \in Bytes(4) /\ s \in Bytes(4)
      /\ w \in Nat /\ w > 0 /\ 4 \in Nat /\ 8 \in Nat /\ 4 > 0 /\ 8 > 0 /\ m[1] = 132
    BY PatchSizes, PcMagic
<1>2. f \in Bytes(8) /\ \A i \in 1 .. 8 : f[i] # 132
    <2>1. \A i \in 1 .. 8 : f[i] # 132
        BY DEF REPLACE_WITH_FLUSH
    <2> QED
        BY <2>1, Magics
<1> HIDE DEF m, v, o, s, f
<1>3. ~Occurs(f, m)
    BY <1>1, <1>2, Absent
<1>4. Patched(f, m, v) = f
    BY <1>1, <1>2, <1>3, PatchedBytes
<1>5. Patched(f, f, flush) = flush
    BY <1>1, <1>2, PatchedMagic
<1>6. ~Occurs(flush, REPLACE_WITH_REGHOOK_OFFSET) => Patched(flush, REPLACE_WITH_REGHOOK_OFFSET, o) = flush
    BY <1>1, Magics, PatchedBytes
<1>7. ~Occurs(flush, REPLACE_WITH_REGHOOK_SIZE) => Patched(flush, REPLACE_WITH_REGHOOK_SIZE, s) = flush
    BY <1>1, Magics, PatchedBytes
<1>8. Step2(f, w, pc, flush) = flush
    BY <1>4, <1>5, Zenon DEF Step2, m, v, f
<1> QED
    BY <1>6, <1>7, <1>8, Zenon DEF Step4, o, s, f

\* So does the program counter, if it has no placeholder in it; if it has one
\* the later patches change it, but not its size.
LEMMA PcSegment ==
    ASSUME NEW w \in Widths, NEW pc \in Words, NEW flush \in Words, NEW offset \in Nat,
           NEW size \in Nat
    PROVE  LET m == Low(REPLACE_WITH_PC, w) IN
           /\ Step2(m, w, pc, flush) \in Bytes(w)
           /\ Step4(m, w, pc, flush, offset, size) \in Bytes(w)
           /\ Clear(pc) => /\ Step2(m, w, pc, flush) = Low(pc, w)
                           /\ Step4(m, w, pc, flush, offset, size) = Low(pc, w)
<1> DEFINE m == Low(REPLACE_WITH_PC, w)  v == Low(pc, w)  o == Word(offset, 4)  s == Word(size, 4)
<1>1. /\ m \in Bytes(w) /\ v \in Bytes(w) /\ flush \in Bytes(8) /\ o \in Bytes(4) /\ s \in Bytes(4)
      /\ w \in Nat /\ w > 0 /\ 4 \in Nat /\ 8 \in Nat /\ 4 > 0 /\ 8 > 0
    BY PatchSizes, PcMagic
<1>2. Patched(m, m, v) = v
    BY <1>1, PatchedMagic
<1>3. Clear(pc) => /\ ~Occurs(v, REPLACE_WITH_FLUSH) /\ ~Occurs(v, REPLACE_WITH_REGHOOK_OFFSET)
                   /\ ~Occurs(v, REPLACE_WITH_REGHOOK_SIZE)
    <2>1. /\ REPLACE_WITH_FLUSH \in Seq(Byte) /\ REPLACE_WITH_REGHOOK_OFFSET \in Seq(Byte)
          /\ REPLACE_WITH_REGHOOK_SIZE \in Seq(Byte)
        BY <1>1, Magics, BytesType
    <2>2. /\ REPLACE_WITH_FLUSH \in Placeholders /\ REPLACE_WITH_REGHOOK_OFFSET \in Placeholders
          /\ REPLACE_WITH_REGHOOK_SIZE \in Placeholders
        BY DEF Placeholders
    <2> QED
        BY <2>1, <2>2, NotInLow DEF Clear
<1> HIDE DEF m, v, o, s
<1> DEFINE a == Patched(v, REPLACE_WITH_FLUSH, flush)
<1>4. a \in Bytes(w) /\ (Clear(pc) => a = v)
    BY <1>1, <1>3, Magics, PatchedBytes
<1>5. Step2(m, w, pc, flush) = a
    BY <1>2, Zenon DEF Step2, m, v
<1> HIDE DEF a
<1> DEFINE b == Patched(a, REPLACE_WITH_REGHOOK_OFFSET, o)
<1>6. b \in Bytes(w) /\ (~Occurs(a, REPLACE_WITH_REGHOOK_OFFSET) => b = a)
    BY <1>1, <1>4, Magics, PatchedBytes
<1> HIDE DEF b
<1> DEFINE c == Patched(b, REPLACE_WITH_REGHOOK_SIZE, s)
<1>7. c \in Bytes(w) /\ (~Occurs(b, REPLACE_WITH_REGHOOK_SIZE) => c = b)
    BY <1>1, <1>6, Magics, PatchedBytes
<1>8. Step4(m, w, pc, flush, offset, size) = c
    BY <1>5, Zenon DEF Step4, b, o, s
<1> HIDE DEF c
<1>9. Clear(pc) => a = v /\ c = v
    BY <1>3, <1>4, <1>6, <1>7, Zenon
<1> QED
    BY <1>4, <1>5, <1>7, <1>8, <1>9, Zenon DEF m, v

\* The offset and the size of the register block.
LEMMA BlockSegments ==
    ASSUME NEW w \in Widths, NEW pc \in Words, NEW flush \in Words, NEW offset \in Nat,
           NEW size \in Nat
    PROVE  /\ Step4(REPLACE_WITH_REGHOOK_OFFSET, w, pc, flush, offset, size) = Word(offset, 4)
           /\ Step4(REPLACE_WITH_REGHOOK_SIZE, w, pc, flush, offset, size) = Word(size, 4)
<1> DEFINE m == Low(REPLACE_WITH_PC, w)  v == Low(pc, w)  o == Word(offset, 4)  s == Word(size, 4)
           O == REPLACE_WITH_REGHOOK_OFFSET  S == REPLACE_WITH_REGHOOK_SIZE
<1>1. /\ m \in Bytes(w) /\ v \in Bytes(w) /\ flush \in Bytes(8) /\ o \in Bytes(4) /\ s \in Bytes(4)
      /\ w \in Nat /\ w > 0 /\ 4 \in Nat /\ 8 \in Nat /\ 4 > 0 /\ 8 > 0 /\ m[1] = 132 /\ 4 < 8
      /\ o[4] = 0
    BY PatchSizes, PcMagic
<1>2. /\ O \in Bytes(4) /\ S \in Bytes(4)
      /\ \A i \in 1 .. 4 : O[i] # 132 /\ S[i] # 132
      /\ S[1] # O[1] /\ S[4] = 101
    <2>1. \A i \in 1 .. 4 : O[i] # 132 /\ S[i] # 132
        BY DEF REPLACE_WITH_REGHOOK_OFFSET, REPLACE_WITH_REGHOOK_SIZE
    <2>2. S[1] # O[1] /\ S[4] = 101
        BY DEF REPLACE_WITH_REGHOOK_OFFSET, REPLACE_WITH_REGHOOK_SIZE
    <2> QED
        BY <2>1, <2>2, Magics
<1> HIDE DEF m, v, o, s, O, S
<1>3. ~Occurs(O, m) /\ ~Occurs(S, m)
    BY <1>1, <1>2, Absent
<1>4. Patched(O, m, v) = O /\ Patched(S, m, v) = S
    BY <1>1, <1>2, <1>3, PatchedBytes
<1>5. /\ Patched(O, REPLACE_WITH_FLUSH, flush) = O
      /\ Patched(S, REPLACE_WITH_FLUSH, flush) = S
    BY <1>1, <1>2, Magics, PatchedBytes
<1>6. Step2(O, w, pc, flush) = O /\ Step2(S, w, pc, flush) = S
    BY <1>4, <1>5, Zenon DEF Step2, m, v
<1>7. ~Occurs(S, O)
    BY <1>1, <1>2, AbsentEqual
<1>8. ~Occurs(o, S)
    <2>1. o # S
        BY <1>1, <1>2
    <2> QED
        BY <1>1, <1>2, <2>1, AbsentEqual
<1>9. Patched(O, O, o) = o /\ Patched(o, S, s) = o
    BY <1>1, <1>2, <1>8, PatchedMagic, PatchedBytes
<1>10. Patched(S, O, o) = S /\ Patched(S, S, s) = s
    BY <1>1, <1>2, <1>7, PatchedMagic, PatchedBytes
<1> QED
    BY <1>6, <1>9, <1>10, Zenon DEF Step4, o, s, O, S
-----------------------------------------------------------------------------
(* The hooks of instructions. *)

\* patch goes through a template segment by segment.
LEMMA PatchAt ==
    ASSUME NEW segs, NEW magic, NEW new
    PROVE  /\ DOMAIN patch(segs, magic, new) = DOMAIN segs
           /\ \A k \in DOMAIN segs : patch(segs, magic, new)[k] = Patched(segs[k], magic, new)
BY DEF patch

\* The patches of lift_memop, and of lift_instruction for hooks without registers.
Lifted2(segs, w, pc, flush) ==
    patch(patch(segs, Low(REPLACE_WITH_PC, w), Low(pc, w)), REPLACE_WITH_FLUSH, flush)
Lifted4(segs, w, pc, flush, offset, size) ==
    patch(patch(Lifted2(segs, w, pc, flush), REPLACE_WITH_REGHOOK_OFFSET, Word(offset, 4)),
          REPLACE_WITH_REGHOOK_SIZE, Word(size, 4))

\* The same, segment by segment.
LEMMA LiftedAt ==
    ASSUME NEW segs, NEW w, NEW pc, NEW flush, NEW offset, NEW size, NEW k \in DOMAIN segs
    PROVE  /\ Lifted2(segs, w, pc, flush)[k] = Step2(segs[k], w, pc, flush)
           /\ Lifted4(segs, w, pc, flush, offset, size)[k] =
                  Step4(segs[k], w, pc, flush, offset, size)
<1> DEFINE m == Low(REPLACE_WITH_PC, w)  v == Low(pc, w)  o == Word(offset, 4)  s == Word(size, 4)
           a == patch(segs, m, v)  b == patch(a, REPLACE_WITH_FLUSH, flush)
           c == patch(b, REPLACE_WITH_REGHOOK_OFFSET, o)
           d == patch(c, REPLACE_WITH_REGHOOK_SIZE, s)
<1>1. Lifted2(segs, w, pc, flush) = b /\ Lifted4(segs, w, pc, flush, offset, size) = d
    BY Zenon DEF Lifted2, Lifted4
<1>2. DOMAIN a = DOMAIN segs /\ a[k] = Patched(segs[k], m, v)
    BY PatchAt
<1> HIDE DEF a
<1>3. DOMAIN b = DOMAIN segs /\ b[k] = Patched(a[k], REPLACE_WITH_FLUSH, flush)
    BY <1>2, PatchAt
<1> HIDE DEF b
<1>4. DOMAIN c = DOMAIN segs /\ c[k] = Patched(b[k], REPLACE_WITH_REGHOOK_OFFSET, o)
    BY <1>3, PatchAt
<1> HIDE DEF c
<1>5. d[k] = Patched(c[k], REPLACE_WITH_REGHOOK_SIZE, s)
    BY <1>4, PatchAt
<1> HIDE DEF d
<1> QED
    BY <1>1, <1>2, <1>3, <1>4, <1>5, Zenon DEF Step2, Step4, m, v, o, s

\* lift_instruction patches the template of its type.
LEMMA LiftInstruction ==
    ASSUME NEW w, NEW pc, NEW bb_end, NEW flush, NEW gprs
    PROVE  /\ \A type \in {"Always", "Once"} :
                 lift_instruction(w, pc, bb_end, type, flush, gprs)
                     = Lifted2(create_insthook(w), w, pc, flush)
           /\ lift_instruction(w, pc, bb_end, "Register", flush, gprs)
                  = Lifted4(create_reghook(w), w, pc, flush, gprs.offset, gprs.size)
           /\ lift_instruction(w, pc, bb_end, "Branch", flush, gprs)
                  = Lifted4(create_branchhook(w, bb_end), w, pc, flush, gprs.offset, gprs.size)
<1>1. /\ \A type \in {"Always", "Once"} : Template(type, w, bb_end) = create_insthook(w)
      /\ Template("Register", w, bb_end) = create_reghook(w)
      /\ Template("Branch", w, bb_end) = create_branchhook(w, bb_end)
    BY DEF Template
<1>2. \A type \in {"Always", "Once"} : ~(type \in {"Register", "Branch"})
    OBVIOUS
<1> QED
    BY <1>1, <1>2, Zenon DEF lift_instruction, Lifted2, Lifted4

\* The event e, at another program counter if its own has a placeholder.
AtSome(pc, e, ev) == e = ev \/ (~Clear(pc) /\ \E v : e = [ev EXCEPT !.pc = v])

\* An event with another program counter.
LEMMA AtSomeMade ==
    ASSUME NEW pc, NEW ev, NEW v, NEW e, e = [ev EXCEPT !.pc = v], Clear(pc) => e = ev
    PROVE  AtSome(pc, e, ev)
BY DEF AtSome

\* The largest packet of a hook.
Room(ev) == IF ev.op \in {"regs", "branch"} THEN 14 + Len(ev.regs) ELSE 25

\* A hook tells an event: it makes room for exactly its packet, it calls flush,
\* and its packet tells the event; all but the program counter in it is right
\* even if that has a placeholder.
HookTells(h, feature, flush, pc, ev) ==
    /\ h.flush = flush /\ h.packet \in Seq(Byte)
    /\ Len(h.packet) = h.room /\ h.room <= Room(ev)
    /\ \E e : AtSome(pc, e, ev) /\ Tells(feature, h.packet, e)

\* The hook of an instruction. (lift_instruction, create_insthook, parse_payload)
THEOREM InstHookTells ==
    ASSUME NEW feature, NEW w \in Widths, NEW pc \in Words, Fits(pc, w), NEW flush \in Words,
           NEW bb_end, NEW gprs, NEW type \in {"Always", "Once"}
    PROVE  HookTells(RunInst(lift_instruction(w, pc, bb_end, type, flush, gprs), w),
                     feature, flush, pc, [op |-> "exec", pc |-> pc])
<1> DEFINE segs == create_insthook(w)  m == Low(REPLACE_WITH_PC, w)
           code == lift_instruction(w, pc, bb_end, type, flush, gprs)
           h == RunInst(code, w)
           ev == [op |-> "exec", pc |-> pc]
<1>1. code = Lifted2(segs, w, pc, flush)
    BY LiftInstruction
<1>2. /\ 2 \in DOMAIN segs /\ 4 \in DOMAIN segs /\ 6 \in DOMAIN segs
      /\ segs[2] = REPLACE_WITH_FLUSH /\ segs[4] = Op(0, w) /\ segs[6] = m
    BY DEF create_insthook
<1> HIDE DEF segs, code
<1>3. code[2] = flush
    <2>1. code[2] = Step2(REPLACE_WITH_FLUSH, w, pc, flush)
        BY <1>1, <1>2, LiftedAt
    <2>2. 0 \in Nat
        OBVIOUS
    <2> QED
        BY <2>1, <2>2, FlushSegment, Zenon
<1>4. Op(0, w) \in Bytes(1)
    <2>1. 0 \in Nat /\ 0 < 128 /\ <<>> \in Seq(Byte)
        OBVIOUS
    <2> QED
        BY <2>1, Opened
<1>5. code[4] = Op(0, w)
    <2>1. 1 \in Nat /\ 1 < 4
        OBVIOUS
    <2> QED
        BY <1>1, <1>2, <1>4, <2>1, LiftedAt, SmallSegment
<1> DEFINE v == code[6]
<1>6. v \in Bytes(w) /\ (Clear(pc) => v = Low(pc, w))
    <2>1. v = Step2(m, w, pc, flush)
        BY <1>1, <1>2, LiftedAt
    <2>2. 0 \in Nat
        OBVIOUS
    <2> QED
        BY <2>1, <2>2, PcSegment, Zenon
<1>7. h = [room |-> 1 + w, flush |-> code[2], packet |-> Cat(Op(0, w), v)]
    BY <1>5, Zenon DEF RunInst, Cat
<1> HIDE DEF v, h
<1>8. h.room = 1 + w /\ h.flush = flush /\ h.packet = Cat(Op(0, w), v)
    BY <1>3, <1>7
<1>9. Cat(Op(0, w), v) \in Seq(Byte) /\ Len(Cat(Op(0, w), v)) = 1 + w
    <2>1. w \in Nat /\ 1 \in Nat
        BY DEF Widths
    <2>2. PICK n \in Nat : n = 1 + w
        BY <2>1
    <2>3. Op(0, w) \o v \in Bytes(n)
        BY <1>4, <1>6, <2>1, <2>2, Grows
    <2> QED
        BY <2>2, <2>3, BytesType DEF Cat
<1>10. \E e : AtSome(pc, e, ev) /\ Tells(feature, Cat(Op(0, w), v), e)
    <2> DEFINE at == U64(v)  e == [op |-> "exec", pc |-> at]
    <2>1. Tells(feature, Cat(Op(0, w), v), e)
        BY <1>6, ExecTold
    <2>2. U64(Low(pc, w)) = pc
        BY WordKept DEF Widths
    <2>3. Clear(pc) => at = pc
        BY <1>6, <2>2, Zenon
    <2> HIDE DEF at
    <2>4. AtSome(pc, e, ev)
        <3>1. e = [ev EXCEPT !.pc = at] /\ (Clear(pc) => e = ev)
            BY <2>3
        <3> HIDE DEF e, ev
        <3> QED
            BY <3>1, AtSomeMade
    <2> QED
        BY <2>1, <2>4
<1>11. h.room <= Room(ev)
    BY <1>8 DEF Room, Widths
<1> QED
    BY <1>8, <1>9, <1>10, <1>11, Zenon DEF HookTells, h, code

\* The parts of a register block's packet, one after the other.
LEMMA RegsPacket ==
    ASSUME NEW w \in Nat, NEW h \in Bytes(1), NEW s \in Bytes(4), NEW v \in Bytes(w),
           NEW k \in Nat, NEW f \in Bytes(k), NEW size \in Nat, NEW block \in Bytes(size),
           NEW n \in Nat, n = 1 + 4 + w + k + size
    PROVE  /\ Cat(Cat(Cat(Cat(h, s), v), f), block) \in Bytes(n)
           /\ Low(Cat(Cat(Cat(Cat(h, s), v), f), block), n) = Cat(Cat(Cat(Cat(h, s), v), f), block)
           /\ f = <<>> => Cat(Cat(Cat(Cat(h, s), v), f), block) = Cat(Cat(Cat(h, s), v), block)
<1> DEFINE a == Cat(h, s)  b == Cat(a, v)  c == Cat(b, f)  d == Cat(c, block)
<1>1. PICK i \in Nat, j \in Nat, l \in Nat, o \in Nat, u \in Nat :
          o = 1 /\ u = 4 /\ i = o + u /\ j = i + w /\ l = j + k /\ n = l + size
    OBVIOUS
<1>2. a \in Bytes(i)
    BY <1>1, Grows DEF Cat
<1> HIDE DEF a
<1>3. b \in Bytes(j)
    BY <1>1, <1>2, Grows DEF Cat
<1> HIDE DEF b
<1>4. c \in Bytes(l)
    BY <1>1, <1>3, Grows DEF Cat
<1>5. f = <<>> => c = b
    <2>1. b \in Seq(Byte)
        BY <1>3, BytesType
    <2>2. b \o <<>> = b
        BY <2>1
    <2> QED
        BY <2>2 DEF Cat
<1> HIDE DEF c
<1>6. d \in Bytes(n)
    BY <1>1, <1>4, Grows DEF Cat
<1>7. f = <<>> => d = Cat(b, block)
    BY <1>5
<1> HIDE DEF d
<1>8. Low(d, n) = d
    BY <1>6, LowBytes
<1> QED
    BY <1>6, <1>7, <1>8, Zenon DEF a, b, c, d

\* rep movsb copies the block.
LEMMA BlockCopied ==
    ASSUME NEW env \in Seq(Byte), NEW offset \in Nat, NEW size \in Nat, offset + size <= Len(env)
    PROVE  /\ Low(From(env, offset), size) = Field(env, offset, size)
           /\ Field(env, offset, size) \in Bytes(size)
<1>1. Len(env) \in Nat
    BY LenProperties
<1>2. PICK k \in Nat : Len(env) = offset + k
    BY <1>1
<1> DEFINE b == From(env, offset)
<1>3. b \in Seq(Byte) /\ Len(b) = k
    BY <1>2, FromType
<1>4. 0 \in Nat /\ offset = offset + 0
    OBVIOUS
<1>5. Field(b, 0, size) = Field(env, offset, size)
    BY <1>4, FieldFrom
<1>6. Field(env, offset, size) \in Bytes(size)
    BY FieldType DEF Bytes
<1> HIDE DEF b
<1>7. Low(b, size) = Field(b, 0, size)
    <2>1. ~(Len(b) < size)
        BY <1>2, <1>3
    <2> QED
        BY <2>1, Zenon DEF Low
<1> QED
    BY <1>5, <1>6, <1>7, Zenon DEF b

\* A template that copies the register block, with this opcode and this flag.
RegTemplate(segs, w, op, f) ==
    /\ 1 .. 18 \subseteq DOMAIN segs
    /\ \A i \in {2, 8, 16, 18} : segs[i] = REPLACE_WITH_REGHOOK_SIZE
    /\ segs[4] = REPLACE_WITH_FLUSH /\ segs[6] = op /\ segs[10] = Low(REPLACE_WITH_PC, w)
    /\ segs[12] = f /\ segs[14] = REPLACE_WITH_REGHOOK_OFFSET

\* What such a hook does.
LEMMA RegsRun ==
    ASSUME NEW w \in Widths, NEW pc \in Words, NEW flush \in Words, NEW offset \in Nat,
           offset < Huge, NEW size \in Nat, size < Huge, NEW env \in Seq(Byte),
           offset + size <= Len(env), NEW op \in Bytes(1), NEW k \in Nat, k < 4,
           NEW f \in Bytes(k), NEW segs, RegTemplate(segs, w, op, f),
           ~Occurs(flush, REPLACE_WITH_REGHOOK_OFFSET), ~Occurs(flush, REPLACE_WITH_REGHOOK_SIZE)
    PROVE  LET code == Lifted4(segs, w, pc, flush, offset, size)
               v == Step4(Low(REPLACE_WITH_PC, w), w, pc, flush, offset, size)
           IN RunRegs(code, w, env) =
                 [room |-> 1 + 4 + w + k + size, flush |-> flush,
                  packet |-> Cat(Cat(Cat(Cat(op, Word(size, 4)), v), f), Field(env, offset, size))]
<1> DEFINE code == Lifted4(segs, w, pc, flush, offset, size)
           v == Step4(Low(REPLACE_WITH_PC, w), w, pc, flush, offset, size)
           s == Word(size, 4)  block == Field(env, offset, size)
           all == Cat(Cat(Cat(Cat(op, s), v), f), block)
<1>1. \A i \in 1 .. 18 : code[i] = Step4(segs[i], w, pc, flush, offset, size)
    <2>1. SUFFICES ASSUME NEW i \in 1 .. 18
                   PROVE  code[i] = Step4(segs[i], w, pc, flush, offset, size)
        OBVIOUS
    <2>2. i \in DOMAIN segs
        BY DEF RegTemplate
    <2> QED
        BY <2>2, LiftedAt
<1> HIDE DEF code
<1>2. \A i \in {2, 8, 16, 18} : code[i] = s
    BY <1>1, BlockSegments, SMTT(30) DEF RegTemplate
<1>3. code[4] = flush
    BY <1>1, FlushSegment, SMTT(30) DEF RegTemplate
<1>4. code[6] = op
    <2>1. 1 \in Nat /\ 1 < 4 /\ code[6] = Step4(op, w, pc, flush, offset, size)
        BY <1>1 DEF RegTemplate
    <2> QED
        BY <2>1, SmallSegment
<1>5. code[12] = f
    <2>1. code[12] = Step4(f, w, pc, flush, offset, size)
        BY <1>1 DEF RegTemplate
    <2> QED
        BY <2>1, SmallSegment
<1>6. code[10] = v
    BY <1>1 DEF RegTemplate
<1>7. code[14] = Word(offset, 4)
    BY <1>1, BlockSegments, SMTT(30) DEF RegTemplate
<1>8. Length(code[14]) = offset /\ Length(s) = size /\ s \in Bytes(4) /\ Len(code[12]) = k
    <2>1. Len(f) = k
        BY BytesType
    <2> QED
        BY <1>5, <1>7, <2>1, NumberKept
<1>9. Low(From(env, offset), size) = block /\ block \in Bytes(size)
    BY BlockCopied
<1>10. v \in Bytes(w)
    BY PcSegment
<1> DEFINE n == 1 + 4 + w + k + size
<1>11. Low(all, n) = all
    <2>1. w \in Nat /\ n \in Nat /\ n = 1 + 4 + w + k + size
        BY DEF Widths
    <2> HIDE DEF n, v, s, block
    <2> QED
        BY <1>8, <1>9, <1>10, <2>1, RegsPacket
<1> HIDE DEF v, s, block
<1>12. RunRegs(code, w, env) =
          [room |-> 1 + 4 + w + Len(code[12]) + Length(code[2]), flush |-> code[4],
           packet |-> Low(code[6] \o code[8] \o code[10] \o code[12]
                            \o Low(From(env, Length(code[14])), Length(code[16])),
                          1 + 4 + w + Len(code[12]) + Length(code[18]))]
    BY Zenon DEF RunRegs
<1>13. code[6] \o code[8] \o code[10] \o code[12]
           \o Low(From(env, Length(code[14])), Length(code[16])) = all
    <2>1. code[8] = s /\ code[16] = s
        BY <1>2
    <2> QED
        BY <1>4, <1>5, <1>6, <1>8, <1>9, <2>1, Zenon DEF Cat
<1>14. 1 + 4 + w + Len(code[12]) + Length(code[2]) = n /\ 1 + 4 + w + Len(code[12]) + Length(code[18]) = n
    <2>1. code[2] = s /\ code[18] = s
        BY <1>2
    <2> QED
        BY <1>8, <2>1, Zenon
<1> HIDE DEF n
<1>15. RunRegs(code, w, env) = [room |-> n, flush |-> flush, packet |-> all]
    BY <1>3, <1>11, <1>12, <1>13, <1>14, Zenon
<1> QED
    BY <1>15, Zenon DEF code, n, v, s, block

\* The hook of an instruction that copies the registers, and that of one that
\* ends a basic block. (lift_instruction, create_reghook, parse_payload)
THEOREM RegsHookTells ==
    ASSUME NEW feature, NEW w \in Widths, NEW pc \in Words, Fits(pc, w), NEW flush \in Words,
           ~Occurs(flush, REPLACE_WITH_REGHOOK_OFFSET), ~Occurs(flush, REPLACE_WITH_REGHOOK_SIZE),
           NEW bb_end \in BOOLEAN, NEW gprs, gprs.offset \in Nat, gprs.offset < Huge,
           gprs.size \in Nat, gprs.size < Huge, NEW env \in Seq(Byte),
           gprs.offset + gprs.size <= Len(env)
    PROVE  LET block == Field(env, gprs.offset, gprs.size) IN
           /\ HookTells(RunRegs(lift_instruction(w, pc, bb_end, "Register", flush, gprs), w, env),
                        feature, flush, pc, [op |-> "regs", pc |-> pc, regs |-> block])
           /\ HookTells(RunRegs(lift_instruction(w, pc, bb_end, "Branch", flush, gprs), w, env),
                        feature, flush, pc,
                        [op |-> "branch", pc |-> pc, branch |-> bb_end, regs |-> block])
<1> DEFINE offset == gprs.offset  size == gprs.size
           block == Field(env, offset, size)
           v == Step4(Low(REPLACE_WITH_PC, w), w, pc, flush, offset, size)
           s == Word(size, 4)
<1>1. /\ offset \in Nat /\ offset < Huge /\ size \in Nat /\ size < Huge
      /\ offset + size <= Len(env) /\ w \in {4, 8} /\ w \in Nat
    BY DEF Widths
<1> HIDE DEF offset, size
<1>2. v \in Bytes(w) /\ (Clear(pc) => v = Low(pc, w)) /\ s \in Bytes(4) /\ block \in Bytes(size)
    <2>1. v \in Bytes(w) /\ (Clear(pc) => v = Low(pc, w))
        BY <1>1, PcSegment
    <2>2. s \in Bytes(4)
        BY <1>1, NumberKept
    <2>3. block \in Bytes(size)
        BY <1>1, BlockCopied
    <2> QED
        BY <2>1, <2>2, <2>3
<1>3. U64(Low(pc, w)) = pc
    BY <1>1, WordKept
<1> DEFINE reg == Lifted4(create_reghook(w), w, pc, flush, offset, size)
           branch == Lifted4(create_branchhook(w, bb_end), w, pc, flush, offset, size)
<1>4. /\ lift_instruction(w, pc, bb_end, "Register", flush, gprs) = reg
      /\ lift_instruction(w, pc, bb_end, "Branch", flush, gprs) = branch
    <2>1. /\ lift_instruction(w, pc, bb_end, "Register", flush, gprs)
                 = Lifted4(create_reghook(w), w, pc, flush, gprs.offset, gprs.size)
          /\ lift_instruction(w, pc, bb_end, "Branch", flush, gprs)
                 = Lifted4(create_branchhook(w, bb_end), w, pc, flush, gprs.offset, gprs.size)
        BY LiftInstruction
    <2> QED
        BY <2>1 DEF offset, size
<1>5. Op(1, w) \in Bytes(1) /\ Op(64, w) \in Bytes(1)
    <2>1. 1 \in Nat /\ 1 < 128 /\ 64 \in Nat /\ 64 < 128 /\ <<>> \in Seq(Byte)
        OBVIOUS
    <2> QED
        BY <2>1, Opened
<1>6. <<>> \in Bytes(0) /\ Flag(bb_end) \in Bytes(1) /\ 0 \in Nat /\ 0 < 4 /\ 1 \in Nat /\ 1 < 4
    BY DEF Bytes, Flag, Byte
<1>7. RegTemplate(create_reghook(w), w, Op(1, w), <<>>)
    BY DEF RegTemplate, create_reghook
<1>8. RegTemplate(create_branchhook(w, bb_end), w, Op(64, w), Flag(bb_end))
    BY DEF RegTemplate, create_reghook, create_branchhook
<1> DEFINE b == Cat(Cat(Cat(Op(1, w), s), v), block)
           h == RunRegs(reg, w, env)
<1>9. /\ h.room = 1 + 4 + w + 0 + size /\ h.flush = flush
      /\ h.packet = Cat(Cat(Cat(Cat(Op(1, w), s), v), <<>>), block)
    <2> DEFINE segs == create_reghook(w)  op == Op(1, w)  f == <<>>  k == 0
    <2>1. op \in Bytes(1) /\ k \in Nat /\ k < 4 /\ f \in Bytes(k) /\ RegTemplate(segs, w, op, f)
        BY <1>5, <1>6, <1>7
    <2> HIDE DEF segs, op, f, k
    <2>2. RunRegs(Lifted4(segs, w, pc, flush, offset, size), w, env) =
              [room |-> 1 + 4 + w + k + size, flush |-> flush,
               packet |-> Cat(Cat(Cat(Cat(op, s), v), f), block)]
        BY <1>1, <2>1, RegsRun
    <2>3. h = [room |-> 1 + 4 + w + 0 + size, flush |-> flush,
               packet |-> Cat(Cat(Cat(Cat(Op(1, w), s), v), <<>>), block)]
        BY <2>2, Zenon DEF segs, op, f, k
    <2> QED
        BY <2>3
<1> DEFINE c == Cat(Cat(Cat(Cat(Op(64, w), s), v), Flag(bb_end)), block)
           g == RunRegs(branch, w, env)
<1>10. g.room = 1 + 4 + w + 1 + size /\ g.flush = flush /\ g.packet = c
    <2> DEFINE segs == create_branchhook(w, bb_end)  op == Op(64, w)  f == Flag(bb_end)  k == 1
    <2>1. op \in Bytes(1) /\ k \in Nat /\ k < 4 /\ f \in Bytes(k) /\ RegTemplate(segs, w, op, f)
        BY <1>5, <1>6, <1>8
    <2> HIDE DEF segs, op, f, k
    <2>2. RunRegs(Lifted4(segs, w, pc, flush, offset, size), w, env) =
              [room |-> 1 + 4 + w + k + size, flush |-> flush,
               packet |-> Cat(Cat(Cat(Cat(op, s), v), f), block)]
        BY <1>1, <2>1, RegsRun
    <2>3. g = [room |-> 1 + 4 + w + 1 + size, flush |-> flush, packet |-> c]
        BY <2>2, Zenon DEF segs, op, f, k
    <2> QED
        BY <2>3
<1> HIDE DEF v, s, block, h, g
<1> DEFINE at == U64(v)
<1>15. Clear(pc) => at = pc
    BY <1>2, <1>3, Zenon
<1>11. /\ Tells(feature, b, [op |-> "regs", pc |-> at, regs |-> block])
       /\ h.packet = b /\ b \in Seq(Byte) /\ Len(b) = h.room
    <2>1. PICK n \in Nat : n = 1 + 4 + w + 0 + size
        BY <1>1
    <2>2. b \in Bytes(n) /\ h.packet = b
        <3> DEFINE op == Op(1, w)  f == <<>>  k == 0
                   all == Cat(Cat(Cat(Cat(op, s), v), f), block)
        <3>1. op \in Bytes(1) /\ k \in Nat /\ f \in Bytes(k) /\ n = 1 + 4 + w + k + size /\ f = <<>>
            BY <1>5, <1>6, <2>1
        <3>2. h.packet = all
            BY <1>9
        <3> HIDE DEF op, f, k
        <3>3. all \in Bytes(n) /\ all = Cat(Cat(Cat(op, s), v), block)
            BY <1>1, <1>2, <3>1, RegsPacket
        <3> HIDE DEF all
        <3> QED
            BY <3>2, <3>3 DEF op
    <2>3. b \in Seq(Byte) /\ Len(b) = n
        BY <2>2, BytesType
    <2>4. Tells(feature, b, [op |-> "regs", pc |-> U64(v), regs |-> block])
        BY <1>1, <1>2, RegsTold DEF s
    <2> QED
        BY <1>2, <1>3, <1>9, <2>1, <2>2, <2>3, <2>4, Zenon
<1>12. /\ Tells(feature, c, [op |-> "branch", pc |-> at, branch |-> bb_end, regs |-> block])
       /\ c \in Seq(Byte) /\ Len(c) = g.room
    <2>1. PICK n \in Nat : n = 1 + 4 + w + 1 + size
        BY <1>1
    <2>2. c \in Bytes(n)
        <3> DEFINE op == Op(64, w)  f == Flag(bb_end)  k == 1
        <3>1. op \in Bytes(1) /\ k \in Nat /\ f \in Bytes(k) /\ n = 1 + 4 + w + k + size
            BY <1>5, <1>6, <2>1
        <3> HIDE DEF op, f, k
        <3>3. Cat(Cat(Cat(Cat(op, s), v), f), block) \in Bytes(n)
            BY <1>1, <1>2, <3>1, RegsPacket
        <3> QED
            BY <3>3 DEF op, f
    <2>3. c \in Seq(Byte) /\ Len(c) = n
        BY <2>2, BytesType
    <2>4. Tells(feature, c, [op |-> "branch", pc |-> U64(v), branch |-> bb_end, regs |-> block])
        BY <1>1, <1>2, BranchTold DEF s
    <2> QED
        BY <1>2, <1>3, <1>10, <2>1, <2>2, <2>3, <2>4, Zenon
<1> HIDE DEF b, c, at
<1>16. Len(block) = size
    BY <1>1, <1>2, BytesType
<1>13. HookTells(h, feature, flush, pc, [op |-> "regs", pc |-> pc, regs |-> block])
    <2> DEFINE e == [op |-> "regs", pc |-> at, regs |-> block]
               ev == [op |-> "regs", pc |-> pc, regs |-> block]
    <2>1. AtSome(pc, e, ev)
        <3>1. e = [ev EXCEPT !.pc = at] /\ (Clear(pc) => e = ev)
            BY <1>15
        <3> HIDE DEF e, ev
        <3> QED
            BY <3>1, AtSomeMade
    <2>2. h.room <= Room(ev)
        BY <1>1, <1>9, <1>16 DEF Room
    <2> QED
        BY <1>9, <1>11, <2>1, <2>2, Zenon DEF HookTells
<1>14. HookTells(g, feature, flush, pc,
                 [op |-> "branch", pc |-> pc, branch |-> bb_end, regs |-> block])
    <2> DEFINE e == [op |-> "branch", pc |-> at, branch |-> bb_end, regs |-> block]
               ev == [op |-> "branch", pc |-> pc, branch |-> bb_end, regs |-> block]
    <2>1. AtSome(pc, e, ev)
        <3>1. e = [ev EXCEPT !.pc = at] /\ (Clear(pc) => e = ev)
            BY <1>15
        <3> HIDE DEF e, ev
        <3> QED
            BY <3>1, AtSomeMade
    <2>2. g.room <= Room(ev)
        BY <1>1, <1>10, <1>16 DEF Room
    <2> QED
        BY <1>10, <1>12, <2>1, <2>2, Zenon DEF HookTells
<1> QED
    BY <1>4, <1>13, <1>14, Zenon DEF h, g, block, offset, size
-----------------------------------------------------------------------------
(* The hooks of memory accesses. *)

\* The sizes of an access, and the host's registers.
Sizes == {1, 2, 4, 8}
HostRegisters == 0 .. 15

\* The names of the registers are all different.
LEMMA NamesDiffer ==
    ASSUME NEW v \in Sizes, NEW u \in Sizes, NEW r \in HostRegisters, NEW s \in HostRegisters,
           RegisterNames[v][r] = RegisterNames[u][s]
    PROVE  v = u /\ r = s
<1>1. \A i \in 0 .. 15, j \in 0 .. 15 : Reg8[i] = Reg8[j] => i = j
    BY DEF Reg8, Registers
<1>2. \A i \in 0 .. 15, j \in 0 .. 15 : Reg8[i] # Reg16[j]
    BY DEF Reg8, Reg16, Registers
<1>3. \A i \in 0 .. 15, j \in 0 .. 15 : Reg8[i] # Reg32[j]
    BY DEF Reg8, Reg32, Registers
<1>4. \A i \in 0 .. 15, j \in 0 .. 15 : Reg8[i] # Reg64[j]
    BY DEF Reg8, Reg64, Registers
<1>5. \A i \in 0 .. 15, j \in 0 .. 15 : Reg16[i] = Reg16[j] => i = j
    BY DEF Reg16, Registers
<1>6. \A i \in 0 .. 15, j \in 0 .. 15 : Reg16[i] # Reg32[j]
    BY DEF Reg16, Reg32, Registers
<1>7. \A i \in 0 .. 15, j \in 0 .. 15 : Reg16[i] # Reg64[j]
    BY DEF Reg16, Reg64, Registers
<1>8. \A i \in 0 .. 15, j \in 0 .. 15 : Reg32[i] = Reg32[j] => i = j
    BY DEF Reg32, Registers
<1>9. \A i \in 0 .. 15, j \in 0 .. 15 : Reg32[i] # Reg64[j]
    BY DEF Reg32, Reg64, Registers
<1>10. \A i \in 0 .. 15, j \in 0 .. 15 : Reg64[i] = Reg64[j] => i = j
    BY DEF Reg64, Registers
<1>11. /\ RegisterNames[1] = Reg8 /\ RegisterNames[2] = Reg16
       /\ RegisterNames[4] = Reg32 /\ RegisterNames[8] = Reg64
    BY DEF RegisterNames
<1>12. CASE v = 1
    <2>1. RegisterNames[v][r] = Reg8[r]
        BY <1>11, <1>12
    <2>2. CASE u = 1
        <3>1. Reg8[r] = Reg8[s]
            BY <1>11, <2>1, <2>2
        <3> QED
            BY <1>1, <1>12, <2>2, <3>1 DEF HostRegisters
    <2>3. CASE u = 2
        <3>1. Reg8[r] = Reg16[s]
            BY <1>11, <2>1, <2>3
        <3> QED
            BY <1>2, <1>12, <2>3, <3>1 DEF HostRegisters
    <2>4. CASE u = 4
        <3>1. Reg8[r] = Reg32[s]
            BY <1>11, <2>1, <2>4
        <3> QED
            BY <1>3, <1>12, <2>4, <3>1 DEF HostRegisters
    <2>5. CASE u = 8
        <3>1. Reg8[r] = Reg64[s]
            BY <1>11, <2>1, <2>5
        <3> QED
            BY <1>4, <1>12, <2>5, <3>1 DEF HostRegisters
    <2> QED
        BY <2>2, <2>3, <2>4, <2>5 DEF Sizes
<1>13. CASE v = 2
    <2>1. RegisterNames[v][r] = Reg16[r]
        BY <1>11, <1>13
    <2>2. CASE u = 1
        <3>1. Reg16[r] = Reg8[s]
            BY <1>11, <2>1, <2>2
        <3> QED
            BY <1>2, <1>13, <2>2, <3>1 DEF HostRegisters
    <2>3. CASE u = 2
        <3>1. Reg16[r] = Reg16[s]
            BY <1>11, <2>1, <2>3
        <3> QED
            BY <1>5, <1>13, <2>3, <3>1 DEF HostRegisters
    <2>4. CASE u = 4
        <3>1. Reg16[r] = Reg32[s]
            BY <1>11, <2>1, <2>4
        <3> QED
            BY <1>6, <1>13, <2>4, <3>1 DEF HostRegisters
    <2>5. CASE u = 8
        <3>1. Reg16[r] = Reg64[s]
            BY <1>11, <2>1, <2>5
        <3> QED
            BY <1>7, <1>13, <2>5, <3>1 DEF HostRegisters
    <2> QED
        BY <2>2, <2>3, <2>4, <2>5 DEF Sizes
<1>14. CASE v = 4
    <2>1. RegisterNames[v][r] = Reg32[r]
        BY <1>11, <1>14
    <2>2. CASE u = 1
        <3>1. Reg32[r] = Reg8[s]
            BY <1>11, <2>1, <2>2
        <3> QED
            BY <1>3, <1>14, <2>2, <3>1 DEF HostRegisters
    <2>3. CASE u = 2
        <3>1. Reg32[r] = Reg16[s]
            BY <1>11, <2>1, <2>3
        <3> QED
            BY <1>6, <1>14, <2>3, <3>1 DEF HostRegisters
    <2>4. CASE u = 4
        <3>1. Reg32[r] = Reg32[s]
            BY <1>11, <2>1, <2>4
        <3> QED
            BY <1>8, <1>14, <2>4, <3>1 DEF HostRegisters
    <2>5. CASE u = 8
        <3>1. Reg32[r] = Reg64[s]
            BY <1>11, <2>1, <2>5
        <3> QED
            BY <1>9, <1>14, <2>5, <3>1 DEF HostRegisters
    <2> QED
        BY <2>2, <2>3, <2>4, <2>5 DEF Sizes
<1>15. CASE v = 8
    <2>1. RegisterNames[v][r] = Reg64[r]
        BY <1>11, <1>15
    <2>2. CASE u = 1
        <3>1. Reg64[r] = Reg8[s]
            BY <1>11, <2>1, <2>2
        <3> QED
            BY <1>4, <1>15, <2>2, <3>1 DEF HostRegisters
    <2>3. CASE u = 2
        <3>1. Reg64[r] = Reg16[s]
            BY <1>11, <2>1, <2>3
        <3> QED
            BY <1>7, <1>15, <2>3, <3>1 DEF HostRegisters
    <2>4. CASE u = 4
        <3>1. Reg64[r] = Reg32[s]
            BY <1>11, <2>1, <2>4
        <3> QED
            BY <1>9, <1>15, <2>4, <3>1 DEF HostRegisters
    <2>5. CASE u = 8
        <3>1. Reg64[r] = Reg64[s]
            BY <1>11, <2>1, <2>5
        <3> QED
            BY <1>10, <1>15, <2>5, <3>1 DEF HostRegisters
    <2> QED
        BY <2>2, <2>3, <2>4, <2>5 DEF Sizes
<1> QED
    BY <1>12, <1>13, <1>14, <1>15 DEF Sizes

\* The assembler reads a name as the register it was made for.
LEMMA NameRead ==
    ASSUME NEW v \in Sizes, NEW k \in HostRegisters
    PROVE  Width(RegisterNames[v][k]) = v /\ Number(RegisterNames[v][k]) = k
<1> DEFINE name == RegisterNames[v][k]
           P(w) == \E r \in 0 .. 15 : RegisterNames[w][r] = name
           Q(r) == \E w \in {1, 2, 4, 8} : RegisterNames[w][r] = name
<1>1. \A u \in Sizes, s \in HostRegisters : name = RegisterNames[u][s] => v = u /\ k = s
    BY NamesDiffer
<1>2. RegisterNames[v][k] = name
    OBVIOUS
<1> HIDE DEF name
<1>3. P(v) /\ Q(k)
    BY <1>2 DEF Sizes, HostRegisters
<1>4. (\A w \in {1, 2, 4, 8} : P(w) => w = v) /\ (\A r \in 0 .. 15 : Q(r) => r = k)
    BY <1>1 DEF Sizes, HostRegisters
<1>5. Width(name) = CHOOSE w \in {1, 2, 4, 8} : P(w)
    BY Zenon DEF Width
<1>6. Number(name) = CHOOSE r \in 0 .. 15 : Q(r)
    BY Zenon DEF Number
<1> HIDE DEF P, Q
<1>7. (CHOOSE w \in {1, 2, 4, 8} : P(w)) = v
    BY <1>3, <1>4 DEF Sizes
<1>8. (CHOOSE r \in 0 .. 15 : Q(r)) = k
    <2> DEFINE D == 0 .. 15
    <2>1. k \in D /\ Q(k) /\ \A r \in D : Q(r) => r = k
        BY <1>3, <1>4 DEF HostRegisters
    <2> HIDE DEF D
    <2>2. (CHOOSE r \in D : Q(r)) = k
        BY <2>1
    <2> QED
        BY <2>2 DEF D
<1> QED
    BY <1>5, <1>6, <1>7, <1>8 DEF name

\* The size of an access, as QEMU's memop has it.
AccessSize(memop) == <<1, 2, 4, 8>>[memop + 1]

\* The table has the label of the registers, the width and the size it is asked for.
LEMMA TableEntry ==
    ASSUME NEW w \in Widths, NEW memop \in 0 .. 3, NEW is_write \in BOOLEAN,
           NEW d \in HostRegisters, NEW a \in HostRegisters
    PROVE  MEMHOOK_TABLE[w \div 4][memop + 1][IF is_write THEN 2 ELSE 1][d][a]
               = Label(IF is_write THEN "write" ELSE "read",
                       RegisterNames[AccessSize(memop)][d], RegisterNames[w][a])
<1> DEFINE row == MEMHOOK_TABLE[w \div 4][memop + 1]
           size == AccessSize(memop)
           Rows(r, W) == r = <<Entries("read", RegisterNames[size], W),
                               Entries("write", RegisterNames[size], W)>>
<1> DEFINE k == IF is_write THEN 2 ELSE 1  access == IF is_write THEN "write" ELSE "read"
<1> SUFFICES row[k][d][a] = Label(access, RegisterNames[size][d], RegisterNames[w][a])
    OBVIOUS
<1>1. /\ RegisterNames[1] = Reg8 /\ RegisterNames[2] = Reg16
      /\ RegisterNames[4] = Reg32 /\ RegisterNames[8] = Reg64
    BY DEF RegisterNames
<1>2. ASSUME w = 4 PROVE Rows(row, RegisterNames[w])
    <2>1. w \div 4 = 1
        BY <1>2
    <2>2. CASE memop = 0
        <3>1. row = <<Read8_32, Write8_32>>
            BY <2>1, <2>2 DEF MEMHOOK_TABLE
        <3>2. size = 1
            BY <2>2 DEF AccessSize
        <3> QED
            BY <1>1, <1>2, <3>1, <3>2 DEF Read8_32, Write8_32
    <2>3. CASE memop = 1
        <3>1. row = <<Read16_32, Write16_32>>
            BY <2>1, <2>3 DEF MEMHOOK_TABLE
        <3>2. size = 2
            BY <2>3 DEF AccessSize
        <3> QED
            BY <1>1, <1>2, <3>1, <3>2 DEF Read16_32, Write16_32
    <2>4. CASE memop = 2
        <3>1. row = <<Read32_32, Write32_32>>
            BY <2>1, <2>4 DEF MEMHOOK_TABLE
        <3>2. size = 4
            BY <2>4 DEF AccessSize
        <3> QED
            BY <1>1, <1>2, <3>1, <3>2 DEF Read32_32, Write32_32
    <2>5. CASE memop = 3
        <3>1. row = <<Read64_32, Write64_32>>
            BY <2>1, <2>5 DEF MEMHOOK_TABLE
        <3>2. size = 8
            BY <2>5 DEF AccessSize
        <3> QED
            BY <1>1, <1>2, <3>1, <3>2 DEF Read64_32, Write64_32
    <2> QED
        BY <2>2, <2>3, <2>4, <2>5
<1>3. ASSUME w = 8 PROVE Rows(row, RegisterNames[w])
    <2>1. w \div 4 = 2
        BY <1>3
    <2>2. CASE memop = 0
        <3>1. row = <<Read8_64, Write8_64>>
            BY <2>1, <2>2 DEF MEMHOOK_TABLE
        <3>2. size = 1
            BY <2>2 DEF AccessSize
        <3> QED
            BY <1>1, <1>3, <3>1, <3>2 DEF Read8_64, Write8_64
    <2>3. CASE memop = 1
        <3>1. row = <<Read16_64, Write16_64>>
            BY <2>1, <2>3 DEF MEMHOOK_TABLE
        <3>2. size = 2
            BY <2>3 DEF AccessSize
        <3> QED
            BY <1>1, <1>3, <3>1, <3>2 DEF Read16_64, Write16_64
    <2>4. CASE memop = 2
        <3>1. row = <<Read32_64, Write32_64>>
            BY <2>1, <2>4 DEF MEMHOOK_TABLE
        <3>2. size = 4
            BY <2>4 DEF AccessSize
        <3> QED
            BY <1>1, <1>3, <3>1, <3>2 DEF Read32_64, Write32_64
    <2>5. CASE memop = 3
        <3>1. row = <<Read64_64, Write64_64>>
            BY <2>1, <2>5 DEF MEMHOOK_TABLE
        <3>2. size = 8
            BY <2>5 DEF AccessSize
        <3> QED
            BY <1>1, <1>3, <3>1, <3>2 DEF Read64_64, Write64_64
    <2> QED
        BY <2>2, <2>3, <2>4, <2>5
<1>4. Rows(row, RegisterNames[w])
    BY <1>2, <1>3 DEF Widths
<1> HIDE DEF row, size
<1> DEFINE f == RegisterNames[size]  g == RegisterNames[w]
<1>5. row[k] = Entries(access, f, g)
    BY <1>4
<1> HIDE DEF k, access, f, g, row
<1>6. Entries(access, f, g)[d][a] = Label(access, f[d], g[a])
    BY DEF Entries, HostRegisters
<1>7. row[k][d][a] = Label(access, f[d], g[a])
    BY <1>5, <1>6
<1> QED
    BY <1>7 DEF f, g

\* What a memory hook does: it tells the access, and in a 64-bit target leaves a
\* word in r14.
AccessTold(feature, w, pc, is_write, data, addr, memop, flush, host) ==
    LET h == RunMem(lift_memop(w, pc, is_write, data, addr, memop, flush), host)
        size == AccessSize(memop)
    IN /\ HookTells(h, feature, flush, pc,
                    [op |-> IF is_write THEN "write" ELSE "read", pc |-> pc,
                     addr |-> host[addr], val |-> U64(Low(host[data], size)), size |-> size])
       /\ w = 4 => h.host = host
       /\ \E v \in Words : /\ w = 8 => h.host = [host EXCEPT ![14] = v]
                           /\ Clear(pc) => v = pc

\* A memory hook tells the access: a low part of the value, its address and its
\* size.  A hook of a 64-bit target leaves the program counter in r14.
\* (lift_memop, create_memhook, MEMHOOK_TABLE, parse_payload)
THEOREM MemHookTells ==
    ASSUME NEW feature, NEW w \in Widths, NEW pc \in Words, Fits(pc, w), NEW flush \in Words,
           NEW is_write \in BOOLEAN, NEW data \in HostRegisters, NEW addr \in HostRegisters,
           NEW memop \in 0 .. 3, NEW host, host[addr] \in Words, host[data] \in Words,
           Fits(host[addr], w)
    PROVE  AccessTold(feature, w, pc, is_write, data, addr, memop, flush, host)
<1> DEFINE hook == lift_memop(w, pc, is_write, data, addr, memop, flush)
           h == RunMem(hook, host)
           size == AccessSize(memop)
           op == IF is_write THEN "write" ELSE "read"
           opcode == (IF is_write THEN 32 ELSE 16) + size
           label == hook.label  code == hook.code
           m == Low(REPLACE_WITH_PC, w)
           segs == create_memhook(label)
<1>1. size \in Sizes /\ size \in Nat /\ size \in {1, 2, 4, 8} /\ w \in Sizes /\ w \in Nat /\ w \in {4, 8}
    BY DEF AccessSize, Sizes, Widths
<1>2. label = Label(op, RegisterNames[size][data], RegisterNames[w][addr])
    BY TableEntry, Zenon DEF lift_memop
<1>3. code = Lifted2(segs, w, pc, flush)
    BY DEF lift_memop, Lifted2
<1> HIDE DEF hook, size
<1>4. label.access = op /\ Width(label.addr) = w /\ Number(label.addr) = addr
      /\ Width(label.data) = size /\ Number(label.data) = data
    <2>1. label.access = op /\ label.data = RegisterNames[size][data]
          /\ label.addr = RegisterNames[w][addr]
        BY <1>2 DEF Label
    <2> QED
        BY <1>1, <2>1, NameRead
<1> HIDE DEF label, code
<1>5. /\ 2 \in DOMAIN segs /\ 4 \in DOMAIN segs /\ 6 \in DOMAIN segs
      /\ segs[2] = REPLACE_WITH_FLUSH /\ segs[4] = Op(opcode, w) /\ segs[6] = m
    BY <1>4 DEF create_memhook
<1> HIDE DEF segs
<1>6. opcode \in Nat /\ opcode < 128
    BY <1>1
<1> HIDE DEF opcode
<1>7. Op(opcode, w) \in Bytes(1) /\ 1 \in Nat /\ 1 < 4 /\ 0 \in Nat
    <2>1. <<>> \in Seq(Byte)
        OBVIOUS
    <2>2. Op(opcode, w) \in Bytes(1)
        BY <1>6, <2>1, Opened, Zenon
    <2> QED
        BY <2>2
<1>8. code[2] = flush
    <2>1. code[2] = Step2(REPLACE_WITH_FLUSH, w, pc, flush)
        BY <1>3, <1>5, LiftedAt
    <2> QED
        BY <1>7, <2>1, FlushSegment, Zenon
<1>9. code[4] = Op(opcode, w)
    <2>1. code[4] = Step2(Op(opcode, w), w, pc, flush)
        BY <1>3, <1>5, LiftedAt
    <2> QED
        BY <1>7, <2>1, SmallSegment
<1> DEFINE v == code[6]
<1>10. v \in Bytes(w) /\ (Clear(pc) => v = Low(pc, w))
    <2>1. v = Step2(m, w, pc, flush)
        BY <1>3, <1>5, LiftedAt
    <2> QED
        BY <1>7, <2>1, PcSegment, ZenonT(30)
<1> HIDE DEF v
<1> DEFINE a == Low(host[addr], w)  d == Low(host[data], size)
<1>11. a \in Bytes(w) /\ U64(a) = host[addr] /\ d \in Bytes(size)
    <2>1. host[addr] \in Bytes(8) /\ host[data] \in Bytes(8) /\ 8 \in Nat /\ size <= 8
        BY <1>1 DEF Words
    <2>2. d \in Bytes(size)
        BY <1>1, <2>1, LowBytes
    <2> QED
        BY <1>1, <2>2, WordKept
<1> HIDE DEF a, d
<1> DEFINE p == Op(opcode, w) \o a \o d \o v
<1>12. h = [room |-> 2 * w + size + 1, flush |-> flush, packet |-> p,
            host |-> IF w = 8 THEN [host EXCEPT ![14] = v] ELSE host]
    BY <1>4, <1>8, <1>9, Zenon DEF RunMem, label, code, v, a, d
<1> HIDE DEF h, p
<1>13. /\ h.room = 2 * w + size + 1 /\ h.flush = flush /\ h.packet = p
       /\ h.host = IF w = 8 THEN [host EXCEPT ![14] = v] ELSE host
    BY <1>12
<1>14. p \in Seq(Byte) /\ Len(p) = 2 * w + size + 1
    <2>1. PICK i \in Nat, j \in Nat, n \in Nat, one \in Nat :
              one = 1 /\ i = one + w /\ j = i + size /\ n = j + w
        BY <1>1
    <2> DEFINE x == Op(opcode, w) \o a  y == x \o d  z == y \o v
    <2>2. x \in Bytes(i)
        BY <1>1, <1>7, <1>11, <2>1, Grows
    <2> HIDE DEF x
    <2>3. y \in Bytes(j)
        BY <1>1, <1>11, <2>1, <2>2, Grows
    <2> HIDE DEF y
    <2>4. z \in Bytes(n)
        BY <1>1, <1>10, <2>1, <2>3, Grows
    <2> HIDE DEF z
    <2>5. z \in Seq(Byte) /\ Len(z) = n
        BY <2>4, BytesType
    <2>6. p = z
        BY Zenon DEF p, x, y, z
    <2> QED
        BY <1>1, <2>1, <2>5, <2>6
<1>15. Tells(feature, p, [op |-> op, pc |-> U64(v), addr |-> host[addr],
                          val |-> U64(d), size |-> size])
    <2>2. CASE is_write
        <3>1. Tells(feature, Op(32 + size, w) \o a \o d \o v,
                    [op |-> "write", pc |-> U64(v), addr |-> U64(a), val |-> U64(d),
                     size |-> size])
            BY <1>1, <1>10, <1>11, WriteTold
        <3>2. opcode = 32 + size
            BY <2>2 DEF opcode
        <3> QED
            BY <1>11, <2>2, <3>1, <3>2, Zenon DEF p
    <2>3. CASE ~is_write
        <3>1. Tells(feature, Op(16 + size, w) \o a \o d \o v,
                    [op |-> "read", pc |-> U64(v), addr |-> U64(a), val |-> U64(d),
                     size |-> size])
            BY <1>1, <1>10, <1>11, ReadTold
        <3>2. opcode = 16 + size
            BY <2>3 DEF opcode
        <3> QED
            BY <1>11, <2>3, <3>1, <3>2, Zenon DEF p
    <2> QED
        BY <2>2, <2>3
<1>16. HookTells(h, feature, flush, pc, [op |-> op, pc |-> pc, addr |-> host[addr],
                                         val |-> U64(d), size |-> size])
    <2> DEFINE at == U64(v)  x == host[addr]  y == U64(d)
               e == [op |-> op, pc |-> at, addr |-> x, val |-> y, size |-> size]
               ev == [op |-> op, pc |-> pc, addr |-> x, val |-> y, size |-> size]
    <2>1. U64(Low(pc, w)) = pc
        BY <1>1, WordKept
    <2>2. Clear(pc) => at = pc
        BY <1>10, <2>1, Zenon
    <2>3. Tells(feature, p, e)
        BY <1>15
    <2> HIDE DEF at, x, y
    <2>4. AtSome(pc, e, ev)
        <3>1. e = [ev EXCEPT !.pc = at] /\ (Clear(pc) => e = ev)
            BY <2>2
        <3> HIDE DEF e, ev
        <3> QED
            BY <3>1, AtSomeMade
    <2>5. h.room <= Room(ev)
        BY <1>1, <1>13 DEF Room
    <2>6. HookTells(h, feature, flush, pc, ev)
        BY <1>13, <1>14, <2>3, <2>4, <2>5, Zenon DEF HookTells
    <2> QED
        BY <2>6 DEF x, y
<1>17. w = 8 => v \in Words /\ (Clear(pc) => v = pc)
    <2>1. 8 \in Nat /\ pc \in Bytes(8)
        BY DEF Words
    <2>2. Low(pc, 8) = pc
        BY <2>1, LowBytes
    <2> QED
        BY <1>10, <2>2 DEF Words
<1>18. w = 4 => h.host = host
    BY <1>13
<1>19. \E u \in Words : (w = 8 => h.host = [host EXCEPT ![14] = u]) /\ (Clear(pc) => u = pc)
    <2>1. CASE w = 8
        BY <1>13, <1>17, <2>1
    <2>2. CASE w # 8
        BY <2>2
    <2> QED
        BY <2>1, <2>2
<1> QED
    BY <1>16, <1>18, <1>19, Zenon DEF h, hook, size, d, AccessTold

=============================================================================
