-------------------------- MODULE SequencerProofs --------------------------
(***************************************************************************)
(* Proofs about Sequencer: for any number of threads and of chunks, trace()*)
(* is called in order, once for each chunk, and no number is lost.         *)
(***************************************************************************)
EXTENDS Sequencer, FiniteSetTheorems, SequenceTheorems, TLAPS

\* The numbers of the chunks that were parsed.
Delivered == Channel!Delivered

HasTicket(t) == pc[t] \notin {"start", "ticket"}
HasTrace(t) == pc[t] \in {"ticket", "lock"}

\* The trace of chunk n.
TraceOf(n, tr) ==
    /\ n \in Nat /\ n < Len(sent) /\ n \in Delivered
    /\ sent[n + 1] \notin Bad /\ tr = <<sent[n + 1]>>

\* What a thread holds: a trace of one chunk, or an empty one and a ticket for
\* a chunk that nobody has parsed.
ThreadInv ==
    \A t \in Threads :
        /\ pc[t] = "report" <=> holder = t
        /\ pc[t] \in {"poll", "ticket", "lock", "report"} => hot_poll[t] # 0
        /\ HasTrace(t) => TraceOf(seq[t], trace[t]) /\ next_seq <= seq[t]
        /\ ~HasTrace(t) /\ pc[t] # "report" => trace[t] = <<>>
        /\ HasTicket(t) => ticket[t] < tickets /\ ticket[t] \notin Delivered

\* No two threads have the same.
DistinctInv ==
    \A t, u \in Threads : t # u =>
        /\ HasTicket(t) /\ HasTicket(u) => ticket[t] # ticket[u]
        /\ HasTrace(t) /\ HasTrace(u) => seq[t] # seq[u]

\* What State holds back, sorted, and none of it a thread's.
Sorted == \A i, j \in DOMAIN traces : i < j => traces[i].seq < traces[j].seq

TracesInv ==
    /\ Sorted
    /\ \A i \in DOMAIN traces :
          /\ TraceOf(traces[i].seq, traces[i].trace)
          /\ next_seq <= traces[i].seq
          /\ holder = None => next_seq # traces[i].seq
          /\ \A t \in Threads : HasTrace(t) => traces[i].seq # seq[t]

\* Numbers are given out before they are used; reported ones were parsed.
NumbersInv ==
    /\ \A n \in Delivered : n \in Nat /\ n < tickets
    /\ \A n \in Nat : n < next_seq => n \in Delivered
    /\ Len(reported) = next_seq

\* HolesOwned, also within a critical section.
Owned(n) ==
    \/ \E i \in DOMAIN traces : traces[i].seq = n
    \/ \E t \in Threads : (HasTicket(t) /\ ticket[t] = n) \/ (HasTrace(t) /\ seq[t] = n)
HolesInv == \A n \in Nat : next_seq <= n /\ n < tickets => Owned(n)

IInv == TypeOK /\ ThreadInv /\ DistinctInv /\ TracesInv /\ NumbersInv /\ HolesInv

USE SequencerAssumption

-----------------------------------------------------------------------------
(* Sequences. *)

Entry == [seq : Nat, trace : Seq(Payload)]

\* The types of the entries of State::traces.
LEMMA EntryTypes ==
    ASSUME traces \in Seq(Entry)
    PROVE  /\ Len(traces) \in Nat /\ DOMAIN traces = 1 .. Len(traces)
           /\ \A k \in DOMAIN traces :
                 traces[k] \in Entry /\ traces[k].seq \in Nat /\ traces[k].trace \in Seq(Payload)
<1>1. /\ Len(traces) \in Nat /\ DOMAIN traces = 1 .. Len(traces)
      /\ traces \in [1 .. Len(traces) -> Entry]
    BY LenProperties
<1>2. \A k \in 1 .. Len(traces) : traces[k] \in Entry
    BY <1>1
<1> QED
    BY <1>1, <1>2 DEF Entry

\* The entries below a number are the first ones: binary_search finds the place
\* behind them.
LEMMA BelowFirst ==
    ASSUME traces \in Seq(Entry), Sorted, NEW n \in Nat
    PROVE  /\ Below(n) \in 0 .. Len(traces)
           /\ \A k \in DOMAIN traces : k <= Below(n) <=> traces[k].seq < n
<1> DEFINE D == 1 .. Len(traces)
           B == {k \in D : traces[k].seq < n}
<1>1. Len(traces) \in Nat /\ DOMAIN traces = D /\ \A k \in D : traces[k].seq \in Nat
    BY EntryTypes
<1>2. IsFiniteSet(D) /\ Cardinality(D) = Len(traces)
  <2>1. Cardinality(D) = IF 1 > Len(traces) THEN 0 ELSE Len(traces) - 1 + 1
    BY <1>1, FS_Interval
  <2> QED
    BY <1>1, <2>1, FS_Interval, SMTT(30)
<1>3. B \subseteq D /\ Below(n) = Cardinality(B)
    BY <1>1 DEF Below
<1>4. IsFiniteSet(B) /\ Below(n) \in Nat /\ Below(n) <= Len(traces)
    BY <1>2, <1>3, FS_Subset, FS_CardinalityType
<1>5. \A k \in B : \A j \in 1 .. k : j \in B
  <2> SUFFICES ASSUME NEW k \in B, NEW j \in 1 .. k PROVE j \in B
    OBVIOUS
  <2>1. k \in D /\ j \in D /\ (j = k \/ j < k)
    BY <1>1
  <2>2. traces[j].seq <= traces[k].seq
    BY <1>1, <2>1 DEF Sorted
  <2> QED
    BY <1>1, <2>1, <2>2
<1> HIDE DEF B
<1>6. ASSUME NEW k \in B PROVE k <= Below(n)
  <2>1. k \in D
    BY <1>3
  <2>2. 1 .. k \subseteq B /\ Cardinality(1 .. k) = k
    BY <1>1, <1>5, <2>1, FS_Interval
  <2> QED
    BY <1>1, <1>3, <1>4, <2>1, <2>2, FS_Subset
<1>7. IsFiniteSet(1 .. Below(n)) /\ Cardinality(1 .. Below(n)) = Below(n)
    BY <1>4, FS_Interval
<1>8. B \subseteq 1 .. Below(n)
    BY <1>1, <1>3, <1>4, <1>6
<1>9. B = 1 .. Below(n)
    BY <1>3, <1>7, <1>8, FS_Subset
<1> QED
    BY <1>1, <1>4, <1>9 DEF B

\* Inserting an entry with a new number keeps the traces sorted and adds only
\* the entry.
LEMMA InsertedSorted ==
    ASSUME traces \in Seq(Entry), Sorted, NEW e \in Entry,
           \A i \in DOMAIN traces : traces[i].seq # e.seq
    PROVE  LET ins == Inserted(e) IN
           /\ ins \in Seq(Entry)
           /\ \A i, j \in DOMAIN ins : i < j => ins[i].seq < ins[j].seq
           /\ \A i \in DOMAIN ins : ins[i] = e \/ \E k \in DOMAIN traces : ins[i] = traces[k]
           /\ \E i \in DOMAIN ins : ins[i] = e
           /\ \A k \in DOMAIN traces : \E i \in DOMAIN ins : ins[i] = traces[k]
<1> DEFINE b == Below(e.seq)
           n == Len(traces)
           front == SubSeq(traces, 1, b)
           back == SubSeq(traces, b + 1, n)
           ins == Inserted(e)
<1>1. /\ n \in Nat /\ DOMAIN traces = 1 .. n /\ e.seq \in Nat
      /\ \A k \in 1 .. n : traces[k] \in Entry /\ traces[k].seq \in Nat
  <2>1. e.seq \in Nat
    BY DEF Entry
  <2> QED
    BY <2>1, EntryTypes
<1>2. /\ b \in Nat /\ b <= n
      /\ \A k \in 1 .. n : k <= b <=> traces[k].seq < e.seq
  <2>1. Below(e.seq) \in 0 .. Len(traces)
    BY <1>1, BelowFirst
  <2>2. \A k \in DOMAIN traces : k <= Below(e.seq) <=> traces[k].seq < e.seq
    BY <1>1, BelowFirst
  <2> QED
    BY <1>1, <2>1, <2>2
<1>10. \A k \in 1 .. n : k <= b \/ e.seq < traces[k].seq
    BY <1>1, <1>2
<1> HIDE DEF b
<1>3. /\ front \in Seq(Entry) /\ Len(front) = b
      /\ \A i \in 1 .. b : front[i] = traces[i]
    BY <1>1, <1>2, SubSeqProperties
<1>4. /\ back \in Seq(Entry) /\ Len(back) = n - b
      /\ \A i \in 1 .. n - b : back[i] = traces[i + b]
  <2>1. \A i \in b + 1 .. n : traces[i] \in Entry
    BY <1>1, <1>2
  <2>6. b \in Nat /\ n \in Nat /\ b <= n
    BY <1>1, <1>2
  <2> HIDE DEF n
  <2>2. b + 1 \in Int /\ n \in Int /\ (~(b + 1 <= n) => n - b = 0) /\ n - (b + 1) + 1 = n - b
    BY <2>6
  <2>3. /\ back \in Seq(Entry)
        /\ Len(back) = IF b + 1 <= n THEN n - (b + 1) + 1 ELSE 0
        /\ \A i \in 1 .. n - (b + 1) + 1 : back[i] = traces[(b + 1) + i - 1]
    BY <2>1, <2>2, SubSeqProperties
  <2>4. Len(back) = n - b
    BY <2>2, <2>3
  <2>5. ASSUME NEW i \in 1 .. n - b PROVE back[i] = traces[i + b]
    <3>1. (b + 1) + i - 1 = i + b /\ i \in 1 .. n - (b + 1) + 1
      BY <1>1, <1>2
    <3> QED
      BY <2>3, <3>1
  <2> QED
    BY <2>3, <2>4, <2>5
<1>5. <<e>> \in Seq(Entry) /\ Len(<<e>>) = 1 /\ <<e>>[1] = e
    OBVIOUS
<1> HIDE DEF front, back
<1>6. /\ front \o <<e>> \in Seq(Entry) /\ Len(front \o <<e>>) = b + 1
      /\ \A i \in 1 .. b : (front \o <<e>>)[i] = traces[i]
      /\ (front \o <<e>>)[b + 1] = e
  <2>1. \A i \in 1 .. b + 1 : (front \o <<e>>)[i] = IF i <= b THEN front[i] ELSE <<e>>[i - b]
    BY <1>3, <1>5, ConcatProperties
  <2>2. b + 1 \in 1 .. b + 1 /\ ~(b + 1 <= b) /\ (b + 1) - b = 1
    BY <1>2
  <2>3. front \o <<e>> \in Seq(Entry) /\ Len(front \o <<e>>) = b + 1
    BY <1>3, <1>5, ConcatProperties
  <2>4. \A i \in 1 .. b : i \in 1 .. b + 1 /\ i <= b
    BY <1>2
  <2>5. (front \o <<e>>)[b + 1] = <<e>>[1]
    BY <2>1, <2>2
  <2> QED
    BY <1>3, <1>5, <2>1, <2>3, <2>4, <2>5
<1>7. ins = (front \o <<e>>) \o back
    BY DEF Inserted, front, back, b
<1>8. /\ ins \in Seq(Entry) /\ Len(ins) = n + 1
      /\ \A i \in 1 .. b : ins[i] = traces[i]
      /\ ins[b + 1] = e
      /\ \A i \in b + 2 .. n + 1 : ins[i] = traces[i - 1]
  <2> DEFINE fe == front \o <<e>>
  <2> HIDE DEF fe, ins
  <2>0. fe \in Seq(Entry) /\ Len(fe) = b + 1 /\ ins = fe \o back
    BY <1>6, <1>7 DEF fe
  <2>1. \A i \in 1 .. n + 1 : ins[i] = IF i <= b + 1 THEN fe[i] ELSE back[i - (b + 1)]
    <3>1. Len(fe) + Len(back) = n + 1
      BY <1>1, <1>2, <1>4, <2>0
    <3>2. \A i \in 1 .. Len(fe) + Len(back) :
             (fe \o back)[i] = IF i <= Len(fe) THEN fe[i] ELSE back[i - Len(fe)]
      BY <1>4, <2>0, ConcatProperties
    <3> QED
      BY <2>0, <3>1, <3>2
  <2>2. ins \in Seq(Entry) /\ Len(ins) = n + 1
    <3>1. Len(fe) + Len(back) = n + 1
      BY <1>1, <1>2, <1>4, <2>0
    <3> QED
      BY <1>4, <2>0, <3>1, ConcatProperties
  <2>3. ASSUME NEW i \in 1 .. b PROVE ins[i] = traces[i]
    <3>1. i \in 1 .. n + 1 /\ i <= b + 1
      BY <1>1, <1>2
    <3> QED
      BY <1>6, <2>1, <3>1 DEF fe
  <2>4. ins[b + 1] = e
    <3>1. b + 1 \in 1 .. n + 1 /\ b + 1 <= b + 1
      BY <1>1, <1>2
    <3> QED
      BY <1>6, <2>1, <3>1 DEF fe
  <2>5. ASSUME NEW i \in b + 2 .. n + 1 PROVE ins[i] = traces[i - 1]
    <3>1. /\ i \in 1 .. n + 1 /\ ~(i <= b + 1)
          /\ i - (b + 1) \in 1 .. n - b /\ (i - (b + 1)) + b = i - 1
      BY <1>1, <1>2
    <3>2. ins[i] = back[i - (b + 1)]
      BY <2>1, <3>1
    <3>3. back[i - (b + 1)] = traces[(i - (b + 1)) + b]
      BY <1>4, <3>1
    <3> QED
      BY <3>1, <3>2, <3>3
  <2> QED
    BY <2>2, <2>3, <2>4, <2>5
<1> HIDE DEF ins
<1>9. DOMAIN ins = 1 .. n + 1
    BY <1>8, LenProperties
<1>11. ASSUME NEW i \in 1 .. n + 1, NEW j \in 1 .. n + 1, i < j
       PROVE  ins[i].seq < ins[j].seq
  <2>1. CASE j <= b
    <3>1. i \in 1 .. b /\ j \in 1 .. b /\ i \in 1 .. n /\ j \in 1 .. n
      BY <1>1, <1>2, <1>11, <2>1
    <3>2. ins[i] = traces[i] /\ ins[j] = traces[j]
      BY <1>8, <3>1
    <3> QED
      BY <1>1, <1>11, <3>1, <3>2 DEF Sorted
  <2>2. CASE j = b + 1
    <3>1. i \in 1 .. b /\ i \in 1 .. n
      BY <1>1, <1>2, <1>11, <2>2
    <3>2. ins[i] = traces[i] /\ ins[j] = e
      BY <1>8, <2>2, <3>1
    <3>3. i <= b
      BY <1>2, <3>1
    <3>4. traces[i].seq < e.seq
      BY <1>2, <3>1, <3>3
    <3> QED
      BY <3>2, <3>4
  <2>3. CASE j > b + 1
    <3>1. j \in b + 2 .. n + 1 /\ j - 1 \in 1 .. n /\ ~(j - 1 <= b)
      BY <1>1, <1>2, <2>3
    <3>2. ins[j] = traces[j - 1] /\ e.seq < traces[j - 1].seq
      BY <1>8, <1>10, <3>1
    <3>3. CASE i <= b
      <4>1. i \in 1 .. n /\ i < j - 1 /\ i \in 1 .. b
        BY <1>1, <1>2, <3>1, <3>3
      <4> QED
        BY <1>1, <1>8, <3>1, <3>2, <4>1 DEF Sorted
    <3>4. CASE i = b + 1
      BY <1>8, <3>2, <3>4
    <3>5. CASE i > b + 1
      <4>1. i \in b + 2 .. n + 1 /\ i - 1 \in 1 .. n /\ i - 1 < j - 1
        BY <1>1, <1>2, <1>11, <3>5
      <4>2. ins[i] = traces[i - 1]
        BY <1>8, <4>1
      <4> QED
        BY <1>1, <3>1, <3>2, <4>1, <4>2 DEF Sorted
    <3> QED
      BY <1>2, <3>3, <3>4, <3>5
  <2> QED
    BY <1>2, <2>1, <2>2, <2>3
<1>12. ASSUME NEW i \in 1 .. n + 1
       PROVE  ins[i] = e \/ \E k \in 1 .. n : ins[i] = traces[k]
  <2>1. \/ i \in 1 .. b /\ i \in 1 .. n
        \/ i = b + 1
        \/ i \in b + 2 .. n + 1 /\ i - 1 \in 1 .. n
    BY <1>1, <1>2
  <2> QED
    BY <1>8, <2>1
<1>13. \E i \in 1 .. n + 1 : ins[i] = e
  <2>1. b + 1 \in 1 .. n + 1
    BY <1>1, <1>2
  <2> QED
    BY <1>8, <2>1
<1>14. ASSUME NEW k \in 1 .. n PROVE \E i \in 1 .. n + 1 : ins[i] = traces[k]
  <2>1. CASE k <= b
    <3>1. k \in 1 .. b /\ k \in 1 .. n + 1
      BY <1>1, <1>2, <2>1
    <3> QED
      BY <1>8, <3>1
  <2>2. CASE ~(k <= b)
    <3>1. k + 1 \in b + 2 .. n + 1 /\ k + 1 \in 1 .. n + 1 /\ (k + 1) - 1 = k
      BY <1>1, <1>2, <2>2
    <3> QED
      BY <1>8, <3>1
  <2> QED
    BY <2>1, <2>2
<1> QED
    BY <1>1, <1>8, <1>9, <1>11, <1>12, <1>13, <1>14 DEF ins

-----------------------------------------------------------------------------
(* The invariant holds. *)

\* Parsing a chunk makes its number a delivered one.
LEMMA DeliveredAppend ==
    ASSUME TypeOK, NEW n \in Nat, NEW d \in Payload,
           delivered' = Append(delivered, [seq |-> n, data |-> d])
    PROVE  /\ delivered' \in Seq([seq : Nat, data : Payload])
           /\ Delivered' = Delivered \cup {n}
<1> DEFINE e == [seq |-> n, data |-> d]
<1>1. delivered \in Seq([seq : Nat, data : Payload]) /\ e \in [seq : Nat, data : Payload]
    BY DEF TypeOK
<1> HIDE DEF e
<1>2. /\ delivered' \in Seq([seq : Nat, data : Payload])
      /\ Len(delivered') = Len(delivered) + 1
      /\ \A i \in 1 .. Len(delivered) : delivered'[i] = delivered[i]
      /\ delivered'[Len(delivered) + 1] = e
    BY <1>1, AppendProperties DEF e
<1>3. /\ Len(delivered) \in Nat /\ DOMAIN delivered = 1 .. Len(delivered)
      /\ DOMAIN delivered' = 1 .. Len(delivered) + 1
    BY <1>1, <1>2, LenProperties
<1>4. ASSUME NEW i \in DOMAIN delivered'
      PROVE  \/ i \in DOMAIN delivered /\ delivered'[i] = delivered[i]
             \/ delivered'[i] = e
  <2>1. i \in 1 .. Len(delivered) \/ i = Len(delivered) + 1
    BY <1>3
  <2> QED
    BY <1>2, <1>3, <2>1
<1>5. \A i \in DOMAIN delivered : i \in DOMAIN delivered' /\ delivered'[i] = delivered[i]
    BY <1>2, <1>3
<1>6. Len(delivered) + 1 \in DOMAIN delivered'
    BY <1>3
<1>7. e.seq = n
    BY DEF e
<1> QED
    BY <1>2, <1>4, <1>5, <1>6, <1>7 DEF Delivered, Channel!Delivered

\* The threads start without tickets and with an empty State.
LEMMA InvInit == Init => IInv
<1> SUFFICES ASSUME Init PROVE IInv
    OBVIOUS
<1>1. Delivered = {}
    BY DEF Init, Channel!Init, Delivered, Channel!Delivered
<1>2. TypeOK
    BY DEF Init, Channel!Init, TypeOK, PCs
<1> QED
    BY <1>1, <1>2 DEF Init, IInv, ThreadInv, DistinctInv, TracesInv, Sorted, NumbersInv,
                      HolesInv, Owned, HasTicket, HasTrace

\* The target only makes the sequence of chunks longer.
LEMMA SendStep ==
    ASSUME IInv, QemuSend PROVE IInv'
<1>1. PICK p \in Payload : sent' = Append(sent, p)
    BY DEF QemuSend, Channel!Send
<1>2. UNCHANGED <<delivered, socket, tickets, threadVars, stateVars>>
    BY DEF QemuSend, Channel!Send
<1>3. sent \in Seq(Payload)
    BY DEF IInv, TypeOK
<1>4. /\ sent' \in Seq(Payload) /\ Len(sent) \in Nat /\ Len(sent') = Len(sent) + 1
      /\ \A i \in 1 .. Len(sent) : sent'[i] = sent[i]
    BY <1>1, <1>3, AppendProperties, LenProperties
<1>5. Delivered' = Delivered
    BY <1>2 DEF Delivered, Channel!Delivered
<1>6. \A n \in Nat : n < Len(sent) => n < Len(sent') /\ sent'[n + 1] = sent[n + 1]
    BY <1>4
<1>7. TypeOK'
    BY <1>2, <1>4 DEF IInv, TypeOK, threadVars, stateVars
<1> USE <1>2, <1>5, <1>6 DEF IInv, threadVars, stateVars, HasTicket, HasTrace
<1>8. ThreadInv' /\ DistinctInv'
    BY DEF ThreadInv, DistinctInv, TraceOf
<1>9. TracesInv'
    BY DEF TracesInv, Sorted, TraceOf
<1>10. NumbersInv' /\ HolesInv'
    BY DEF NumbersInv, HolesInv, Owned
<1> QED
    BY <1>7, <1>8, <1>9, <1>10

\* Steps of a thread that change neither the pipe nor what State holds.
LEMMA QuietStep ==
    ASSUME IInv, NEW t \in Threads, RequestTicket(t) \/ CheckSocket(t) \/ PollEmpty(t)
                                     \/ PollError(t)
    PROVE  IInv'
<1>1. UNCHANGED <<sent, delivered, seq, trace, next_seq, traces, holder, reported>>
    BY DEF RequestTicket, CheckSocket, PollEmpty, PollError, stateVars
<1>2. Delivered' = Delivered
    BY <1>1 DEF Delivered, Channel!Delivered
<1> USE DEF IInv
<1>3. CASE RequestTicket(t)
  <2>0. /\ ticket' = [ticket EXCEPT ![t] = tickets] /\ tickets' = tickets + 1
        /\ \/ pc[t] = "start" /\ pc' = [pc EXCEPT ![t] = "check"]
           \/ pc[t] = "ticket" /\ pc' = [pc EXCEPT ![t] = "lock"]
        /\ UNCHANGED <<hot_poll, socket>>
    BY <1>3 DEF RequestTicket, Goto
  <2>1. TypeOK'
    <3>1. tickets' \in Nat /\ ticket' \in [Threads -> Nat]
      BY <2>0 DEF TypeOK
    <3>2. pc' \in [Threads -> PCs]
      BY <2>0 DEF TypeOK, PCs
    <3> QED
      BY <1>1, <2>0, <3>1, <3>2 DEF TypeOK
  <2>2. /\ tickets \in Nat /\ tickets \notin Delivered /\ ~HasTicket(t)
        /\ \A n \in Delivered : n \in Nat /\ n < tickets
        /\ \A n \in Nat : n < tickets' <=> n < tickets \/ n = tickets
    BY <2>0 DEF TypeOK, NumbersInv, HasTicket
  <2>3. /\ \A u \in Threads \ {t} : pc'[u] = pc[u] /\ ticket'[u] = ticket[u]
        /\ pc'[t] \in {"check", "lock"} /\ ticket'[t] = tickets
        /\ HasTicket(t)' /\ (HasTrace(t)' <=> HasTrace(t)) /\ pc[t] # "report"
        /\ (pc'[t] = "lock" => pc[t] = "ticket")
    BY <2>0 DEF TypeOK, HasTicket, HasTrace
  <2>4. \A u \in Threads \ {t} : (HasTicket(u)' <=> HasTicket(u)) /\ (HasTrace(u)' <=> HasTrace(u))
    BY <2>3 DEF HasTicket, HasTrace
  <2>5. \A u \in Threads : ticket[u] \in Nat /\ (HasTrace(u)' <=> HasTrace(u))
    BY <2>3, <2>4 DEF TypeOK
  <2>6. ThreadInv'
    <3> SUFFICES ASSUME NEW u \in Threads PROVE ThreadInv!(u)'
      BY DEF ThreadInv
    <3>1. CASE u = t
      BY <1>1, <1>2, <2>0, <2>2, <2>3, <3>1 DEF ThreadInv, TraceOf
    <3>2. CASE u # t
      BY <1>1, <1>2, <2>0, <2>2, <2>3, <2>4, <2>5, <3>2 DEF ThreadInv, TraceOf
    <3> QED
      BY <3>1, <3>2
  <2>7. DistinctInv'
    BY <1>1, <2>2, <2>3, <2>4, <2>5 DEF ThreadInv, DistinctInv
  <2>8. TracesInv'
    BY <1>1, <1>2, <2>5 DEF TracesInv, Sorted, TraceOf
  <2>9. NumbersInv'
    BY <1>1, <1>2, <2>0, <2>2 DEF NumbersInv
  <2>10. HolesInv'
    <3>1. ASSUME NEW n \in Nat, Owned(n) PROVE Owned(n)'
      BY <1>1, <2>2, <2>3, <2>4, <3>1 DEF Owned
    <3>2. \A n : n = tickets => Owned(n)'
      BY <2>3 DEF Owned
    <3> QED
      BY <1>1, <2>2, <3>1, <3>2 DEF HolesInv
  <2> QED
    BY <2>1, <2>6, <2>7, <2>8, <2>9, <2>10
<1>4. CASE CheckSocket(t) \/ PollEmpty(t) \/ PollError(t)
  <2>0. /\ tickets' = tickets /\ ticket' = ticket
        /\ \A u \in Threads : (HasTicket(u)' <=> HasTicket(u)) /\ (HasTrace(u)' <=> HasTrace(u))
        /\ \A u \in Threads : (pc'[u] = "report" <=> pc[u] = "report")
    BY <1>4 DEF CheckSocket, PollEmpty, PollError, Goto, HasTicket, HasTrace, TypeOK
  <2>1. /\ TypeOK'
        /\ \A u \in Threads : pc'[u] \in {"poll", "ticket", "lock", "report"} => hot_poll'[u] # 0
    <3>1. CASE CheckSocket(t)
      <4>1. pc[t] = "check"
            /\ \/ pc' = [pc EXCEPT ![t] = "done"] /\ hot_poll' = hot_poll
               \/ pc' = [pc EXCEPT ![t] = "poll"] /\ hot_poll' = [hot_poll EXCEPT ![t] = HotPolls]
        BY <3>1 DEF CheckSocket, Goto
      <4>2. UNCHANGED <<tickets, ticket, socket>>
        BY <3>1 DEF CheckSocket
      <4>3. TypeOK'
        <5>1. HotPolls \in 0 .. HotPolls
          OBVIOUS
        <5>2. hot_poll \in [Threads -> 0 .. HotPolls] /\ pc \in [Threads -> PCs]
              /\ "done" \in PCs /\ "poll" \in PCs
          BY <1>1 DEF TypeOK, PCs
        <5>3. hot_poll' \in [Threads -> 0 .. HotPolls] /\ pc' \in [Threads -> PCs]
          BY <4>1, <5>1, <5>2
        <5> QED
          BY <1>1, <4>2, <5>3 DEF TypeOK
      <4>4. \A u \in Threads : pc'[u] \in {"poll", "ticket", "lock", "report"} => hot_poll'[u] # 0
        BY <1>1, <4>1, SequencerAssumption DEF ThreadInv, TypeOK
      <4> QED
        BY <4>3, <4>4
    <3>2. CASE PollEmpty(t)
      <4>1. hot_poll[t] \in 1 .. HotPolls /\ hot_poll[t] - 1 \in 0 .. HotPolls
            /\ (hot_poll[t] - 1 = 0 <=> hot_poll[t] = 1)
        BY <3>2 DEF PollEmpty, TypeOK, ThreadInv
      <4> QED
        BY <1>1, <3>2, <4>1 DEF PollEmpty, Goto, TypeOK, PCs, ThreadInv
    <3>3. CASE PollError(t)
      BY <1>1, <3>3 DEF PollError, Goto, TypeOK, PCs, ThreadInv
    <3> QED
      BY <1>4, <3>1, <3>2, <3>3
  <2> USE <1>1, <1>2, <2>0
  <2>2. ThreadInv'
    BY <2>1 DEF ThreadInv, TraceOf
  <2>3. DistinctInv'
    BY DEF DistinctInv
  <2>4. TracesInv'
    BY DEF TracesInv, Sorted, TraceOf
  <2>5. NumbersInv' /\ HolesInv'
    BY DEF NumbersInv, HolesInv, Owned
  <2> QED
    BY <2>1, <2>2, <2>3, <2>4, <2>5
<1> QED
    BY <1>3, <1>4

\* A thread parses the chunk of its ticket: a number nobody else has.
LEMMA DataStep ==
    ASSUME IInv, NEW t \in Threads, PollData(t) PROVE IInv'
<1> DEFINE n == ticket[t]
           d == sent[n + 1]
<1> USE DEF IInv
<1>1. /\ pc[t] = "poll" /\ n \in Channel!InFlight /\ d \notin Bad
      /\ delivered' = Append(delivered, [seq |-> n, data |-> d])
      /\ trace' = [trace EXCEPT ![t] = <<d>>]
      /\ seq' = [seq EXCEPT ![t] = n]
      /\ hot_poll' = [hot_poll EXCEPT ![t] = HotPolls]
      /\ pc' = [pc EXCEPT ![t] = "ticket"]
    BY DEF PollData, Parsed, Goto
<1>2. UNCHANGED <<sent, socket, tickets, ticket, next_seq, traces, holder, reported>>
    BY DEF PollData, stateVars
<1>3. sent \in Seq(Payload) /\ Len(sent) \in Nat
    BY LenProperties DEF TypeOK
<1>4. n \in Nat /\ n < Len(sent) /\ n \notin Delivered /\ d \in Payload
  <2>1. n \in (0 .. Len(sent) - 1) \ Delivered
    BY <1>1 DEF Channel!InFlight, Delivered
  <2>2. n \in Nat /\ n < Len(sent) /\ n + 1 \in 1 .. Len(sent)
    BY <1>3, <2>1
  <2> QED
    BY <1>3, <2>1, <2>2
<1> HIDE DEF n, d
<1>5. delivered' \in Seq([seq : Nat, data : Payload]) /\ Delivered' = Delivered \cup {n}
    BY <1>1, <1>4, DeliveredAppend
<1>6. /\ \A u \in Threads \ {t} : /\ pc'[u] = pc[u] /\ seq'[u] = seq[u]
                                  /\ trace'[u] = trace[u] /\ hot_poll'[u] = hot_poll[u]
      /\ pc'[t] = "ticket" /\ seq'[t] = n /\ hot_poll'[t] = HotPolls
      /\ trace'[t] = <<d>>
    BY <1>1 DEF TypeOK
<1>7. <<d>> \in Seq(Payload)
    BY <1>4
<1>8. /\ HasTicket(t) /\ ~HasTrace(t) /\ ~HasTicket(t)' /\ HasTrace(t)'
      /\ \A u \in Threads \ {t} : (HasTicket(u)' <=> HasTicket(u)) /\ (HasTrace(u)' <=> HasTrace(u))
    BY <1>1, <1>6 DEF HasTicket, HasTrace
<1>9. next_seq \in Nat /\ next_seq <= n
    BY <1>4 DEF NumbersInv, TypeOK
<1>10. \A u \in Threads \ {t} : HasTicket(u) => ticket[u] # n
    BY <1>8 DEF DistinctInv, n
<1>11. TypeOK'
  <2>1. HotPolls \in 0 .. HotPolls
    OBVIOUS
  <2>2. hot_poll' \in [Threads -> 0 .. HotPolls] /\ pc' \in [Threads -> PCs]
    BY <1>1, <2>1 DEF TypeOK, PCs
  <2>3. seq' \in [Threads -> Nat]
    BY <1>1, <1>4 DEF TypeOK
  <2>4. trace' \in [Threads -> Seq(Payload)]
    BY <1>1, <1>7 DEF TypeOK
  <2> QED
    BY <1>2, <1>5, <2>2, <2>3, <2>4 DEF TypeOK
<1>12. ThreadInv'
  <2> SUFFICES ASSUME NEW u \in Threads PROVE ThreadInv!(u)'
    BY DEF ThreadInv
  <2>1. CASE u = t
    <3>1. TraceOf(seq[t], trace[t])' /\ (next_seq <= seq[t])'
      BY <1>1, <1>2, <1>4, <1>5, <1>6, <1>7, <1>9 DEF TraceOf, d
    <3>2. pc[t] # "report" /\ pc'[t] # "report" /\ holder' = holder /\ (holder = t <=> pc[t] = "report")
      BY <1>1, <1>2, <1>6 DEF ThreadInv
    <3> QED
      BY <1>6, <1>8, <2>1, <3>1, <3>2
  <2>2. CASE u # t
    BY <1>2, <1>5, <1>6, <1>8, <1>10, <2>2 DEF ThreadInv, TraceOf
  <2> QED
    BY <2>1, <2>2
<1>13. DistinctInv'
  <2>1. \A u \in Threads \ {t} : HasTrace(u) => seq[u] # n
    BY <1>4 DEF ThreadInv, TraceOf
  <2> QED
    BY <1>2, <1>6, <1>8, <2>1 DEF DistinctInv
<1>14. TracesInv'
  <2>1. \A i \in DOMAIN traces : traces[i].seq # n
    BY <1>4 DEF TracesInv, TraceOf
  <2> QED
    BY <1>2, <1>5, <1>6, <1>8, <2>1 DEF TracesInv, Sorted, TraceOf
<1>15. NumbersInv'
  <2>1. n < tickets
    BY <1>8 DEF ThreadInv, n
  <2> QED
    BY <1>2, <1>4, <1>5, <2>1 DEF NumbersInv
<1>16. HolesInv'
  <2>1. ASSUME NEW m \in Nat, Owned(m) PROVE Owned(m)'
    <3>1. CASE m = n
      BY <1>6, <1>8, <3>1 DEF Owned
    <3>2. CASE m # n
      <4>1. CASE \E i \in DOMAIN traces : traces[i].seq = m
        BY <1>2, <4>1 DEF Owned
      <4>2. CASE \E u \in Threads : (HasTicket(u) /\ ticket[u] = m) \/ (HasTrace(u) /\ seq[u] = m)
        BY <1>2, <1>6, <1>8, <3>2, <4>2 DEF Owned, n
      <4> QED
        BY <2>1, <4>1, <4>2 DEF Owned
    <3> QED
      BY <3>1, <3>2
  <2> QED
    BY <1>2, <2>1 DEF HolesInv
<1> QED
    BY <1>11, <1>12, <1>13, <1>14, <1>15, <1>16

\* The trace goes from the thread to State.
LEMMA InsertStep ==
    ASSUME IInv, NEW t \in Threads, Insert(t) PROVE IInv'
<1> DEFINE e == [seq |-> seq[t], trace |-> trace[t]]
<1> USE DEF IInv
<1>1. /\ pc[t] = "lock" /\ holder = None /\ holder' = t
      /\ traces' = Inserted(e) /\ pc' = [pc EXCEPT ![t] = "report"]
    BY DEF Insert, Goto
<1>2. UNCHANGED <<sent, delivered, socket, tickets, ticket, hot_poll, seq, trace, next_seq, reported>>
    BY DEF Insert
<1>3. Delivered' = Delivered
    BY <1>2 DEF Delivered, Channel!Delivered
<1>4. e \in Entry /\ e.seq = seq[t] /\ e.trace = trace[t] /\ traces \in Seq(Entry)
    BY DEF TypeOK, Entry
<1>5. /\ HasTrace(t) /\ TraceOf(e.seq, e.trace) /\ next_seq <= e.seq
    BY <1>1, <1>4 DEF ThreadInv, HasTrace
<1> HIDE DEF e
<1>6. /\ traces' \in Seq(Entry) /\ Sorted'
      /\ \A i \in DOMAIN traces' : traces'[i] = e \/ \E k \in DOMAIN traces : traces'[i] = traces[k]
      /\ \E i \in DOMAIN traces' : traces'[i] = e
      /\ \A k \in DOMAIN traces : \E i \in DOMAIN traces' : traces'[i] = traces[k]
  <2>1. \A i \in DOMAIN traces : traces[i].seq # e.seq
    BY <1>4, <1>5 DEF TracesInv
  <2>2. Sorted
    BY DEF TracesInv
  <2> QED
    BY <1>1, <1>4, <2>1, <2>2, InsertedSorted DEF Sorted
<1>7. /\ \A u \in Threads \ {t} : pc'[u] = pc[u]
      /\ pc'[t] = "report"
    BY <1>1 DEF TypeOK
<1>8. /\ \A u \in Threads : HasTicket(u)' <=> HasTicket(u)
      /\ \A u \in Threads \ {t} : HasTrace(u)' <=> HasTrace(u)
      /\ ~HasTrace(t)'
    BY <1>1, <1>7 DEF HasTicket, HasTrace
<1>9. TypeOK'
  <2>1. pc' \in [Threads -> PCs]
    BY <1>1 DEF TypeOK, PCs
  <2>2. traces' \in Seq([seq : Nat, trace : Seq(Payload)])
    BY <1>6 DEF Entry
  <2> QED
    BY <1>1, <1>2, <2>1, <2>2 DEF TypeOK
<1>10. ThreadInv'
  <2> SUFFICES ASSUME NEW u \in Threads PROVE ThreadInv!(u)'
    BY DEF ThreadInv
  <2>1. CASE u = t
    BY <1>1, <1>2, <1>3, <1>7, <1>8, <2>1 DEF ThreadInv
  <2>2. CASE u # t
    BY <1>1, <1>2, <1>3, <1>7, <1>8, <2>2 DEF ThreadInv, TraceOf
  <2> QED
    BY <2>1, <2>2
<1>11. DistinctInv'
    BY <1>2, <1>8 DEF DistinctInv
<1>12. TracesInv'
  <2>1. ASSUME NEW i \in DOMAIN traces'
        PROVE  /\ TraceOf(traces[i].seq, traces[i].trace)' /\ next_seq' <= traces'[i].seq
               /\ \A u \in Threads : HasTrace(u)' => traces'[i].seq # seq'[u]
    <3>1. CASE traces'[i] = e
      BY <1>2, <1>3, <1>4, <1>5, <1>8, <3>1 DEF TraceOf, DistinctInv
    <3>2. ASSUME NEW k \in DOMAIN traces, traces'[i] = traces[k]
          PROVE  <2>1!2
      BY <1>2, <1>3, <1>8, <3>2 DEF TraceOf, TracesInv
    <3> QED
      BY <1>6, <3>1, <3>2
  <2>2. holder' # None
    BY <1>1
  <2> QED
    BY <1>6, <2>1, <2>2 DEF TracesInv
<1>13. NumbersInv'
    BY <1>2, <1>3 DEF NumbersInv
<1>14. HolesInv'
  <2>1. ASSUME NEW m \in Nat, Owned(m) PROVE Owned(m)'
    <3>1. CASE m = seq[t]
      BY <1>4, <1>6, <3>1 DEF Owned
    <3>2. CASE m # seq[t]
      <4>1. CASE \E i \in DOMAIN traces : traces[i].seq = m
        BY <1>6, <4>1 DEF Owned
      <4>2. CASE \E u \in Threads : (HasTicket(u) /\ ticket[u] = m) \/ (HasTrace(u) /\ seq[u] = m)
        BY <1>2, <1>8, <3>2, <4>2 DEF Owned
      <4> QED
        BY <2>1, <4>1, <4>2 DEF Owned
    <3> QED
      BY <3>1, <3>2
  <2> QED
    BY <1>2, <2>1 DEF HolesInv
<1> QED
    BY <1>9, <1>10, <1>11, <1>12, <1>13, <1>14

\* What is reported is the trace of the next number.
LEMMA ReportStep ==
    ASSUME IInv, NEW t \in Threads, Report(t)
    PROVE  /\ IInv'
           /\ next_seq < Len(sent) /\ sent[next_seq + 1] \notin Bad
           /\ reported' = Append(reported, <<sent[next_seq + 1]>>)
<1> USE DEF IInv
<1>1. /\ pc[t] = "report" /\ traces # <<>> /\ next_seq = traces[1].seq
      /\ next_seq' = next_seq + 1 /\ traces' = Tail(traces)
      /\ reported' = Append(reported, traces[1].trace)
    BY DEF Report, Reportable
<1>2. UNCHANGED <<sent, delivered, socket, tickets, pc, ticket, hot_poll, seq, trace, holder>>
    BY DEF Report, threadVars
<1>3. Delivered' = Delivered
    BY <1>2 DEF Delivered, Channel!Delivered
<1>4. traces \in Seq(Entry) /\ next_seq \in Nat
    BY DEF TypeOK, Entry
<1>5. /\ Len(traces) \in Nat /\ DOMAIN traces = 1 .. Len(traces) /\ 1 \in DOMAIN traces
      /\ \A k \in DOMAIN traces : traces[k].seq \in Nat /\ traces[k].trace \in Seq(Payload)
  <2>1. Len(traces) # 0
    BY <1>1, <1>4
  <2> QED
    BY <1>4, <2>1, EntryTypes
<1>6. /\ traces' \in Seq(Entry) /\ Len(traces') = Len(traces) - 1
      /\ DOMAIN traces' = 1 .. Len(traces) - 1
      /\ \A i \in 1 .. Len(traces) - 1 : traces'[i] = traces[i + 1]
  <2>1. /\ traces' \in Seq(Entry) /\ Len(traces') = Len(traces) - 1
        /\ \A i \in 1 .. Len(traces') : traces'[i] = traces[i + 1]
    BY <1>1, <1>4, HeadTailProperties
  <2> QED
    BY <2>1, LenProperties
<1>7. \A i \in DOMAIN traces' : i + 1 \in DOMAIN traces /\ 1 < i + 1 /\ traces'[i] = traces[i + 1]
    BY <1>5, <1>6
<1>8. \A k \in DOMAIN traces : k = 1 \/ (k - 1 \in DOMAIN traces' /\ traces'[k - 1] = traces[k])
  <2>1. ASSUME NEW k \in DOMAIN traces, k # 1
        PROVE  k - 1 \in 1 .. Len(traces) - 1 /\ (k - 1) + 1 = k
    BY <1>5, <2>1
  <2> QED
    BY <1>6, <2>1
<1>9. TraceOf(next_seq, traces[1].trace)
    BY <1>1, <1>5 DEF TracesInv
<1>10. /\ next_seq < Len(sent) /\ sent[next_seq + 1] \notin Bad
       /\ reported' = Append(reported, <<sent[next_seq + 1]>>)
    BY <1>1, <1>9 DEF TraceOf
<1>11. /\ reported' \in Seq(Seq(Payload))
       /\ Len(reported') = Len(reported) + 1
  <2>1. reported \in Seq(Seq(Payload)) /\ traces[1].trace \in Seq(Payload)
    BY <1>5 DEF TypeOK
  <2> QED
    BY <1>1, <2>1, AppendProperties
<1>12. TypeOK'
  <2>1. reported' \in Seq(Seq(Payload))
    BY <1>11
  <2>2. traces' \in Seq([seq : Nat, trace : Seq(Payload)]) /\ next_seq' \in Nat
    BY <1>1, <1>4, <1>6 DEF Entry
  <2> QED
    BY <1>2, <2>1, <2>2 DEF TypeOK
<1>13. ThreadInv'
  <2>1. \A u \in Threads : HasTrace(u) => seq[u] # next_seq /\ seq[u] \in Nat
    BY <1>1, <1>5 DEF TracesInv, TypeOK
  <2>2. \A u \in Threads : HasTrace(u) /\ next_seq <= seq[u] => next_seq' <= seq[u]
    BY <1>1, <1>4, <2>1
  <2> QED
    BY <1>2, <1>3, <2>2 DEF ThreadInv, TraceOf, HasTicket, HasTrace
<1>14. DistinctInv'
    BY <1>2 DEF DistinctInv, HasTicket, HasTrace
<1>15. TracesInv'
  <2>1. Sorted'
    <3> SUFFICES ASSUME NEW i \in DOMAIN traces', NEW j \in DOMAIN traces', i < j
                 PROVE  traces'[i].seq < traces'[j].seq
      BY DEF Sorted
    <3>1. i + 1 < j + 1
      BY <1>6
    <3> QED
      BY <1>7, <3>1 DEF TracesInv, Sorted
  <2>2. ASSUME NEW i \in DOMAIN traces'
        PROVE  /\ TraceOf(traces[i].seq, traces[i].trace)' /\ next_seq' <= traces'[i].seq
               /\ holder' # None
               /\ \A u \in Threads : HasTrace(u)' => traces'[i].seq # seq'[u]
    <3>1. /\ i + 1 \in DOMAIN traces /\ traces'[i] = traces[i + 1]
          /\ traces[1].seq < traces[i + 1].seq
      BY <1>5, <1>7 DEF TracesInv, Sorted
    <3>2. next_seq' <= traces'[i].seq
      BY <1>1, <1>4, <1>5, <3>1
    <3>3. holder' # None
      BY <1>1, <1>2 DEF ThreadInv
    <3>4. TraceOf(traces[i].seq, traces[i].trace)'
      BY <1>2, <1>3, <3>1 DEF TracesInv, TraceOf
    <3> QED
      BY <1>2, <3>1, <3>2, <3>3, <3>4 DEF TracesInv, HasTrace
  <2> QED
    BY <2>1, <2>2 DEF TracesInv
<1>16. NumbersInv'
  <2>1. next_seq \in Delivered
    BY <1>9 DEF TraceOf
  <2>2. \A n \in Nat : n < next_seq' => n < next_seq \/ n = next_seq
    BY <1>1, <1>4
  <2>3. Len(reported') = next_seq'
    BY <1>1, <1>11 DEF NumbersInv
  <2> QED
    BY <1>2, <1>3, <2>1, <2>2, <2>3 DEF NumbersInv
<1>17. HolesInv'
  <2>1. ASSUME NEW m \in Nat, next_seq' <= m, m < tickets' PROVE Owned(m)'
    <3>1. next_seq <= m /\ m # next_seq /\ m < tickets
      BY <1>1, <1>2, <1>4, <2>1
    <3>2. Owned(m)
      BY <3>1 DEF HolesInv
    <3>3. CASE \E k \in DOMAIN traces : traces[k].seq = m
      BY <1>1, <1>8, <3>1, <3>3 DEF Owned
    <3>4. CASE \E u \in Threads : (HasTicket(u) /\ ticket[u] = m) \/ (HasTrace(u) /\ seq[u] = m)
      BY <1>2, <3>4 DEF Owned, HasTicket, HasTrace
    <3> QED
      BY <3>2, <3>3, <3>4 DEF Owned
  <2> QED
    BY <2>1 DEF HolesInv
<1> QED
    BY <1>10, <1>12, <1>13, <1>14, <1>15, <1>16, <1>17

\* The critical section ends with nothing to report.
LEMMA UnlockStep ==
    ASSUME IInv, NEW t \in Threads, Unlock(t) PROVE IInv'
<1> USE DEF IInv
<1>1. /\ pc[t] = "report" /\ ~Reportable /\ holder' = None
      /\ trace' = [trace EXCEPT ![t] = <<>>] /\ pc' = [pc EXCEPT ![t] = "poll"]
    BY DEF Unlock, Goto
<1>2. UNCHANGED <<sent, delivered, socket, tickets, ticket, hot_poll, seq, next_seq, traces, reported>>
    BY DEF Unlock
<1>3. Delivered' = Delivered
    BY <1>2 DEF Delivered, Channel!Delivered
<1>4. traces \in Seq(Entry) /\ next_seq \in Nat
    BY DEF TypeOK, Entry
<1>5. /\ \A u \in Threads \ {t} : pc'[u] = pc[u] /\ trace'[u] = trace[u]
      /\ pc'[t] = "poll" /\ trace'[t] = <<>>
    BY <1>1 DEF TypeOK
<1>6. \A u \in Threads : (HasTicket(u)' <=> HasTicket(u)) /\ (HasTrace(u)' <=> HasTrace(u))
    BY <1>1, <1>5 DEF HasTicket, HasTrace
<1>7. holder = t /\ \A u \in Threads \ {t} : pc[u] # "report"
    BY <1>1 DEF ThreadInv
<1>8. TypeOK'
  <2>1. pc' \in [Threads -> PCs] /\ trace' \in [Threads -> Seq(Payload)]
    BY <1>1 DEF TypeOK, PCs
  <2> QED
    BY <1>1, <1>2, <2>1 DEF TypeOK
<1>9. ThreadInv'
  <2> SUFFICES ASSUME NEW u \in Threads PROVE ThreadInv!(u)'
    BY DEF ThreadInv
  <2>1. CASE u = t
    BY <1>1, <1>2, <1>3, <1>5, <1>6, <2>1 DEF ThreadInv, HasTrace
  <2>2. CASE u # t
    BY <1>1, <1>2, <1>3, <1>5, <1>6, <1>7, <2>2 DEF ThreadInv, TraceOf
  <2> QED
    BY <2>1, <2>2
<1>10. DistinctInv'
    BY <1>2, <1>6 DEF DistinctInv
<1>11. TracesInv'
  <2>1. ASSUME NEW i \in DOMAIN traces PROVE next_seq # traces[i].seq
    <3>1. Len(traces) \in Nat /\ DOMAIN traces = 1 .. Len(traces) /\ traces # <<>>
      BY <1>4, <2>1, EntryTypes
    <3>2. 1 \in DOMAIN traces /\ (i = 1 \/ 1 < i)
      BY <2>1, <3>1
    <3>3. next_seq # traces[1].seq /\ next_seq <= traces[1].seq
      BY <1>1, <3>1, <3>2 DEF Reportable, TracesInv
    <3>4. traces[1].seq \in Nat /\ traces[i].seq \in Nat
      BY <1>4, <3>2, EntryTypes
    <3>5. i = 1 \/ traces[1].seq < traces[i].seq
      BY <3>2 DEF TracesInv, Sorted
    <3> QED
      BY <1>4, <3>3, <3>4, <3>5
  <2> QED
    BY <1>2, <1>3, <1>6, <2>1 DEF TracesInv, Sorted, TraceOf
<1>12. NumbersInv' /\ HolesInv'
    BY <1>2, <1>3, <1>6 DEF NumbersInv, HolesInv, Owned
<1> QED
    BY <1>8, <1>9, <1>10, <1>11, <1>12

\* The end of the target disturbs nothing.
LEMMA ExitStep ==
    ASSUME IInv, QemuExit \/ UNCHANGED vars PROVE IInv'
<1>1. /\ UNCHANGED <<sent, delivered, tickets, threadVars, stateVars>>
      /\ socket' \in {"open", "closed"}
    BY DEF QemuExit, vars, IInv, TypeOK
<1>2. Delivered' = Delivered
    BY <1>1 DEF Delivered, Channel!Delivered
<1> USE <1>1, <1>2 DEF IInv, threadVars, stateVars, HasTicket, HasTrace
<1>3. TypeOK'
    BY DEF TypeOK
<1>4. ThreadInv' /\ DistinctInv'
    BY DEF ThreadInv, DistinctInv, TraceOf
<1>5. TracesInv'
    BY DEF TracesInv, Sorted, TraceOf
<1>6. NumbersInv' /\ HolesInv'
    BY DEF NumbersInv, HolesInv, Owned
<1> QED
    BY <1>3, <1>4, <1>5, <1>6

\* No step of the target or of a polling thread breaks it.
LEMMA InvStep == IInv /\ [Next]_vars => IInv'
<1> SUFFICES ASSUME IInv, [Next]_vars PROVE IInv'
    OBVIOUS
<1>1. ASSUME NEW t \in Threads, Thread(t) PROVE IInv'
    BY <1>1, QuietStep, DataStep, InsertStep, ReportStep, UnlockStep DEF Thread
<1> QED
    BY <1>1, SendStep, ExitStep DEF Next

\* The inductive invariant holds always: whoever has parsed or awaits a chunk, and
\* what State holds, account for every number from next_seq on. (handle_client)
THEOREM Invariant == Spec => []IInv
    BY InvInit, InvStep, PTL DEF Spec

-----------------------------------------------------------------------------
(* What follows from it. *)

\* Threads, tickets and traces have the shape the code gives them, and hot polls
\* are counted down to zero and not below.
THEOREM TypeCorrect == Spec => []TypeOK
    BY Invariant, PTL DEF IInv

\* Between two critical sections the held-back traces are sorted, and nothing
\* that could be reported is among them (the insertion and the report loop).
THEOREM TracesHeldTheorem == Spec => []TracesHeld
<1>1. IInv => TracesHeld
  <2> SUFFICES ASSUME IInv, holder = None
               PROVE  /\ Sorted
                      /\ \A i \in DOMAIN traces : next_seq < traces[i].seq
    BY DEF TracesHeld, Sorted
  <2>1. \A i \in DOMAIN traces : next_seq <= traces[i].seq /\ next_seq # traces[i].seq
    BY DEF IInv, TracesInv
  <2>2. next_seq \in Nat /\ \A i \in DOMAIN traces : traces[i].seq \in Nat
    BY EntryTypes DEF IInv, TypeOK, Entry
  <2> QED
    BY <2>1, <2>2 DEF IInv, TracesInv
<1> QED
    BY <1>1, Invariant, PTL

\* Every ticket handed out is reported, held back, or some thread's: nothing
\* else can make the report loop wait.
THEOREM HolesTheorem == Spec => []HolesOwned
<1>1. IInv => HolesOwned
  <2> SUFFICES ASSUME IInv, NEW n \in next_seq .. tickets - 1
               PROVE  Owned(n)
    BY DEF HolesOwned, Owned, HasTicket, HasTrace
  <2>1. n \in Nat /\ next_seq <= n /\ n < tickets
    BY DEF IInv, TypeOK
  <2> QED
    BY <2>1 DEF IInv, HolesInv
<1> QED
    BY <1>1, Invariant, PTL

\* Whatever the threads do, the calls of trace() are those of a server that has
\* one thread and takes one chunk after the other.
LEMMA TraceStep ==
    ASSUME IInv, [Next]_vars PROVE [Ordered!Next]_Ordered!vars
<1>1. CASE QemuSend
    BY <1>1 DEF QemuSend, Channel!Send, stateVars, Ordered!Next, Ordered!Send
<1>2. ASSUME NEW t \in Threads, Report(t) PROVE Ordered!Next
  <2>1. /\ next_seq < Len(sent) /\ sent[next_seq + 1] \notin Bad
        /\ reported' = Append(reported, <<sent[next_seq + 1]>>) /\ sent' = sent
    BY <1>2, ReportStep DEF Report
  <2>2. Len(reported) = next_seq /\ next_seq \in Nat /\ Len(sent) \in Nat
    BY DEF IInv, NumbersInv, TypeOK
  <2>3. Len(reported) + 1 <= Len(sent) /\ Len(reported) + 1 = next_seq + 1
    BY <2>1, <2>2
  <2> QED
    BY <2>1, <2>3 DEF Ordered!Next, Ordered!Report
<1>3. CASE UNCHANGED <<sent, reported>>
    BY <1>3 DEF Ordered!vars
<1>4. QemuSend \/ (\E t \in Threads : Report(t)) \/ UNCHANGED <<sent, reported>>
    BY DEF Next, Thread, QemuExit, RequestTicket, CheckSocket, PollEmpty, PollData,
           PollError, Insert, Unlock, stateVars, vars
<1> QED
    BY <1>1, <1>2, <1>3, <1>4

\* trace() gets the chunks that the target sent, in order and each once, as its
\* documentation says: a report extends what was reported by the next chunk.
\* (handle_client, Cannoli::trace)
THEOREM Refinement == Spec => ImplementsOrderedTrace
<1>1. Init => Ordered!Init
    BY DEF Init, Channel!Init, Ordered!Init
<1> QED
    BY <1>1, Invariant, TraceStep, PTL DEF Spec, ImplementsOrderedTrace, Ordered!Spec
=============================================================================
