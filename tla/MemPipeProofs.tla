--------------------------- MODULE MemPipeProofs ---------------------------
(* Proofs about MemPipe, for every number of buffers, bytes and receivers. *)
EXTENDS MemPipe, FiniteSetTheorems, TLAPS

\* What a chunk holds back to its caller: a prefix of it is a payload.
LEMMA BytesType ==
    ASSUME NEW c \in [1 .. ChunkSize -> Byte], NEW n \in 0 .. ChunkSize
    PROVE  Bytes(c, n) \in Payload
BY PipeAssumption DEF Bytes, Payload

\* Sending keeps what the caller handed over within a chunk.
LEMMA DataBytesType ==
    ASSUME NEW data \in Datas, NEW n \in 0 .. ChunkSize, n <= Len(data)
    PROVE  Bytes(data, n) \in Payload
<1>1. data \in Seq(Byte)
    BY PipeAssumption
<1>2. \A k \in 1 .. n : data[k] \in Byte
    BY <1>1
<1> QED
    BY <1>2, PipeAssumption DEF Bytes, Payload

\* A send takes as many bytes of the caller's data as the chunk has room for.
LEMMA SendTakes ==
    ASSUME TypeOK, Send
    PROVE  \E data \in Datas, n \in 0 .. ChunkSize :
              /\ n <= Len(data) /\ written + n \in 0 .. ChunkSize
              /\ chunks' = [chunks EXCEPT ![idx] =
                    [k \in 1 .. ChunkSize |->
                        IF k \in written + 1 .. written + n
                        THEN data[k - written] ELSE @[k]]]
              /\ written' = written + n
              /\ sent' = Append(sent, Bytes(data, n))
<1>1. PICK data \in Datas :
          /\ chunks' = [chunks EXCEPT ![idx] =
                [k \in 1 .. ChunkSize |->
                    IF k \in written + 1 .. written + ToSend(data)
                    THEN data[k - written] ELSE @[k]]]
          /\ written' = written + ToSend(data)
          /\ sent' = Append(sent, Bytes(data, ToSend(data)))
    BY DEF Send
<1>2. Len(data) \in Nat
    BY PipeAssumption
<1>3. /\ ToSend(data) \in 0 .. ChunkSize /\ ToSend(data) <= Len(data)
      /\ written + ToSend(data) \in 0 .. ChunkSize
    BY <1>2, PipeAssumption DEF TypeOK, ToSend
<1> QED
    BY <1>1, <1>3

\* A send keeps the types: what it writes fits the chunk.
LEMMA SendType ==
    ASSUME TypeOK, Send
    PROVE  TypeOK'
<1>1. PICK data \in Datas, n \in 0 .. ChunkSize :
          /\ n <= Len(data) /\ written + n \in 0 .. ChunkSize
          /\ chunks' = [chunks EXCEPT ![idx] =
                [k \in 1 .. ChunkSize |->
                    IF k \in written + 1 .. written + n
                    THEN data[k - written] ELSE @[k]]]
          /\ written' = written + n
          /\ sent' = Append(sent, Bytes(data, n))
    BY SendTakes
<1>2. data \in Seq(Byte)
    BY PipeAssumption
<1>3. \A k \in written + 1 .. written + n : data[k - written] \in Byte
    BY <1>1, <1>2 DEF TypeOK
<1>4. chunks' \in [Buffers -> [1 .. ChunkSize -> Byte]]
    BY <1>1, <1>3 DEF TypeOK
<1>5. sent' \in Seq(Payload)
    BY <1>1, DataBytesType DEF TypeOK
<1> QED
    BY <1>1, <1>4, <1>5 DEF Send, TypeOK, SenderPCs, recvVars

\* The scan of a receiver stays within the buffers.
LEMMA ContinueType ==
    ASSUME TypeOK, NEW r \in Receivers, Continue(r)
    PROVE  ii' \in [Receivers -> Buffers] /\ rpc' \in [Receivers -> ReceiverPCs]
<1>1. ii[r] \in Buffers /\ ii \in [Receivers -> Buffers]
      /\ rpc \in [Receivers -> ReceiverPCs]
    BY DEF TypeOK
<1>2. ii[r] + 1 < NumBuffers => ii[r] + 1 \in Buffers
    BY <1>1, PipeAssumption DEF Buffers
<1> QED
    BY <1>1, <1>2 DEF Continue, ReceiverPCs

\* Every step keeps every variable in its type.
LEMMA TypeStep ==
    ASSUME TypeOK, [Next]_vars
    PROVE  TypeOK'
<1> USE PipeAssumption
<1>1. CASE AllocBuffer
    BY <1>1 DEF AllocBuffer, TypeOK, SenderPCs, Buffers, pipeVars, recvVars
<1>2. CASE ScanBuffer
    <2>1. scan \in Buffers /\ idx \in Buffers
        BY DEF TypeOK
    <2>2. 0 \in Buffers /\ (scan + 1 < NumBuffers => scan + 1 \in Buffers)
        BY <2>1 DEF Buffers
    <2>3. idx' \in Buffers /\ scan' \in Buffers
        BY <1>2, <2>1, <2>2 DEF ScanBuffer
    <2>4. spc' \in SenderPCs /\ written' \in 0 .. ChunkSize
        BY <1>2 DEF ScanBuffer, TypeOK, SenderPCs
    <2> QED
        BY <1>2, <2>3, <2>4 DEF ScanBuffer, TypeOK, pipeVars, recvVars
<1>3. CASE Send
    BY <1>3, SendType
<1>4. CASE StoreLen
    BY <1>4 DEF StoreLen, TypeOK, SenderPCs, recvVars
<1>5. CASE FetchSeq
    BY <1>5 DEF FetchSeq, TypeOK, SenderPCs, recvVars
<1>6. CASE StoreSeq
    BY <1>6 DEF StoreSeq, TypeOK, SenderPCs, recvVars
<1>7. CASE StoreOwned
    BY <1>7 DEF StoreOwned, TypeOK, SenderPCs, recvVars
<1>8. CASE SpinDone
    BY <1>8 DEF SpinDone, TypeOK, SenderPCs, pipeVars, recvVars
<1>9. ASSUME NEW r \in Receivers, Receiver(r)
      PROVE  TypeOK'
    <2>1. CASE RequestTicket(r)
        BY <2>1, SMTT(30) DEF RequestTicket, TypeOK, ReceiverPCs, pipeVars, senderVars
    <2>2. CASE TryRecv(r)
        BY <2>2, SMTT(30) DEF TryRecv, TypeOK, ReceiverPCs, Buffers, pipeVars, senderVars
    <2>3. CASE LoadOwned(r)
        BY <2>3, ContinueType DEF LoadOwned, TypeOK, ReceiverPCs, pipeVars, senderVars
    <2>4. CASE LoadSeq(r)
        BY <2>4, ContinueType DEF LoadSeq, TypeOK, ReceiverPCs, pipeVars, senderVars
    <2>5. CASE LoadLen(r)
        BY <2>5 DEF LoadLen, TypeOK, ReceiverPCs, pipeVars, senderVars
    <2>6. CASE CallbackOk(r)
        <3>1. Bytes(chunks[ii[r]], length[r]) \in Payload
            BY BytesType DEF TypeOK
        <3>2. delivered' \in Seq([seq : Nat, data : Payload])
            BY <2>6, <3>1 DEF CallbackOk, TypeOK
        <3> QED
            BY <2>6, <3>2 DEF CallbackOk, TypeOK, ReceiverPCs, pipeVars, senderVars
    <2>7. CASE CallbackFails(r)
        BY <2>7 DEF CallbackFails, TypeOK, ReceiverPCs, pipeVars, senderVars
    <2>8. CASE Release(r)
        BY <2>8 DEF Release, TypeOK, ReceiverPCs, senderVars
    <2> QED
        BY <1>9, <2>1, <2>2, <2>3, <2>4, <2>5, <2>6, <2>7, <2>8 DEF Receiver
<1>10. CASE UNCHANGED vars
    BY <1>10 DEF vars, pipeVars, senderVars, recvVars, TypeOK
<1> QED
    BY <1>1, <1>2, <1>3, <1>4, <1>5, <1>6, <1>7, <1>8, <1>9, <1>10
    DEF Next, Sender

\* A pipe that was just created has the types.
LEMMA TypeInit == Init => TypeOK
<1> SUFFICES ASSUME Init PROVE TypeOK
    OBVIOUS
<1>1. 0 \in Buffers /\ 0 \in 0 .. ChunkSize
    BY PipeAssumption DEF Buffers
<1>2. chunks \in [Buffers -> [1 .. ChunkSize -> Byte]]
    <2>1. [k \in 1 .. ChunkSize |-> Junk] \in [1 .. ChunkSize -> Byte]
        BY PipeAssumption
    <2> QED
        BY <2>1 DEF Init
<1>3. /\ client_owned \in [Buffers -> BOOLEAN]
      /\ client_len \in [Buffers -> 0 .. ChunkSize]
      /\ client_seq \in [Buffers -> Nat]
      /\ cur_seq \in Nat
    BY <1>1 DEF Init
<1>4. /\ spc \in SenderPCs
      /\ scan \in Buffers /\ idx \in Buffers
      /\ written \in 0 .. ChunkSize
      /\ blocking \in BOOLEAN
      /\ seq_id \in Nat
    BY <1>1 DEF Init, SenderPCs
<1>5. /\ recv_seq \in Nat
      /\ rpc \in [Receivers -> ReceiverPCs]
      /\ ticket \in [Receivers -> Nat]
      /\ ii \in [Receivers -> Buffers]
      /\ length \in [Receivers -> 0 .. ChunkSize]
    BY <1>1 DEF Init, ReceiverPCs
<1>6. sent \in Seq(Payload) /\ delivered \in Seq([seq : Nat, data : Payload])
    BY DEF Init
<1> QED
    BY <1>2, <1>3, <1>4, <1>5, <1>6 DEF TypeOK

\* The pipe never leaves its types: lengths stay within a chunk and indices
\* within the buffers, so neither end reads or writes past the shared memory.
THEOREM TypeCorrect == Spec => []TypeOK
BY TypeInit, TypeStep, PTL DEF Spec

-----------------------------------------------------------------------------
(* The inductive invariant: one lemma per action that changes what it reads. *)

\* Appending a record to delivered adds its number to Delivered.
LEMMA DeliveredAppend ==
    ASSUME TypeOK, NEW e \in [seq : Nat, data : Payload],
           delivered' = Append(delivered, e)
    PROVE  /\ Delivered' = Delivered \cup {e.seq}
           /\ Len(delivered') = Len(delivered) + 1
           /\ \A i \in 1 .. Len(delivered) : delivered'[i] = delivered[i]
           /\ delivered'[Len(delivered) + 1] = e
<1>1. delivered \in Seq([seq : Nat, data : Payload])
    BY DEF TypeOK
<1>2. DOMAIN delivered = 1 .. Len(delivered)
      /\ DOMAIN delivered' = 1 .. Len(delivered) + 1
      /\ Len(delivered) \in Nat
    BY <1>1
<1>3. /\ \A i \in 1 .. Len(delivered) : delivered'[i] = delivered[i]
      /\ delivered'[Len(delivered) + 1] = e
      /\ Len(delivered') = Len(delivered) + 1
    BY <1>1
<1> QED
    BY <1>2, <1>3 DEF Delivered

\* Sequence numbers are natural numbers.
LEMMA DeliveredNat ==
    ASSUME TypeOK
    PROVE  Delivered \subseteq Nat
<1> DEFINE R == [seq : Nat, data : Payload]
<1>1. \A e \in R : e.seq \in Nat
    OBVIOUS
<1>2. delivered \in Seq(R)
    BY DEF TypeOK
<1> HIDE DEF R
<1>3. \A i \in DOMAIN delivered : delivered[i] \in R
    BY <1>2
<1> QED
    BY <1>1, <1>3 DEF Delivered

\* A step that leaves delivered alone leaves Delivered alone.
LEMMA DeliveredSame ==
    ASSUME UNCHANGED delivered
    PROVE  Delivered' = Delivered
BY DEF Delivered

\* Steps of the sender leave the tickets alone, and steps of a receiver that
\* deliver nothing leave what was delivered alone.
LEMMA TicketFrame ==
    ASSUME TicketInv, UNCHANGED recvVars, UNCHANGED delivered
    PROVE  TicketInv'
BY DeliveredSame DEF TicketInv, recvVars, HasTicket

\* Steps that leave the history alone keep what it says about integrity.
LEMMA IntegrityFrame ==
    ASSUME Integrity, UNCHANGED sent, UNCHANGED delivered
    PROVE  Integrity'
BY DEF Integrity

\* Steps that leave the buffers and what is live alone keep their contents.
LEMMA BufferFrame ==
    ASSUME BufferInv, UNCHANGED <<client_owned, client_len, client_seq, chunks, sent>>,
           \A b \in Buffers : Live(b)' => Live(b), cur_seq \in Nat, cur_seq' \in Nat,
           cur_seq <= cur_seq', client_seq \in [Buffers -> Nat]
    PROVE  BufferInv'
BY DEF BufferInv

\* Steps that leave the receivers and the buffers alone keep the matches.
LEMMA MatchFrame ==
    ASSUME MatchInv, UNCHANGED <<client_owned, client_len, client_seq, delivered, recvVars>>,
           \A b \in Buffers : Live(b) => Live(b)', ii \in [Receivers -> Buffers]
    PROVE  MatchInv'
BY DeliveredSame DEF MatchInv, Matched, recvVars

\* The steps that touch neither the shared memory nor the receivers.
LEMMA SenderLocalStep ==
    ASSUME IInv, TypeOK', AllocBuffer \/ ScanBuffer \/ SpinDone
    PROVE  IInv'
<1>1. UNCHANGED <<pipeVars, recvVars, sent, delivered, seq_id>>
    BY DEF AllocBuffer, ScanBuffer, SpinDone
<1>2. spc \in {"idle", "scan", "spin"} /\ spc' \in {"idle", "scan", "write"}
    BY DEF AllocBuffer, ScanBuffer, SpinDone
<1>3. \A b \in Buffers : Live(b)' <=> Live(b)
    BY <1>1, <1>2 DEF Live, pipeVars
<1>4. TicketInv' /\ Integrity'
    BY <1>1, TicketFrame, IntegrityFrame DEF IInv
<1>5. BufferInv' /\ MatchInv'
    BY <1>1, <1>3, BufferFrame, MatchFrame DEF IInv, TypeOK, pipeVars
<1>6. SenderInv'
    <2>1. Len(sent') = cur_seq'
        BY <1>1, <1>2 DEF IInv, SenderInv, pipeVars
    <2>2. spc' = "write" => ~client_owned'[idx'] /\ written' = 0
        BY <1>1 DEF AllocBuffer, ScanBuffer, SpinDone, pipeVars
    <2> QED
        BY <1>2, <2>1, <2>2 DEF SenderInv
<1>7. NoLoss'
    BY <1>1, <1>2, <1>3, DeliveredSame DEF IInv, NoLoss, pipeVars, Live
<1> QED
    BY <1>4, <1>5, <1>6, <1>7 DEF IInv

\* Storing the length touches a buffer that is not live and that no receiver
\* has matched.
LEMMA StoreLenStep ==
    ASSUME IInv, TypeOK', StoreLen
    PROVE  IInv'
<1>1. /\ UNCHANGED <<recvVars, sent, delivered, client_owned, client_seq, chunks>>
      /\ UNCHANGED <<cur_seq, idx, written, seq_id>>
      /\ spc = "len" /\ spc' = "fetch"
      /\ client_len'[idx] = written
      /\ \A b \in Buffers \ {idx} : client_len'[b] = client_len[b]
    BY DEF IInv, TypeOK, StoreLen
<1>2. ~client_owned[idx] /\ \A b \in Buffers : Live(b)' <=> Live(b)
    BY <1>1 DEF IInv, SenderInv, Live
<1>3. TicketInv' /\ Integrity'
    BY <1>1, TicketFrame, IntegrityFrame DEF IInv
<1>4. NoLoss'
    BY <1>1, DeliveredSame DEF IInv, NoLoss
<1>5. SenderInv'
    BY <1>1, <1>2 DEF IInv, SenderInv
<1>6. BufferInv'
    BY <1>1, <1>2 DEF IInv, BufferInv, Live
<1>7. MatchInv'
    BY <1>1, <1>2, DeliveredSame, SMTT(30)
    DEF IInv, TypeOK, MatchInv, Matched, Live, recvVars
<1> QED
    BY <1>3, <1>4, <1>5, <1>6, <1>7 DEF IInv

\* Taking a number makes the handed-over chunk one of cur_seq.
LEMMA FetchSeqStep ==
    ASSUME IInv, TypeOK', FetchSeq
    PROVE  IInv'
<1>1. /\ UNCHANGED <<recvVars, sent, delivered, client_owned, client_seq, chunks>>
      /\ UNCHANGED <<client_len, idx, written>>
      /\ spc = "fetch" /\ spc' = "seq"
      /\ seq_id' = cur_seq /\ cur_seq' = cur_seq + 1
      /\ cur_seq \in Nat /\ client_seq \in [Buffers -> Nat]
      /\ ii \in [Receivers -> Buffers]
    BY DEF IInv, TypeOK, FetchSeq
<1>2. \A b \in Buffers : Live(b)' <=> Live(b)
    BY <1>1 DEF Live
<1>3. TicketInv' /\ Integrity'
    BY <1>1, TicketFrame, IntegrityFrame DEF IInv
<1>4. NoLoss'
    BY <1>1, DeliveredSame DEF IInv, NoLoss
<1>5. SenderInv'
    BY <1>1 DEF IInv, SenderInv
<1>6. BufferInv' /\ MatchInv'
    BY <1>1, <1>2, BufferFrame, MatchFrame DEF IInv
<1> QED
    BY <1>3, <1>4, <1>5, <1>6 DEF IInv

\* The number of the buffer changes while no receiver can be matched with it;
\* one that saw a stale client_owned may match from here on, and the buffer is
\* live from here on.
\* Storing the number makes the buffer live: a receiver that loaded a stale
\* client_owned may match it from here on.
LEMMA StoreSeqStep ==
    ASSUME IInv, TypeOK', StoreSeq
    PROVE  IInv'
<1>1. /\ UNCHANGED <<recvVars, sent, delivered, client_owned, client_len, chunks>>
      /\ UNCHANGED <<cur_seq, idx, written, seq_id>>
      /\ spc = "seq" /\ spc' = "own"
      /\ client_seq'[idx] = seq_id
      /\ \A b \in Buffers \ {idx} : client_seq'[b] = client_seq[b]
      /\ idx \in Buffers
    BY DEF IInv, TypeOK, StoreSeq
<1>2. /\ ~client_owned[idx] /\ ~Live(idx) /\ Live(idx)'
      /\ \A b \in Buffers \ {idx} : Live(b)' <=> Live(b)
    BY <1>1 DEF IInv, SenderInv, Live
<1>3. TicketInv' /\ Integrity'
    BY <1>1, TicketFrame, IntegrityFrame DEF IInv
<1>4. SenderInv'
    BY <1>1, <1>2 DEF IInv, SenderInv
<1>5. BufferInv'
    <2>1. seq_id < cur_seq /\ seq_id + 1 = Len(sent)
        BY <1>1 DEF IInv, TypeOK, SenderInv
    <2>2. Bytes(chunks[idx], client_len[idx]) = sent[seq_id + 1]
        BY <1>1, <2>1 DEF IInv, SenderInv
    <2> QED
        BY <1>1, <1>2, <2>1, <2>2 DEF IInv, BufferInv
<1>6. MatchInv'
    BY <1>1, <1>2, DeliveredSame DEF IInv, TypeOK, MatchInv, Matched, recvVars
<1>7. NoLoss'
    <2> SUFFICES ASSUME NEW n \in 0 .. Len(sent) - 1, n \notin Delivered
                 PROVE  \E b \in Buffers : client_seq'[b] = n /\ Live(b)'
        BY <1>1, DeliveredSame DEF NoLoss, Live
    <2>1. CASE n + 1 = Len(sent)
        BY <1>1, <1>2, <2>1, SMTT(30) DEF IInv, TypeOK, SenderInv
    <2>2. CASE n + 1 # Len(sent)
        BY <1>1, <1>2, <2>2 DEF IInv, NoLoss, Live
    <2> QED
        BY <2>1, <2>2
<1> QED
    BY <1>3, <1>4, <1>5, <1>6, <1>7 DEF IInv

\* Setting the flag leaves exactly the same buffers live.
LEMMA StoreOwnedStep ==
    ASSUME IInv, TypeOK', StoreOwned
    PROVE  IInv'
<1>1. /\ UNCHANGED <<recvVars, sent, delivered, client_len, client_seq, chunks>>
      /\ UNCHANGED <<cur_seq, idx, written, seq_id>>
      /\ spc = "own" /\ spc' \in {"idle", "spin"}
      /\ client_owned'[idx]
      /\ \A b \in Buffers \ {idx} : client_owned'[b] = client_owned[b]
      /\ idx \in Buffers
    BY DEF IInv, TypeOK, StoreOwned
<1>2. \A b \in Buffers : Live(b)' <=> Live(b)
    BY <1>1 DEF Live
<1>3. TicketInv' /\ Integrity'
    BY <1>1, TicketFrame, IntegrityFrame DEF IInv
<1>4. SenderInv'
    BY <1>1 DEF IInv, SenderInv
<1>5. BufferInv'
    BY <1>1, <1>2 DEF IInv, BufferInv
<1>6. MatchInv'
    BY <1>1, <1>2, DeliveredSame DEF IInv, TypeOK, MatchInv, Matched, recvVars
<1>7. NoLoss'
    BY <1>1, <1>2, DeliveredSame DEF IInv, NoLoss, Live
<1> QED
    BY <1>3, <1>4, <1>5, <1>6, <1>7 DEF IInv

\* Everything but the receivers' positions is as it was.
LEMMA ReceiverFrame ==
    ASSUME IInv, UNCHANGED <<pipeVars, senderVars, sent, delivered>>
    PROVE  /\ SenderInv' /\ BufferInv' /\ Integrity' /\ NoLoss'
           /\ \A b \in Buffers : Live(b)' <=> Live(b)
<1>1. Delivered' = Delivered
    BY DeliveredSame
<1>2. \A b \in Buffers : Live(b)' <=> Live(b)
    BY DEF Live, pipeVars, senderVars
<1>3. SenderInv'
    BY <1>1 DEF IInv, SenderInv, pipeVars, senderVars
<1>4. BufferInv'
    BY <1>2 DEF IInv, BufferInv, pipeVars
<1>5. Integrity' /\ NoLoss'
    BY <1>1, IntegrityFrame DEF IInv, NoLoss, pipeVars, senderVars
<1> QED
    BY <1>2, <1>3, <1>4, <1>5

\* The receiver steps that change only that receiver's position.
LEMMA ReceiverLocalStep ==
    ASSUME IInv, TypeOK', NEW r \in Receivers,
           TryRecv(r) \/ LoadOwned(r) \/ LoadSeq(r) \/ LoadLen(r) \/ CallbackFails(r)
    PROVE  IInv'
<1>1. UNCHANGED <<pipeVars, senderVars, sent, delivered, recv_seq, ticket>>
    BY DEF TryRecv, LoadOwned, LoadSeq, LoadLen, CallbackFails
<1>2. Delivered' = Delivered
    BY <1>1, DeliveredSame
<1>3. /\ \A q \in Receivers \ {r} :
            rpc'[q] = rpc[q] /\ ii'[q] = ii[q] /\ length'[q] = length[q]
      /\ rpc[r] \in {"idle", "owned", "seq", "len", "func"}
      /\ rpc'[r] \in {"idle", "owned", "seq", "len", "func"}
    <2>1. /\ rpc \in [Receivers -> ReceiverPCs] /\ ii \in [Receivers -> Buffers]
          /\ length \in [Receivers -> 0 .. ChunkSize]
        BY DEF IInv, TypeOK
    <2> QED
        BY <2>1 DEF TryRecv, LoadOwned, LoadSeq, LoadLen, CallbackFails, Continue
<1>4. TicketInv'
    BY <1>1, <1>2, <1>3 DEF IInv, TicketInv, HasTicket
<1>5. /\ rpc'[r] = "seq" => Live(ii'[r]) \/ client_seq[ii'[r]] \in Delivered
      /\ rpc'[r] \in {"len", "func"} => Live(ii'[r]) /\ client_seq[ii'[r]] = ticket[r]
      /\ rpc'[r] = "func" => length'[r] = client_len[ii'[r]]
    <2> USE DEF IInv, TypeOK
    <2>1. CASE TryRecv(r) \/ CallbackFails(r)
        BY <2>1 DEF TryRecv, CallbackFails
    <2>2. CASE LoadOwned(r)
        BY <2>2 DEF LoadOwned, Continue, Live
    <2>3. CASE LoadSeq(r)
        BY <2>3 DEF LoadSeq, Continue, MatchInv, TicketInv, HasTicket
    <2>4. CASE LoadLen(r)
        BY <2>4 DEF LoadLen, MatchInv, Matched
    <2> QED
        BY <2>1, <2>2, <2>3, <2>4
<1>6. MatchInv'
    BY <1>1, <1>2, <1>3, <1>5, ReceiverFrame DEF IInv, TypeOK, MatchInv, Matched, pipeVars
<1> QED
    BY <1>1, <1>4, <1>6, ReceiverFrame DEF IInv

\* A new ticket is one that nobody has and that nobody has processed.
LEMMA RequestTicketStep ==
    ASSUME IInv, TypeOK', NEW r \in Receivers, RequestTicket(r)
    PROVE  IInv'
<1>1. /\ UNCHANGED <<pipeVars, senderVars, sent, delivered, ii, length>>
      /\ \A q \in Receivers \ {r} : rpc'[q] = rpc[q] /\ ticket'[q] = ticket[q]
      /\ rpc'[r] = "idle" /\ ticket'[r] = recv_seq /\ recv_seq' = recv_seq + 1
      /\ recv_seq \in Nat /\ ticket \in [Receivers -> Nat]
      /\ ii \in [Receivers -> Buffers]
    BY DEF RequestTicket, IInv, TypeOK
<1>2. Delivered' = Delivered /\ \A n \in Delivered : n \in Nat
    BY <1>1, DeliveredSame, DeliveredNat DEF IInv
<1>3. TicketInv'
    BY <1>1, <1>2 DEF IInv, TicketInv, HasTicket
<1>4. MatchInv'
    BY <1>1, <1>2, ReceiverFrame DEF IInv, MatchInv, Matched, pipeVars
<1> QED
    BY <1>1, <1>3, <1>4, ReceiverFrame DEF IInv

\* The callback runs on the chunk of its ticket's number, for the first time.
LEMMA CallbackSees ==
    ASSUME IInv, NEW r \in Receivers, rpc[r] = "func"
    PROVE  /\ ticket[r] \notin Delivered
           /\ ticket[r] \in Nat /\ ticket[r] < cur_seq /\ ticket[r] < Len(sent)
           /\ Bytes(chunks[ii[r]], length[r]) = sent[ticket[r] + 1]
<1>1. /\ ii[r] \in Buffers /\ ticket[r] \in Nat /\ cur_seq \in Nat
      /\ r \in Matched /\ HasTicket(r)
    BY DEF IInv, TypeOK, Matched, HasTicket
<1>2. ticket[r] \notin Delivered
    BY <1>1 DEF IInv, TicketInv
<1>3. /\ Live(ii[r]) /\ client_seq[ii[r]] = ticket[r]
      /\ length[r] = client_len[ii[r]]
    BY <1>1 DEF IInv, MatchInv
<1>4. ticket[r] < cur_seq /\ Bytes(chunks[ii[r]], length[r]) = sent[ticket[r] + 1]
    BY <1>1, <1>3 DEF IInv, BufferInv
<1> QED
    BY <1>1, <1>2, <1>4 DEF IInv, SenderInv

\* The callback gets the bytes that were sent under the ticket's number.
LEMMA CallbackOkStep ==
    ASSUME IInv, TypeOK', NEW r \in Receivers, CallbackOk(r)
    PROVE  IInv'
<1> DEFINE data == Bytes(chunks[ii[r]], length[r])
           e == [seq |-> ticket[r], data |-> data]
<1>1. data \in Payload /\ e \in [seq : Nat, data : Payload]
    BY BytesType DEF IInv, TypeOK
<1>2. /\ Delivered' = Delivered \cup {ticket[r]}
      /\ Len(delivered') = Len(delivered) + 1
      /\ \A i \in 1 .. Len(delivered) : delivered'[i] = delivered[i]
      /\ delivered'[Len(delivered) + 1] = e
    BY <1>1, DeliveredAppend DEF IInv, CallbackOk
<1>3. /\ ticket[r] \notin Delivered
      /\ ticket[r] < cur_seq /\ ticket[r] < Len(sent)
      /\ data = sent[ticket[r] + 1]
    BY CallbackSees DEF CallbackOk
<1> HIDE DEF data, e
<1>4. TicketInv'
    BY <1>2, <1>3 DEF IInv, TypeOK, CallbackOk, TicketInv, HasTicket
<1>5. SenderInv' /\ BufferInv' /\ NoLoss'
    BY <1>2 DEF IInv, TypeOK, CallbackOk, SenderInv, BufferInv, NoLoss, Live,
                pipeVars, senderVars
<1>6. MatchInv'
    BY <1>2 DEF IInv, TypeOK, CallbackOk, MatchInv, Live, Matched, pipeVars, senderVars
<1>7. Integrity'
    <2>1. /\ DOMAIN delivered = 1 .. Len(delivered)
          /\ DOMAIN delivered' = 1 .. Len(delivered) + 1
          /\ Len(delivered) \in Nat
        BY <1>2 DEF IInv, TypeOK
    <2>2. \A i \in DOMAIN delivered : delivered[i].seq # ticket[r]
        BY <1>3 DEF Delivered
    <2>3. ticket[r] < Len(sent)
        BY <1>3
    <2>4. e.seq = ticket[r] /\ e.data = sent[ticket[r] + 1]
        BY <1>3 DEF e
    <2> QED
        BY <1>2, <2>1, <2>2, <2>3, <2>4 DEF IInv, Integrity, CallbackOk
<1> QED
    BY <1>4, <1>5, <1>6, <1>7 DEF IInv

\* Giving a buffer back keeps everything else live; the chunk was processed.
LEMMA ReleaseStep ==
    ASSUME IInv, TypeOK', NEW r \in Receivers, Release(r)
    PROVE  IInv'
<1>1. /\ UNCHANGED <<senderVars, sent, delivered, ticket, ii, length, recv_seq>>
      /\ UNCHANGED <<client_len, client_seq, cur_seq, chunks>>
      /\ rpc[r] = "free" /\ rpc'[r] = "ticket"
      /\ \A q \in Receivers \ {r} : rpc'[q] = rpc[q]
      /\ ii[r] \in Buffers /\ ~client_owned'[ii[r]]
      /\ \A b \in Buffers \ {ii[r]} : client_owned'[b] = client_owned[b]
    BY DEF IInv, TypeOK, Release
<1>2. Delivered' = Delivered
    BY <1>1, DeliveredSame
<1>3. r \in Matched /\ HasTicket(r)
    BY <1>1 DEF Matched, HasTicket
<1>4. ticket[r] \in Delivered /\ client_seq[ii[r]] = ticket[r] /\ Live(ii[r])
    BY <1>1, <1>3 DEF IInv, TicketInv, MatchInv
<1>5. /\ \A b \in Buffers : Live(b)' => Live(b)
      /\ \A b \in Buffers \ {ii[r]} : Live(b)' <=> Live(b)
    BY <1>1 DEF Live, senderVars
<1>6. TicketInv' /\ Integrity'
    BY <1>1, <1>2, <1>3, IntegrityFrame DEF IInv, TicketInv, HasTicket
<1>7. SenderInv'
    BY <1>1, <1>2, <1>4 DEF IInv, TypeOK, SenderInv, senderVars
<1>8. BufferInv'
    BY <1>1, <1>5 DEF IInv, BufferInv
\* No other receiver is matched with the buffer, since it carries r's number.
<1>9. \A q \in Receivers \ {r} : q \in Matched => ii[q] # ii[r]
    BY <1>3, <1>4 DEF IInv, TicketInv, MatchInv, Matched, HasTicket
<1>10. \A q \in Receivers : ii[q] \in Buffers
    BY DEF IInv, TypeOK
<1>11. MatchInv'
    <2>1. \A q \in Matched' : q \in Receivers \ {r} /\ q \in Matched
        BY <1>1 DEF Matched
    <2>2. \A q \in Matched' : Live(ii[q])' /\ client_seq[ii[q]] = ticket[q]
        BY <1>1, <1>5, <1>9, <1>10, <2>1 DEF IInv, MatchInv
    <2>3. \A q \in Receivers : rpc'[q] = "seq" =>
                Live(ii[q])' \/ client_seq[ii[q]] \in Delivered
        BY <1>1, <1>4, <1>5, <1>10 DEF IInv, MatchInv
    <2>4. \A q \in Receivers : rpc'[q] = "func" => length[q] = client_len[ii[q]]
        BY <1>1 DEF IInv, MatchInv
    <2> QED
        BY <1>1, <1>2, <2>2, <2>3, <2>4 DEF MatchInv
<1>12. NoLoss'
    BY <1>1, <1>2, <1>4 DEF IInv, NoLoss, senderVars
<1> QED
    BY <1>6, <1>7, <1>8, <1>11, <1>12 DEF IInv

\* Writing the chunk touches a buffer that is not live.
LEMMA SendStep ==
    ASSUME IInv, TypeOK', Send
    PROVE  IInv'
<1>1. PICK data \in Datas, n \in 0 .. ChunkSize :
          /\ n <= Len(data) /\ written + n \in 0 .. ChunkSize
          /\ chunks' = [chunks EXCEPT ![idx] =
                [k \in 1 .. ChunkSize |->
                    IF k \in written + 1 .. written + n
                    THEN data[k - written] ELSE @[k]]]
          /\ written' = written + n
          /\ sent' = Append(sent, Bytes(data, n))
    BY SendTakes DEF IInv
<1>2. written = 0 /\ chunks \in [Buffers -> [1 .. ChunkSize -> Byte]]
      /\ idx \in Buffers
    BY DEF IInv, TypeOK, SenderInv, Send
<1>3. /\ \A b \in Buffers \ {idx} : chunks'[b] = chunks[b]
      /\ \A k \in 1 .. n : chunks'[idx][k] = data[k]
      /\ written' = n
    BY <1>1, <1>2, PipeAssumption
<1>4. Bytes(chunks'[idx], n) = Bytes(data, n)
    BY <1>3 DEF Bytes
<1>5. /\ Len(sent') = Len(sent) + 1
      /\ \A k \in 1 .. Len(sent) : sent'[k] = sent[k]
      /\ sent'[Len(sent) + 1] = Bytes(data, n)
    BY <1>1, <1>2, <1>3, DataBytesType DEF IInv, TypeOK
<1>6. Len(sent) = cur_seq /\ ~client_owned[idx]
    BY DEF IInv, SenderInv, Send
<1>7. TicketInv'
    BY DEF IInv, TicketInv, Send, recvVars, Delivered, HasTicket
<1>8. SenderInv'
    BY <1>3, <1>4, <1>5, <1>6 DEF IInv, SenderInv, Send
<1>9. BufferInv'
    BY <1>3, <1>5, <1>6, SMTT(30) DEF IInv, TypeOK, BufferInv, Send, Live
<1>10. MatchInv'
    BY <1>6 DEF IInv, MatchInv, Send, Live, Matched, Delivered, recvVars
<1>11. delivered' = delivered /\ Delivered' = Delivered /\ Delivered \subseteq Nat
      /\ Len(sent) \in Nat /\ spc' = "len" /\ UNCHANGED <<client_seq, client_owned>>
    BY DeliveredSame, DeliveredNat, SMTT(30) DEF Send, IInv, TypeOK
<1>12. Integrity'
    <2>1. \A i \in DOMAIN delivered : delivered[i].seq \in Nat
        BY <1>11 DEF Delivered
    <2> QED
        BY <1>5, <1>11, <2>1 DEF IInv, Integrity
<1>13. NoLoss'
    BY <1>5, <1>6, <1>11 DEF IInv, NoLoss, Send
<1> QED
    BY <1>7, <1>8, <1>9, <1>10, <1>12, <1>13 DEF IInv

\* Every step keeps the inductive invariant.
LEMMA InvStep ==
    ASSUME IInv, [Next]_vars
    PROVE  IInv'
<1>1. TypeOK'
    BY TypeStep DEF IInv
<1>2. CASE UNCHANGED vars
    <2>1. UNCHANGED <<pipeVars, senderVars, recvVars, sent, delivered>>
        BY <1>2 DEF vars
    <2>2. TicketInv'
        BY <2>1, TicketFrame DEF IInv
    <2>3. MatchInv'
        BY <2>1, ReceiverFrame, MatchFrame DEF IInv, TypeOK, pipeVars
    <2> QED
        BY <1>1, <2>1, <2>2, <2>3, ReceiverFrame DEF IInv
<1>3. CASE Sender
    BY <1>1, <1>3, SenderLocalStep, SendStep, StoreLenStep, FetchSeqStep,
       StoreSeqStep, StoreOwnedStep DEF Sender
<1>4. ASSUME NEW r \in Receivers, Receiver(r)
      PROVE  IInv'
    BY <1>1, <1>4, ReceiverLocalStep, RequestTicketStep, CallbackOkStep,
       ReleaseStep DEF Receiver
<1> QED
    BY <1>2, <1>3, <1>4 DEF Next

\* A pipe that was just created has the inductive invariant.
LEMMA InvInit == Init => IInv
<1> SUFFICES ASSUME Init PROVE IInv
    OBVIOUS
<1>1. TypeOK
    BY TypeInit
<1>2. Delivered = {}
    BY DEF Init, Delivered
<1> QED
    BY <1>1, <1>2 DEF Init, IInv, TicketInv, SenderInv, BufferInv, MatchInv,
                      Integrity, NoLoss, HasTicket, Matched, Live

\* Nothing more than IInv is needed for the theorems that follow.
THEOREM InductiveInvariant == Spec => []IInv
BY InvInit, InvStep, PTL DEF Spec

-----------------------------------------------------------------------------
(* What follows from it. *)

\* Chunks are processed at most once and with the bytes sent, for any number of
\* polling threads.
THEOREM IntegrityTheorem == Spec => []Integrity
<1>1. IInv => Integrity BY DEF IInv
<1> QED BY <1>1, InductiveInvariant, PTL

\* None that was handed over disappears: a chunk is processed or its buffer is
\* still on its way.
THEOREM NoLossTheorem == Spec => []NoLoss
<1>1. IInv => NoLoss BY DEF IInv
<1> QED BY <1>1, InductiveInvariant, PTL

\* The sender never writes a buffer while a receiver reads it.
THEOREM NoOverwriteTheorem == Spec => []NoOverwriteWhileRead
<1>1. IInv => NoOverwriteWhileRead
    BY DEF IInv, SenderInv, MatchInv, Live, Writing, NoOverwriteWhileRead
<1> QED
    BY <1>1, InductiveInvariant, PTL

\* No two receivers process one buffer at the same time.
THEOREM NoSharedBufferTheorem == Spec => []NoSharedBuffer
<1>1. IInv => NoSharedBuffer
    BY DEF IInv, TicketInv, MatchInv, Matched, HasTicket, NoSharedBuffer
<1> QED
    BY <1>1, InductiveInvariant, PTL

\* The spin loop of a blocking send ends only once its chunk was processed.
THEOREM BlockingSendTheorem == Spec => BlockingSendWaits
<1>1. IInv /\ [Next]_vars =>
        [spc = "spin" /\ spc' = "idle" => seq_id \in Delivered]_vars
    <2> SUFFICES ASSUME IInv, Next, spc = "spin", spc' = "idle"
                 PROVE  seq_id \in Delivered
        BY DEF vars
    <2>1. ~client_owned[idx]
        BY DEF Next, Sender, Receiver, AllocBuffer, ScanBuffer, Send, StoreLen,
               FetchSeq, StoreSeq, StoreOwned, SpinDone, RequestTicket, TryRecv,
               LoadOwned, LoadSeq, LoadLen, CallbackOk, CallbackFails, Release,
               senderVars
    <2> QED
        BY <2>1 DEF IInv, SenderInv
<1> QED
    BY <1>1, InductiveInvariant, PTL DEF Spec, BlockingSendWaits

-----------------------------------------------------------------------------
(* MemPipe implements ChunkChannel. *)

\* While a buffer is being written, fewer chunks than buffers are in flight.
LEMMA RoomToSend ==
    ASSUME IInv, spc = "write"
    PROVE  Cardinality(Channel!InFlight) < NumBuffers
<1> DEFINE F == Channel!InFlight
           B == Buffers \ {idx}
           where == [n \in F |-> CHOOSE b \in Buffers : client_seq[b] = n /\ Live(b)]
<1>1. F = (0 .. Len(sent) - 1) \ Delivered
    BY DEF Channel!InFlight, Channel!Delivered, Delivered
<1>2. \A n \in F : \E b \in Buffers : client_seq[b] = n /\ Live(b)
    BY <1>1 DEF IInv, NoLoss, Live
<1>3. \A n \in F : where[n] \in Buffers /\ client_seq[where[n]] = n /\ Live(where[n])
    BY <1>2
<1>4. \A n \in F : where[n] \in B
    BY <1>3 DEF IInv, SenderInv, Live
<1>5. IsFiniteSet(Buffers) /\ Cardinality(Buffers) = NumBuffers
    BY FS_Interval, PipeAssumption DEF Buffers
<1>6. IsFiniteSet(B) /\ Cardinality(B) = NumBuffers - 1
    BY <1>5, FS_RemoveElement DEF IInv, TypeOK
<1> HIDE DEF F, B, where
<1>7. where \in [F -> B]
    BY <1>4 DEF where
<1>8. where \in Injection(F, B)
    BY <1>3, <1>7 DEF Injection, IsInjective
<1>9. Cardinality(F) <= Cardinality(B) /\ IsFiniteSet(F)
    BY <1>6, <1>8, FS_Injection
<1> QED
    BY <1>6, <1>9, FS_CardinalityType, PipeAssumption DEF F

\* The channel's cardinality is that of FiniteSets.
LEMMA ChannelCardinality == \A S : Channel!Cardinality(S) = Cardinality(S)
BY DEF Channel!Cardinality, Cardinality

\* Each step of the pipe is a step of the channel or leaves it alone.
LEMMA ChannelStep ==
    ASSUME IInv, IInv', [Next]_vars
    PROVE  [Channel!Next]_Channel!vars
<1>1. CASE Send
    <2>1. Cardinality(Channel!InFlight) < NumBuffers
        BY <1>1, RoomToSend DEF Send
    <2>2. PICK data \in Datas, n \in 0 .. ChunkSize :
                n <= Len(data) /\ sent' = Append(sent, Bytes(data, n))
        BY <1>1, SendTakes DEF IInv
    <2>3. \E p \in Payload : sent' = Append(sent, p)
        BY <2>2, DataBytesType
    <2>4. delivered' = delivered
        BY <1>1 DEF Send
    <2>5. Channel!Send
        BY ChannelCardinality, <2>1, <2>3, <2>4, Zenon DEF Channel!Send
    <2> QED
        BY <2>5 DEF Channel!Next
<1>2. ASSUME NEW r \in Receivers, CallbackOk(r)
      PROVE  Channel!Deliver
    <2>1. ticket[r] \notin Delivered /\ ticket[r] \in 0 .. Len(sent) - 1
        <3>1. Len(sent) \in Nat
            BY DEF IInv, TypeOK
        <3> QED
            BY <1>2, <3>1, CallbackSees DEF CallbackOk
    <2>2. Bytes(chunks[ii[r]], length[r]) = sent[ticket[r] + 1]
        BY <1>2, CallbackSees DEF CallbackOk
    <2>3. ticket[r] \in Channel!InFlight
        BY <2>1 DEF Channel!InFlight, Channel!Delivered, Delivered
    <2>4. /\ delivered' = Append(delivered, [seq |-> ticket[r], data |-> sent[ticket[r] + 1]])
          /\ sent' = sent
        BY <1>2, <2>2 DEF CallbackOk
    <2> QED
        BY <2>3, <2>4 DEF Channel!Deliver
<1>3. CASE UNCHANGED <<sent, delivered>>
    BY <1>3 DEF Channel!vars
<1>4. Send \/ (\E r \in Receivers : CallbackOk(r)) \/ UNCHANGED <<sent, delivered>>
    BY DEF Next, Sender, Receiver, AllocBuffer, ScanBuffer, StoreLen, FetchSeq,
           StoreSeq, StoreOwned, SpinDone, RequestTicket, TryRecv, LoadOwned,
           LoadSeq, LoadLen, CallbackFails, Release, vars
<1> QED
    BY <1>1, <1>2, <1>3, <1>4 DEF Channel!Next

\* The pipe implements the abstract channel, for any number of buffers and of
\* polling threads.
THEOREM Refinement == Spec => ImplementsChannel
<1>1. Init => Channel!Init
    BY DEF Init, Channel!Init
<1> QED
    BY <1>1, ChannelStep, InductiveInvariant, PTL DEF Spec, ImplementsChannel, Channel!Spec

-----------------------------------------------------------------------------
(* How far polling threads overtake one another. *)

\* Every step keeps a ticket that was handed out with its holder until its
\* chunk is processed.
LEMMA HeldStep ==
    ASSUME IInv, HeldInv, [Next]_vars
    PROVE  HeldInv'
<1>1. /\ rpc \in [Receivers -> ReceiverPCs] /\ ticket \in [Receivers -> Nat]
      /\ recv_seq \in Nat
    BY DEF IInv, TypeOK
<1>2. CASE Sender \/ UNCHANGED vars
    <2>1. UNCHANGED <<recvVars, delivered>>
        BY <1>2 DEF Sender, AllocBuffer, ScanBuffer, Send, StoreLen, FetchSeq,
               StoreSeq, StoreOwned, SpinDone, vars
    <2> QED
        BY <2>1, DeliveredSame DEF HeldInv, HasTicket, recvVars
<1>3. ASSUME NEW r \in Receivers, RequestTicket(r)
      PROVE  HeldInv'
    <2>1. /\ delivered' = delivered /\ recv_seq' = recv_seq + 1
          /\ ~HasTicket(r) /\ HasTicket(r)' /\ ticket'[r] = recv_seq
          /\ \A q \in Receivers \ {r} :
                ticket'[q] = ticket[q] /\ (HasTicket(q)' <=> HasTicket(q))
        BY <1>1, <1>3 DEF RequestTicket, HasTicket
    <2>2. Delivered' = Delivered
        BY <2>1, DeliveredSame
    <2>3. \A n \in 0 .. recv_seq' - 1 : n \in 0 .. recv_seq - 1 \/ n = recv_seq
        BY <1>1, <2>1
    <2>4. \A n \in 0 .. recv_seq' - 1 :
              n \in Delivered' \/ \E q \in Receivers : HasTicket(q)' /\ ticket'[q] = n
        BY <2>1, <2>2, <2>3 DEF HeldInv
    <2>5. \A n \in Delivered : n \in Nat /\ n < recv_seq
        BY DeliveredNat DEF IInv, TicketInv
    <2>6. \A n \in Delivered' : \E q \in Receivers : HasTicket(q)' => ticket'[q] >= n
        BY <1>1, <2>1, <2>2, <2>5
    <2> QED
        BY <2>4, <2>6 DEF HeldInv
<1>4. ASSUME NEW r \in Receivers, CallbackOk(r)
      PROVE  HeldInv'
    <2> DEFINE e == [seq |-> ticket[r], data |-> Bytes(chunks[ii[r]], length[r])]
    <2>1. e \in [seq : Nat, data : Payload] /\ e.seq = ticket[r]
        BY BytesType DEF IInv, TypeOK
    <2>2. Delivered' = Delivered \cup {ticket[r]}
        BY <1>4, <2>1, DeliveredAppend DEF IInv, CallbackOk
    <2>3. /\ UNCHANGED <<recv_seq, ticket>>
          /\ HasTicket(r) /\ HasTicket(r)'
          /\ \A q \in Receivers : HasTicket(q)' <=> HasTicket(q)
        BY <1>1, <1>4 DEF CallbackOk, HasTicket
    <2> QED
        BY <1>1, <2>2, <2>3 DEF HeldInv
<1>5. ASSUME NEW r \in Receivers, Release(r)
      PROVE  HeldInv'
    <2>1. /\ UNCHANGED <<recv_seq, ticket, delivered>>
          /\ HasTicket(r) /\ ~HasTicket(r)'
          /\ \A q \in Receivers \ {r} : HasTicket(q)' <=> HasTicket(q)
        BY <1>1, <1>5 DEF Release, HasTicket
    <2>2. Delivered' = Delivered
        BY <2>1, DeliveredSame
    <2>3. ticket[r] \in Delivered
        BY <1>5, <2>1 DEF IInv, TicketInv, Release
    <2> QED
        BY <2>1, <2>2, <2>3 DEF HeldInv
<1>6. ASSUME NEW r \in Receivers,
             TryRecv(r) \/ LoadOwned(r) \/ LoadSeq(r) \/ LoadLen(r) \/ CallbackFails(r)
      PROVE  HeldInv'
    <2>1. UNCHANGED <<recv_seq, ticket, delivered>>
        BY <1>6 DEF TryRecv, LoadOwned, LoadSeq, LoadLen, CallbackFails
    <2>2. \A q \in Receivers : HasTicket(q)' <=> HasTicket(q)
        BY <1>1, <1>6
        DEF TryRecv, LoadOwned, LoadSeq, LoadLen, CallbackFails, Continue, HasTicket
    <2> QED
        BY <2>1, <2>2, DeliveredSame DEF HeldInv
<1> QED
    BY <1>2, <1>3, <1>4, <1>5, <1>6 DEF Next, Receiver

\* The holders of the numbers missing below a processed one are all different,
\* and none of them is the thread that processed it.
LEMMA HeldBound ==
    ASSUME IInv, HeldInv
    PROVE  ReorderBound
<1> SUFFICES ASSUME NEW n \in Delivered
             PROVE  Cardinality((0 .. n) \ Delivered) < Cardinality(Receivers)
    BY DEF ReorderBound
<1>1. PICK r \in Receivers : HasTicket(r) => ticket[r] >= n
    BY DEF HeldInv
<1> DEFINE Missing == (0 .. n) \ Delivered
           Others == Receivers \ {r}
           holder == [m \in Missing |-> CHOOSE q \in Receivers : HasTicket(q) /\ ticket[q] = m]
<1>2. n \in Nat /\ n < recv_seq /\ recv_seq \in Nat
    BY DeliveredNat DEF IInv, TypeOK, TicketInv
<1>3. \A m \in Missing : m \in 0 .. recv_seq - 1 /\ m < n /\ m \notin Delivered
    BY <1>2
<1>4. \A m \in Missing : \E q \in Receivers : HasTicket(q) /\ ticket[q] = m
    BY <1>3 DEF HeldInv
<1>5. \A m \in Missing : holder[m] \in Receivers /\ HasTicket(holder[m]) /\ ticket[holder[m]] = m
    BY <1>4
<1>6. \A m \in Missing : holder[m] \in Others
    BY <1>1, <1>2, <1>3, <1>5
<1>7. IsFiniteSet(Others) /\ Cardinality(Others) = Cardinality(Receivers) - 1
      /\ Cardinality(Receivers) \in Nat
    BY FS_RemoveElement, FS_CardinalityType, PipeAssumption
<1> HIDE DEF Missing, Others, holder
<1>8. holder \in [Missing -> Others]
    BY <1>6 DEF holder
<1>9. holder \in Injection(Missing, Others)
    BY <1>5, <1>8 DEF Injection, IsInjective
<1>10. Cardinality(Missing) <= Cardinality(Others) /\ IsFiniteSet(Missing)
    BY <1>7, <1>9, FS_Injection
<1> QED
    BY <1>7, <1>10, FS_CardinalityType DEF Missing

\* Threads overtake one another by at most the other threads, for any number of
\* threads and buffers: what bounds the traces a server keeps (lib.rs of
\* cannoli, State::traces) to restore the order of the chunks.
THEOREM ReorderBoundTheorem == Spec => []ReorderBound
<1>1. Init => HeldInv
    <2> SUFFICES ASSUME Init PROVE HeldInv
        OBVIOUS
    <2>1. Delivered = {} /\ recv_seq = 0
        BY DEF Init, Delivered
    <2> QED
        BY <2>1 DEF HeldInv
<1> QED
    BY <1>1, HeldStep, HeldBound, InductiveInvariant, PTL DEF Spec

-----------------------------------------------------------------------------
(* One polling thread. *)

\* Only one thread polls the pipe.
OneThread == \E r \in Receivers : Receivers = {r}

\* Every step of the only thread keeps its ticket next to the chunks it
\* processed.
LEMMA TurnStep ==
    ASSUME IInv, TurnInv, OneThread, [Next]_vars
    PROVE  TurnInv'
<1>1. /\ rpc \in [Receivers -> ReceiverPCs] /\ ticket \in [Receivers -> Nat]
      /\ recv_seq \in Nat /\ delivered \in Seq([seq : Nat, data : Payload])
    BY DEF IInv, TypeOK
<1>2. Len(delivered) \in Nat /\ DOMAIN delivered = 1 .. Len(delivered)
    BY <1>1
<1>3. CASE Sender \/ UNCHANGED vars
    <2>1. UNCHANGED <<recvVars, delivered>>
        BY <1>3 DEF Sender, AllocBuffer, ScanBuffer, Send, StoreLen, FetchSeq,
               StoreSeq, StoreOwned, SpinDone, vars
    <2> QED
        BY <2>1 DEF TurnInv, InOrder, HasTicket, recvVars
<1>4. ASSUME NEW r \in Receivers, Receiver(r)
      PROVE  TurnInv'
    <2>1. Receivers = {r}
        BY DEF OneThread
    <2>2. CASE RequestTicket(r)
        <3>1. /\ delivered' = delivered /\ recv_seq' = recv_seq + 1
              /\ ~HasTicket(r) /\ HasTicket(r)' /\ rpc'[r] # "free"
              /\ ticket'[r] = recv_seq
            BY <1>1, <2>2 DEF RequestTicket, HasTicket
        <3> QED
            BY <1>1, <1>2, <2>1, <3>1 DEF TurnInv, InOrder
    <2>3. CASE CallbackOk(r)
        <3> DEFINE e == [seq |-> ticket[r], data |-> Bytes(chunks[ii[r]], length[r])]
        <3>1. e \in [seq : Nat, data : Payload] /\ e.seq = ticket[r]
            BY BytesType DEF IInv, TypeOK
        <3>2. delivered' = Append(delivered, e)
            BY <2>3 DEF CallbackOk
        <3> HIDE DEF e
        <3>3. /\ Len(delivered') = Len(delivered) + 1
              /\ DOMAIN delivered' = 1 .. Len(delivered) + 1
              /\ \A i \in 1 .. Len(delivered) : delivered'[i] = delivered[i]
              /\ delivered'[Len(delivered) + 1] = e
            <4>1. DOMAIN delivered' = 1 .. Len(delivered')
                BY <3>1, <3>2, <1>1
            <4> QED
                BY <3>1, <3>2, <4>1, DeliveredAppend DEF IInv
        <3>4. /\ HasTicket(r) /\ rpc[r] = "func" /\ HasTicket(r)' /\ rpc'[r] = "free"
              /\ UNCHANGED <<recv_seq, ticket>>
            BY <1>1, <2>3 DEF CallbackOk, HasTicket
        <3>5. recv_seq = Len(delivered) + 1 /\ ticket[r] = Len(delivered)
            <4>1. /\ recv_seq = IF HasTicket(r) /\ rpc[r] # "free"
                                THEN Len(delivered) + 1 ELSE Len(delivered)
                  /\ HasTicket(r) => ticket[r] + 1 = recv_seq
                BY <1>4 DEF TurnInv
            <4>2. recv_seq = Len(delivered) + 1
                BY <3>4, <4>1
            <4> QED
                BY <1>1, <1>2, <3>4, <4>1, <4>2
        <3>6. InOrder'
            BY <1>2, <3>1, <3>3, <3>5 DEF TurnInv, InOrder
        <3> QED
            BY <1>1, <1>2, <2>1, <3>3, <3>4, <3>5, <3>6 DEF TurnInv
    <2>4. CASE Release(r)
        <3>1. /\ UNCHANGED <<recv_seq, ticket, delivered>>
              /\ rpc[r] = "free" /\ ~HasTicket(r)'
            BY <1>1, <2>4 DEF Release, HasTicket
        <3> QED
            BY <2>1, <3>1 DEF TurnInv, InOrder
    <2>5. CASE TryRecv(r) \/ LoadOwned(r) \/ LoadSeq(r) \/ LoadLen(r) \/ CallbackFails(r)
        <3>1. UNCHANGED <<recv_seq, ticket, delivered>>
            BY <2>5 DEF TryRecv, LoadOwned, LoadSeq, LoadLen, CallbackFails
        <3>2. HasTicket(r) /\ HasTicket(r)' /\ rpc[r] # "free" /\ rpc'[r] # "free"
            BY <1>1, <2>5
            DEF TryRecv, LoadOwned, LoadSeq, LoadLen, CallbackFails, Continue, HasTicket
        <3> QED
            BY <2>1, <3>1, <3>2 DEF TurnInv, InOrder
    <2> QED
        BY <1>4, <2>2, <2>3, <2>4, <2>5 DEF Receiver
<1> QED
    BY <1>3, <1>4 DEF Next

\* With one polling thread the chunks are processed in the order sent, whatever
\* the number of buffers and wherever the scan finds them.
THEOREM InOrderTheorem == OneThread /\ Spec => []InOrder
<1>1. Init => TurnInv
    <2> SUFFICES ASSUME Init PROVE TurnInv
        OBVIOUS
    <2>1. Len(delivered) = 0 /\ DOMAIN delivered = {} /\ recv_seq = 0
        BY DEF Init
    <2>2. \A r \in Receivers : ~HasTicket(r)
        BY DEF Init, HasTicket
    <2> QED
        BY <2>1, <2>2 DEF TurnInv, InOrder
<1> DEFINE J == OneThread /\ TurnInv
<1>2. J /\ IInv /\ [Next]_vars => J'
    BY TurnStep DEF OneThread
<1>3. OneThread /\ Init => J
    BY <1>1
<1>4. J => InOrder
    BY DEF TurnInv
<1> QED
    BY <1>2, <1>3, <1>4, InductiveInvariant, PTL DEF Spec

\* A step of the sender publishes a number that is new in a buffer that is free.
LEMMA FreshSenderStep ==
    ASSUME IInv, TypeOK', FreshInv, Sender
    PROVE  FreshInv'
<1>1. Delivered' = Delivered /\ Delivered \subseteq Nat
      /\ UNCHANGED <<recvVars, delivered>>
    <2>1. UNCHANGED <<recvVars, delivered>>
        BY DEF Sender, AllocBuffer, ScanBuffer, Send, StoreLen, FetchSeq,
               StoreSeq, StoreOwned, SpinDone
    <2> QED
        BY <2>1, DeliveredSame, DeliveredNat DEF IInv
<1>2. /\ client_owned \in [Buffers -> BOOLEAN] /\ client_seq \in [Buffers -> Nat]
      /\ cur_seq \in Nat /\ seq_id \in Nat /\ idx \in Buffers
      /\ ii \in [Receivers -> Buffers]
    BY DEF IInv, TypeOK
<1>3. CASE AllocBuffer \/ ScanBuffer \/ Send \/ StoreLen \/ SpinDone
    <2>1. UNCHANGED <<client_owned, client_seq, cur_seq, seq_id>>
          /\ spc' \notin {"seq", "own"}
        BY <1>3 DEF AllocBuffer, ScanBuffer, Send, StoreLen, SpinDone, pipeVars
    <2> QED
        BY <1>1, <2>1 DEF FreshInv, NoOrphan, recvVars
<1>4. CASE FetchSeq
    <2>1. /\ UNCHANGED <<client_owned, client_seq>>
          /\ spc' = "seq" /\ seq_id' = cur_seq /\ cur_seq' = cur_seq + 1
        BY <1>4 DEF FetchSeq
    <2>2. \A b \in Buffers : client_owned[b] => client_seq[b] # cur_seq
        BY <1>2 DEF IInv, BufferInv, Live
    <2>3. \A n \in Delivered : n < cur_seq /\ n < cur_seq + 1 /\ n # cur_seq
        BY <1>1, <1>2 DEF FreshInv
    <2> QED
        BY <1>1, <2>1, <2>2, <2>3 DEF FreshInv, NoOrphan, recvVars
<1>5. CASE StoreSeq
    <2>1. /\ UNCHANGED <<client_owned, cur_seq, seq_id>>
          /\ spc = "seq" /\ spc' = "own" /\ ~client_owned[idx]
          /\ \A b \in Buffers \ {idx} : client_seq'[b] = client_seq[b]
        BY <1>2, <1>5 DEF StoreSeq, IInv, SenderInv
    <2> QED
        BY <1>1, <1>2, <2>1 DEF FreshInv, NoOrphan, recvVars
<1>6. CASE StoreOwned
    <2>1. /\ UNCHANGED <<client_seq, cur_seq, seq_id>>
          /\ spc = "own" /\ spc' \notin {"seq", "own"}
          /\ client_owned'[idx] /\ client_seq[idx] = seq_id
          /\ \A b \in Buffers \ {idx} : client_owned'[b] = client_owned[b]
        BY <1>2, <1>6 DEF StoreOwned, IInv, SenderInv
    <2>2. \A b \in Buffers : client_owned[b] => client_owned'[b]
        BY <2>1
    <2> QED
        BY <1>1, <1>2, <2>1, <2>2 DEF FreshInv, NoOrphan, recvVars
<1> QED
    BY <1>3, <1>4, <1>5, <1>6 DEF Sender

\* A step of the only receiver: nobody else clears the flag it loaded.
LEMMA FreshReceiverStep ==
    ASSUME IInv, TypeOK', FreshInv, OneThread, NEW r \in Receivers, Receiver(r)
    PROVE  FreshInv'
<1>1. Receivers = {r}
    BY DEF OneThread
<1>2. /\ client_owned \in [Buffers -> BOOLEAN] /\ client_seq \in [Buffers -> Nat]
      /\ rpc \in [Receivers -> ReceiverPCs] /\ ii \in [Receivers -> Buffers]
      /\ ii[r] \in Buffers
    BY DEF IInv, TypeOK
<1>3. UNCHANGED <<client_seq, cur_seq, seq_id, spc>>
    BY DEF Receiver, RequestTicket, TryRecv, LoadOwned, LoadSeq, LoadLen,
           CallbackOk, CallbackFails, Release, pipeVars, senderVars
<1>4. CASE RequestTicket(r) \/ TryRecv(r) \/ LoadOwned(r) \/ LoadSeq(r)
           \/ LoadLen(r) \/ CallbackFails(r)
    <2>1. UNCHANGED <<client_owned, delivered>> /\ rpc[r] # "free"
        BY <1>4 DEF RequestTicket, TryRecv, LoadOwned, LoadSeq, LoadLen,
               CallbackFails, pipeVars
    <2>2. rpc'[r] \in {"seq", "len", "func", "free"} => client_owned[ii'[r]]
        BY <1>2, <1>4 DEF RequestTicket, TryRecv, LoadOwned, LoadSeq, LoadLen,
               CallbackFails, Continue, FreshInv
    <2>3. Delivered' = Delivered
        BY <2>1, DeliveredSame
    <2>4. \A b \in Buffers : client_owned[b] => client_seq[b] \notin Delivered
        BY <1>1, <2>1 DEF FreshInv, NoOrphan
    <2> QED
        BY <1>1, <1>3, <2>1, <2>2, <2>3, <2>4 DEF FreshInv, NoOrphan
<1>5. CASE CallbackOk(r)
    <2> DEFINE e == [seq |-> ticket[r], data |-> Bytes(chunks[ii[r]], length[r])]
    <2>1. e \in [seq : Nat, data : Payload] /\ e.seq = ticket[r]
        BY BytesType DEF IInv, TypeOK
    <2>2. Delivered' = Delivered \cup {ticket[r]}
        BY <1>5, <2>1, DeliveredAppend DEF IInv, CallbackOk
    <2>3. /\ UNCHANGED <<client_owned, ii>> /\ rpc[r] = "func" /\ rpc'[r] = "free"
        BY <1>2, <1>5 DEF CallbackOk, pipeVars
    <2>4. /\ ticket[r] < cur_seq
        BY <2>3, CallbackSees
    <2>5. client_owned[ii[r]] /\ client_seq[ii[r]] = ticket[r]
        BY <2>3 DEF FreshInv, IInv, MatchInv, Matched
    <2>6. spc \in {"seq", "own"} => seq_id # ticket[r]
        BY <1>2, <2>5 DEF FreshInv
    <2>7. \A b \in Buffers : client_owned[b] =>
                client_seq[b] \notin Delivered' \/ b = ii[r]
        BY <1>1, <1>2, <2>2, <2>3, <2>5 DEF FreshInv, NoOrphan
    <2>8. NoOrphan'
        BY <1>3, <2>3, <2>7 DEF NoOrphan
    <2>9. /\ \A n \in Delivered' : n < cur_seq
          /\ spc \in {"seq", "own"} => seq_id \notin Delivered'
        BY <2>2, <2>4, <2>6 DEF FreshInv
    <2> QED
        BY <1>1, <1>3, <2>3, <2>5, <2>8, <2>9 DEF FreshInv
<1>6. CASE Release(r)
    <2>1. /\ UNCHANGED <<delivered, ii>> /\ rpc'[r] = "ticket"
          /\ ~client_owned'[ii[r]]
          /\ \A b \in Buffers \ {ii[r]} : client_owned'[b] = client_owned[b]
        BY <1>2, <1>6 DEF Release
    <2>2. Delivered' = Delivered
        BY <2>1, DeliveredSame
    <2>3. \A b \in Buffers : client_owned'[b] => client_owned[b] /\ b # ii[r]
        BY <1>2, <2>1
    <2>4. \A b \in Buffers : client_owned'[b] => client_seq[b] \notin Delivered
        BY <1>1, <2>3 DEF FreshInv, NoOrphan
    <2> QED
        BY <1>1, <1>3, <2>1, <2>2, <2>3, <2>4 DEF FreshInv, NoOrphan
<1> QED
    BY <1>4, <1>5, <1>6 DEF Receiver

\* With one polling thread no buffer is lost to the pipe: one that the client
\* owns carries a chunk still to be processed, or is being given back.
THEOREM NoOrphanTheorem == OneThread /\ Spec => []NoOrphan
<1>1. Init => FreshInv
    <2> SUFFICES ASSUME Init PROVE FreshInv
        OBVIOUS
    <2>1. Delivered = {}
        BY DEF Init, Delivered
    <2> QED
        BY <2>1 DEF Init, FreshInv, NoOrphan
<1> DEFINE J == OneThread /\ FreshInv
<1>2. J /\ IInv /\ [Next]_vars => J'
    <2> SUFFICES ASSUME J, IInv, [Next]_vars
                 PROVE  J'
        OBVIOUS
    <2>1. TypeOK'
        BY TypeStep DEF IInv
    <2>2. CASE UNCHANGED vars
        <3>1. UNCHANGED <<pipeVars, senderVars, recvVars, delivered>>
            BY <2>2 DEF vars
        <3> QED
            BY <3>1, DeliveredSame
            DEF FreshInv, NoOrphan, OneThread, pipeVars, senderVars, recvVars
    <2> QED
        BY <2>1, <2>2, FreshSenderStep, FreshReceiverStep DEF Next, OneThread
<1>3. OneThread /\ Init => J
    BY <1>1
<1>4. J => NoOrphan
    BY DEF FreshInv
<1> QED
    BY <1>2, <1>3, <1>4, InductiveInvariant, PTL DEF Spec
=============================================================================
