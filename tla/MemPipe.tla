------------------------------ MODULE MemPipe ------------------------------
(***************************************************************************)
(* mempipe/src/lib.rs: the shared-memory pipe between the QEMU process     *)
(* (the one sender, SendPipe) and the trace server (RecvPipe, polled by    *)
(* several threads at once).  Every access to a shared atomic is a step of *)
(* its own; the interleavings of those steps are the x86 executions of the *)
(* code (stores and loads of the protocol are in program order there).     *)
(***************************************************************************)
EXTENDS Naturals, Sequences, FiniteSets

CONSTANTS NumBuffers,  \* NUM_BUFFERS
          ChunkSize,   \* CHUNK_SIZE, in bytes
          Receivers,   \* the threads polling try_recv on one RecvPipe
          Datas,       \* what callers of ChunkWriter::send hand over
          Byte,        \* the values of a byte
          Junk,        \* the byte an uninitialised chunk reads as
          CallbackErr, \* whether the callback of try_recv may return Err
          MaxSends     \* bound on the chunks sent in a behaviour

ASSUME PipeAssumption ==
    /\ NumBuffers \in Nat \ {0}
    /\ ChunkSize \in Nat \ {0}
    /\ MaxSends \in Nat
    /\ CallbackErr \in BOOLEAN
    /\ Junk \in Byte
    /\ Datas \subseteq Seq(Byte)
    /\ IsFiniteSet(Receivers)

Buffers == 0 .. NumBuffers - 1

VARIABLES
    client_owned, client_len, client_seq, cur_seq, chunks, \* RawMemPipe
    spc, scan, idx, written, blocking, seq_id,             \* the sender
    recv_seq,                                              \* RecvPipe.seq
    rpc, ticket, ii, length,                               \* each receiver
    sent, delivered                                        \* history

pipeVars == <<client_owned, client_len, client_seq, cur_seq, chunks>>
senderVars == <<spc, scan, idx, written, blocking, seq_id>>
recvVars == <<recv_seq, rpc, ticket, ii, length>>
vars == <<pipeVars, senderVars, recvVars, sent, delivered>>

\* The first n bytes of a chunk.
Bytes(c, n) == [k \in 1 .. n |-> c[k]]

\* What fits in a chunk.
Payload == UNION {[1 .. n -> Byte] : n \in 0 .. ChunkSize}

SenderPCs == {"idle", "scan", "write", "len", "fetch", "seq", "own", "spin"}
ReceiverPCs == {"start", "idle", "owned", "seq", "len", "func", "free", "ticket"}

\* No length exceeds a chunk, although callers may hand over more than fits,
\* and every index is that of a buffer.
TypeOK ==
    /\ client_owned \in [Buffers -> BOOLEAN]
    /\ client_len \in [Buffers -> 0 .. ChunkSize]
    /\ client_seq \in [Buffers -> Nat]
    /\ cur_seq \in Nat
    /\ chunks \in [Buffers -> [1 .. ChunkSize -> Byte]]
    /\ spc \in SenderPCs
    /\ scan \in Buffers /\ idx \in Buffers
    /\ written \in 0 .. ChunkSize
    /\ blocking \in BOOLEAN
    /\ seq_id \in Nat
    /\ recv_seq \in Nat
    /\ rpc \in [Receivers -> ReceiverPCs]
    /\ ticket \in [Receivers -> Nat]
    /\ ii \in [Receivers -> Buffers]
    /\ length \in [Receivers -> 0 .. ChunkSize]
    /\ sent \in Seq(Payload)
    /\ delivered \in Seq([seq : Nat, data : Payload])

\* SendPipe::create and RecvPipe::open: nothing sent, no ticket taken.
Init ==
    /\ client_owned = [b \in Buffers |-> FALSE]
    /\ client_len = [b \in Buffers |-> 0]
    /\ client_seq = [b \in Buffers |-> 0]
    /\ cur_seq = 0
    /\ chunks = [b \in Buffers |-> [k \in 1 .. ChunkSize |-> Junk]]
    /\ spc = "idle" /\ scan = 0 /\ idx = 0 /\ written = 0
    /\ blocking = FALSE /\ seq_id = 0
    /\ recv_seq = 0
    /\ rpc = [r \in Receivers |-> "start"]
    /\ ticket = [r \in Receivers |-> 0]
    /\ ii = [r \in Receivers |-> 0]
    /\ length = [r \in Receivers |-> 0]
    /\ sent = <<>> /\ delivered = <<>>

-----------------------------------------------------------------------------
(* The sender. *)

\* alloc_buffer(blocking) is called.
AllocBuffer ==
    /\ spc = "idle"
    /\ cur_seq < MaxSends
    /\ spc' = "scan"
    /\ scan' = 0
    /\ blocking' \in BOOLEAN
    /\ UNCHANGED <<pipeVars, idx, written, seq_id, recvVars, sent, delivered>>

\* Mutant: the scan takes whatever buffer it looks at.
ScanBufferBlindly ==
    /\ spc = "scan"
    /\ idx' = scan /\ written' = 0 /\ spc' = "write"
    /\ UNCHANGED <<pipeVars, scan, blocking, seq_id, recvVars, sent, delivered>>

\* One iteration of the scan of client_owned, which starts over at the end.
ScanBuffer ==
    /\ spc = "scan"
    /\ \/ /\ ~client_owned[scan]
          /\ idx' = scan
          /\ written' = 0
          /\ spc' = "write"
          /\ UNCHANGED scan
       \/ /\ client_owned[scan]
          /\ scan' = IF scan + 1 < NumBuffers THEN scan + 1 ELSE 0
          /\ UNCHANGED <<idx, written, spc>>
    /\ UNCHANGED <<pipeVars, blocking, seq_id, recvVars, sent, delivered>>

\* The bytes of data that still fit in the chunk.
ToSend(data) ==
    LET remain == ChunkSize - written
    IN  IF Len(data) < remain THEN Len(data) ELSE remain

\* ChunkWriter::send copies what fits and drops the writer.
Send ==
    /\ spc = "write"
    /\ \E data \in Datas :
          /\ chunks' = [chunks EXCEPT ![idx] =
                [k \in 1 .. ChunkSize |->
                    IF k \in written + 1 .. written + ToSend(data)
                    THEN data[k - written] ELSE @[k]]]
          /\ written' = written + ToSend(data)
          /\ sent' = Append(sent, Bytes(data, ToSend(data)))
    /\ spc' = "len"
    /\ UNCHANGED <<client_owned, client_len, client_seq, cur_seq, scan, idx,
                   blocking, seq_id, recvVars, delivered>>

\* Mutant: the length of the buffer's previous chunk stays.
StoreLenForgotten ==
    /\ spc = "len"
    /\ spc' = "fetch"
    /\ UNCHANGED <<pipeVars, scan, idx, written, blocking, seq_id, recvVars,
                   sent, delivered>>

\* ChunkWriter::drop, store by store.
StoreLen ==
    /\ spc = "len"
    /\ client_len' = [client_len EXCEPT ![idx] = written]
    /\ spc' = "fetch"
    /\ UNCHANGED <<client_owned, client_seq, cur_seq, chunks, scan, idx, written,
                   blocking, seq_id, recvVars, sent, delivered>>

FetchSeq ==
    /\ spc = "fetch"
    /\ seq_id' = cur_seq
    /\ cur_seq' = cur_seq + 1
    /\ spc' = "seq"
    /\ UNCHANGED <<client_owned, client_len, client_seq, chunks, scan, idx,
                   written, blocking, recvVars, sent, delivered>>

StoreSeq ==
    /\ spc = "seq"
    /\ client_seq' = [client_seq EXCEPT ![idx] = seq_id]
    /\ spc' = "own"
    /\ UNCHANGED <<client_owned, client_len, cur_seq, chunks, scan, idx, written,
                   blocking, seq_id, recvVars, sent, delivered>>

StoreOwned ==
    /\ spc = "own"
    /\ client_owned' = [client_owned EXCEPT ![idx] = TRUE]
    /\ spc' = IF blocking THEN "spin" ELSE "idle"
    /\ UNCHANGED <<client_len, client_seq, cur_seq, chunks, scan, idx, written,
                   blocking, seq_id, recvVars, sent, delivered>>

\* Mutant: the loop does not wait for the buffer to come back.
SpinDoneAtOnce ==
    /\ spc = "spin"
    /\ spc' = "idle"
    /\ UNCHANGED <<pipeVars, scan, idx, written, blocking, seq_id, recvVars,
                   sent, delivered>>

\* The exit of the spin loop of a blocking send.
SpinDone ==
    /\ spc = "spin"
    /\ ~client_owned[idx]
    /\ spc' = "idle"
    /\ UNCHANGED <<pipeVars, scan, idx, written, blocking, seq_id, recvVars,
                   sent, delivered>>

Sender == \/ AllocBuffer \/ ScanBuffer \/ Send \/ StoreLen \/ FetchSeq
          \/ StoreSeq \/ StoreOwned \/ SpinDone

-----------------------------------------------------------------------------
(* A receiver thread r. *)

\* Mutant: the counter of tickets is read and not advanced.
RequestTicketTwice(r) ==
    /\ rpc[r] \in {"start", "ticket"}
    /\ ticket' = [ticket EXCEPT ![r] = recv_seq]
    /\ rpc' = [rpc EXCEPT ![r] = "idle"]
    /\ UNCHANGED <<pipeVars, senderVars, recv_seq, ii, length, sent, delivered>>

\* request_ticket, before the first poll and at the end of a successful one.
RequestTicket(r) ==
    /\ rpc[r] \in {"start", "ticket"}
    /\ ticket' = [ticket EXCEPT ![r] = recv_seq]
    /\ recv_seq' = recv_seq + 1
    /\ rpc' = [rpc EXCEPT ![r] = "idle"]
    /\ UNCHANGED <<pipeVars, senderVars, ii, length, sent, delivered>>

\* try_recv is called.
TryRecv(r) ==
    /\ rpc[r] = "idle"
    /\ ii' = [ii EXCEPT ![r] = 0]
    /\ rpc' = [rpc EXCEPT ![r] = "owned"]
    /\ UNCHANGED <<pipeVars, senderVars, recv_seq, ticket, length, sent, delivered>>

\* Mutant: a poll that found nothing drops its ticket and takes another.
ContinueDropping(r) ==
    \/ /\ ii[r] + 1 < NumBuffers
       /\ ii' = [ii EXCEPT ![r] = @ + 1]
       /\ rpc' = [rpc EXCEPT ![r] = "owned"]
    \/ /\ ii[r] + 1 = NumBuffers
       /\ rpc' = [rpc EXCEPT ![r] = "ticket"]
       /\ UNCHANGED ii

\* The `continue` of the scan: next buffer, or give the ticket back.
Continue(r) ==
    \/ /\ ii[r] + 1 < NumBuffers
       /\ ii' = [ii EXCEPT ![r] = @ + 1]
       /\ rpc' = [rpc EXCEPT ![r] = "owned"]
    \/ /\ ii[r] + 1 = NumBuffers
       /\ rpc' = [rpc EXCEPT ![r] = "idle"]
       /\ UNCHANGED ii

LoadOwned(r) ==
    /\ rpc[r] = "owned"
    /\ \/ client_owned[ii[r]] /\ rpc' = [rpc EXCEPT ![r] = "seq"] /\ UNCHANGED ii
       \/ ~client_owned[ii[r]] /\ Continue(r)
    /\ UNCHANGED <<pipeVars, senderVars, recv_seq, ticket, length, sent, delivered>>

\* Mutant: any client-owned buffer will do, whatever its number.
LoadSeqAny(r) ==
    /\ rpc[r] = "seq"
    /\ rpc' = [rpc EXCEPT ![r] = "len"]
    /\ UNCHANGED <<pipeVars, senderVars, recv_seq, ticket, ii, length, sent, delivered>>

LoadSeq(r) ==
    /\ rpc[r] = "seq"
    /\ \/ ticket[r] = client_seq[ii[r]] /\ rpc' = [rpc EXCEPT ![r] = "len"]
          /\ UNCHANGED ii
       \/ ticket[r] # client_seq[ii[r]] /\ Continue(r)
    /\ UNCHANGED <<pipeVars, senderVars, recv_seq, ticket, length, sent, delivered>>

LoadLen(r) ==
    /\ rpc[r] = "len"
    /\ length' = [length EXCEPT ![r] = client_len[ii[r]]]
    /\ rpc' = [rpc EXCEPT ![r] = "func"]
    /\ UNCHANGED <<pipeVars, senderVars, recv_seq, ticket, ii, sent, delivered>>

\* The callback, run on the first length bytes of the chunk, returns Ok.
CallbackOk(r) ==
    /\ rpc[r] = "func"
    /\ delivered' = Append(delivered, [seq |-> ticket[r],
                                       data |-> Bytes(chunks[ii[r]], length[r])])
    /\ rpc' = [rpc EXCEPT ![r] = "free"]
    /\ UNCHANGED <<pipeVars, senderVars, recv_seq, ticket, ii, length, sent>>

\* Mutant: an error gives the buffer back to the sender.
CallbackFailsFreeing(r) ==
    /\ rpc[r] = "func"
    /\ CallbackErr
    /\ client_owned' = [client_owned EXCEPT ![ii[r]] = FALSE]
    /\ rpc' = [rpc EXCEPT ![r] = "idle"]
    /\ UNCHANGED <<client_len, client_seq, cur_seq, chunks, senderVars, recv_seq,
                   ticket, ii, length, sent, delivered>>

\* Mutant: an error drops the ticket and takes another.
CallbackFailsDropping(r) ==
    /\ rpc[r] = "func"
    /\ CallbackErr
    /\ rpc' = [rpc EXCEPT ![r] = "ticket"]
    /\ UNCHANGED <<pipeVars, senderVars, recv_seq, ticket, ii, length, sent, delivered>>

\* It returns Err: the caller gets its ticket back, the buffer stays owned.
CallbackFails(r) ==
    /\ rpc[r] = "func"
    /\ CallbackErr
    /\ rpc' = [rpc EXCEPT ![r] = "idle"]
    /\ UNCHANGED <<pipeVars, senderVars, recv_seq, ticket, ii, length, sent, delivered>>

\* Mutant: the buffer is never given back.
ReleaseForgotten(r) ==
    /\ rpc[r] = "free"
    /\ rpc' = [rpc EXCEPT ![r] = "ticket"]
    /\ UNCHANGED <<pipeVars, senderVars, recv_seq, ticket, ii, length, sent, delivered>>

\* client_owned goes back to the sender, before the next ticket is taken.
Release(r) ==
    /\ rpc[r] = "free"
    /\ client_owned' = [client_owned EXCEPT ![ii[r]] = FALSE]
    /\ rpc' = [rpc EXCEPT ![r] = "ticket"]
    /\ UNCHANGED <<client_len, client_seq, cur_seq, chunks, senderVars, recv_seq,
                   ticket, ii, length, sent, delivered>>

Receiver(r) == \/ RequestTicket(r) \/ TryRecv(r) \/ LoadOwned(r) \/ LoadSeq(r)
               \/ LoadLen(r) \/ CallbackOk(r) \/ CallbackFails(r) \/ Release(r)

Next == Sender \/ \E r \in Receivers : Receiver(r)

Spec == Init /\ [][Next]_vars

\* Each thread keeps being scheduled, and neither end gives up: an allocation
\* that started goes on to publish its chunk, a receiver polls for ever.  No
\* fairness on AllocBuffer: nothing obliges the caller to send again.
Fairness ==
    /\ WF_vars(Sender /\ spc # "idle")
    /\ \A r \in Receivers : WF_vars(Receiver(r))

FairSpec == Spec /\ Fairness

-----------------------------------------------------------------------------
(* Correctness. *)

\* The sequence numbers whose callback returned Ok.
Delivered == {delivered[i].seq : i \in DOMAIN delivered}

\* The receivers that matched a buffer and have not given it back.
Matched == {r \in Receivers : rpc[r] \in {"len", "func", "free"}}

\* Between alloc_buffer and the end of ChunkWriter::drop the writer has idx.
Writing == spc \in {"write", "len", "fetch", "seq"}

\* Nobody reads a chunk, its length or its number while the sender has the
\* buffer for writing: the ownership protocol of client_owned (lib.rs 121-131)
\* keeps the slice handed to the callback stable, whatever stale value of
\* client_owned a receiver acts on.
NoOverwriteWhileRead ==
    Writing => \A r \in Matched : ii[r] # idx

\* Two threads that poll the same RecvPipe never process the same buffer.
NoSharedBuffer ==
    \A r1, r2 \in Matched : ii[r1] = ii[r2] => r1 = r2

\* A chunk is processed at most once, under the number that its position in
\* the sender's order gives it, and with exactly the bytes the sender put in
\* it: no stale length, no bytes left over from the buffer's previous use.
Integrity ==
    /\ \A i, j \in DOMAIN delivered :
          delivered[i].seq = delivered[j].seq => i = j
    /\ \A i \in DOMAIN delivered :
          /\ delivered[i].seq < Len(sent)
          /\ delivered[i].data = sent[delivered[i].seq + 1]

\* No chunk gets lost: one that was handed over and not processed is in a
\* buffer that carries its number and is or is about to be client owned, or
\* the sender is still publishing it.
NoLoss ==
    \A n \in 0 .. Len(sent) - 1 :
        \/ n \in Delivered
        \/ n + 1 = Len(sent) /\ spc \in {"len", "fetch", "seq"}
        \/ \E b \in Buffers :
              /\ client_seq[b] = n
              /\ client_owned[b] \/ (spc = "own" /\ idx = b)

\* With one polling thread a client-owned buffer always has a chunk to
\* process, or is just being given back: the pipe never loses a buffer.
\* (With two threads it can: see MemPipe2Blocking.cfg.)
NoOrphan ==
    \A b \in Buffers : client_owned[b] =>
        \/ client_seq[b] \notin Delivered
        \/ \E r \in Receivers : rpc[r] = "free" /\ ii[r] = b

\* With one polling thread the chunks are processed in the order sent.
InOrder ==
    \A i \in DOMAIN delivered : delivered[i].seq = i - 1

\* Threads overtake one another by at most the other threads: below a
\* processed number at most |Receivers| - 1 numbers are not processed yet.
\* This is what bounds the traces a server has to keep to restore the order.
ReorderBound ==
    \A n \in Delivered :
        Cardinality((0 .. n) \ Delivered) < Cardinality(Receivers)

\* A blocking send returns only after its own chunk was processed
\* (alloc_buffer's doc, lib.rs 290).
BlockingSendWaits ==
    [][spc = "spin" /\ spc' = "idle" => seq_id \in Delivered]_vars

Channel == INSTANCE ChunkChannel WITH Capacity <- NumBuffers

\* The pipe implements the abstract channel with one chunk in flight per
\* buffer.
ImplementsChannel == Channel!Spec

\* A blocking send returns.
BlockingSendReturns == spc = "spin" ~> spc = "idle"

\* An allocation finds a buffer.
AllocReturns == spc = "scan" ~> spc = "write"

\* Every chunk handed over is processed.
EventuallyDelivered ==
    \A n \in 0 .. MaxSends - 1 : (Len(sent) > n) ~> (n \in Delivered)

-----------------------------------------------------------------------------
(* The inductive invariant behind Integrity, NoLoss and the two exclusion   *)
(* properties.                                                              *)

\* The buffer carries a published chunk: its length and number are stored,
\* and client_owned is set or the store that sets it is the sender's next.
Live(b) == client_owned[b] \/ (spc = "own" /\ idx = b)

HasTicket(r) == rpc[r] \notin {"start", "ticket"}

\* Tickets are unique, and a number is processed by the holder of its ticket.
TicketInv ==
    /\ \A r \in Receivers : HasTicket(r) =>
          /\ ticket[r] < recv_seq
          /\ ticket[r] \in Delivered <=> rpc[r] = "free"
    /\ \A r1, r2 \in Receivers :
          HasTicket(r1) /\ HasTicket(r2) /\ ticket[r1] = ticket[r2] => r1 = r2
    /\ \A n \in Delivered : n < recv_seq

SenderInv ==
    /\ Len(sent) = IF spc \in {"len", "fetch"} THEN cur_seq + 1 ELSE cur_seq
    /\ spc \in {"seq", "own", "spin"} => seq_id + 1 = cur_seq
    /\ spc \in {"write", "len", "fetch", "seq", "own"} => ~client_owned[idx]
    /\ spc = "write" => written = 0
    /\ spc \in {"len", "fetch", "seq", "own"} =>
          Bytes(chunks[idx], written) = sent[Len(sent)]
    /\ spc \in {"fetch", "seq", "own"} => client_len[idx] = written
    /\ spc \in {"own", "spin"} => client_seq[idx] = seq_id
    /\ spc = "spin" => client_owned[idx] \/ seq_id \in Delivered

\* A live buffer holds the chunk its number stands for.
BufferInv ==
    \A b \in Buffers : Live(b) =>
        /\ client_seq[b] < cur_seq
        /\ Bytes(chunks[b], client_len[b]) = sent[client_seq[b] + 1]

\* What a receiver acts on is still true: a matched buffer is live under the
\* receiver's number; and if the client_owned it loaded is stale by now, then
\* the number it is about to load is one that was already processed.
MatchInv ==
    /\ \A r \in Matched : Live(ii[r]) /\ client_seq[ii[r]] = ticket[r]
    /\ \A r \in Receivers :
          /\ rpc[r] = "seq" => Live(ii[r]) \/ client_seq[ii[r]] \in Delivered
          /\ rpc[r] = "func" => length[r] = client_len[ii[r]]

IInv == /\ TypeOK /\ TicketInv /\ SenderInv /\ BufferInv /\ MatchInv
        /\ Integrity /\ NoLoss

\* Behind ReorderBound: a ticket that was handed out is processed or held, and
\* the thread that processed a number holds nothing below it any more.
HeldInv ==
    /\ \A n \in 0 .. recv_seq - 1 :
          n \in Delivered \/ \E r \in Receivers : HasTicket(r) /\ ticket[r] = n
    /\ \A n \in Delivered :
          \E r \in Receivers : HasTicket(r) => ticket[r] >= n

\* Behind InOrder, with one polling thread: its ticket is the number of the
\* chunks processed before it.
TurnInv ==
    /\ InOrder
    /\ \A r \in Receivers :
          /\ recv_seq = IF HasTicket(r) /\ rpc[r] # "free"
                        THEN Len(delivered) + 1 ELSE Len(delivered)
          /\ HasTicket(r) => ticket[r] + 1 = recv_seq

\* Behind NoOrphan, with one polling thread: the flag it loaded is never stale,
\* client-owned buffers carry different numbers, and a number that is being
\* published is new.
FreshInv ==
    /\ \A r \in Receivers :
          rpc[r] \in {"seq", "len", "func", "free"} => client_owned[ii[r]]
    /\ \A n \in Delivered : n < cur_seq
    /\ spc \in {"seq", "own"} =>
          /\ seq_id \notin Delivered
          /\ \A b \in Buffers : client_owned[b] => client_seq[b] # seq_id
    /\ \A b, c \in Buffers :
          client_owned[b] /\ client_owned[c] /\ client_seq[b] = client_seq[c] => b = c
    /\ NoOrphan
=============================================================================
