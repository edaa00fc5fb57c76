----------------------------- MODULE Sequencer -----------------------------
(***************************************************************************)
(* cannoli/src/lib.rs, handle_client: the threads that serve one target    *)
(* thread.  Each of them polls the pipe with its own ticket, parses what   *)
(* it gets outside of any lock, and puts the result into the shared State, *)
(* from which traces are reported in sequence.  The pipe is the abstract   *)
(* ChunkChannel, which MemPipe implements; a try_recv is one step of it.   *)
(***************************************************************************)
EXTENDS Naturals, Sequences, FiniteSets

CONSTANTS Threads,    \* num_threads threads of one connection
          Payload,    \* the chunks the target sends
          Bad,        \* those for which parse_payload returns Err
          Capacity,   \* NUM_BUFFERS
          HotPolls,   \* empty polls before the socket is looked at (10000)
          MaxSends,   \* bound on the chunks sent
          None        \* no thread

ASSUME SequencerAssumption ==
    /\ IsFiniteSet(Threads) /\ Threads # {} /\ None \notin Threads
    /\ Bad \subseteq Payload
    /\ Capacity \in Nat \ {0} /\ HotPolls \in Nat \ {0} /\ MaxSends \in Nat

VARIABLES
    sent, delivered,       \* the pipe, as ChunkChannel has it
    socket,                \* "open" until QEMU closes its end
    tickets,               \* RecvPipe.seq
    pc, ticket, hot_poll,  \* each thread
    seq, trace,            \* each thread: what it has parsed last
    next_seq, traces,      \* State
    holder,                \* who has the lock of State
    reported               \* history: the calls of user.trace

threadVars == <<pc, ticket, hot_poll, seq, trace>>
stateVars == <<next_seq, traces, holder, reported>>
vars == <<sent, delivered, socket, tickets, threadVars, stateVars>>

Channel == INSTANCE ChunkChannel

PCs == {"start", "check", "poll", "ticket", "lock", "report", "done", "failed"}

\* The polls of a thread between two looks at the socket never exceed their
\* number, and what threads and State hold has the shape the code gives it.
TypeOK ==
    /\ sent \in Seq(Payload)
    /\ delivered \in Seq([seq : Nat, data : Payload])
    /\ socket \in {"open", "closed"}
    /\ tickets \in Nat
    /\ pc \in [Threads -> PCs]
    /\ ticket \in [Threads -> Nat] /\ seq \in [Threads -> Nat]
    /\ hot_poll \in [Threads -> 0 .. HotPolls]
    /\ trace \in [Threads -> Seq(Payload)]
    /\ next_seq \in Nat
    /\ traces \in Seq([seq : Nat, trace : Seq(Payload)])
    /\ holder \in Threads \cup {None}
    /\ reported \in Seq(Seq(Payload))

Init ==
    /\ Channel!Init
    /\ socket = "open"
    /\ tickets = 0
    /\ pc = [t \in Threads |-> "start"]
    /\ ticket = [t \in Threads |-> 0] /\ seq = [t \in Threads |-> 0]
    /\ hot_poll = [t \in Threads |-> 0]
    /\ trace = [t \in Threads |-> <<>>]
    /\ next_seq = 0 /\ traces = <<>> /\ holder = None
    /\ reported = <<>>

-----------------------------------------------------------------------------
(* The target. *)

\* The hooks in QEMU send a chunk.
QemuSend ==
    /\ socket = "open"
    /\ Len(sent) < MaxSends
    /\ Channel!Send
    /\ UNCHANGED <<socket, tickets, threadVars, stateVars>>

\* The QEMU thread ends; the kernel closes its socket, the chunks it published
\* stay in the shared memory.
QemuExit ==
    /\ socket = "open"
    /\ socket' = "closed"
    /\ UNCHANGED <<sent, delivered, tickets, threadVars, stateVars>>

-----------------------------------------------------------------------------
(* A polling thread. *)

Goto(t, label) == pc' = [pc EXCEPT ![t] = label]

\* request_ticket, as the thread starts and at the end of a poll that got data.
RequestTicket(t) ==
    /\ \/ pc[t] = "start" /\ Goto(t, "check")
       \/ pc[t] = "ticket" /\ Goto(t, "lock")
    /\ ticket' = [ticket EXCEPT ![t] = tickets]
    /\ tickets' = tickets + 1
    /\ UNCHANGED <<sent, delivered, socket, hot_poll, seq, trace, stateVars>>

\* Mutant: the loop does not end when the socket is closed.
CheckSocketNever(t) ==
    /\ pc[t] = "check"
    /\ Goto(t, "poll")
    /\ hot_poll' = [hot_poll EXCEPT ![t] = HotPolls]
    /\ UNCHANGED <<sent, delivered, socket, tickets, ticket, seq, trace, stateVars>>

\* The outer loop: stop if the socket is closed, poll hotly otherwise.  A
\* thread that stops takes its ticket with it.
CheckSocket(t) ==
    /\ pc[t] = "check"
    /\ \/ /\ socket = "closed"
          /\ Goto(t, "done")
          /\ UNCHANGED hot_poll
       \/ /\ socket = "open"
          /\ Goto(t, "poll")
          /\ hot_poll' = [hot_poll EXCEPT ![t] = HotPolls]
    /\ UNCHANGED <<sent, delivered, socket, tickets, ticket, seq, trace, stateVars>>

\* Mutant: the count of hot polls never ends the inner loop.
PollEmptyForever(t) ==
    /\ pc[t] = "poll"
    /\ ticket[t] \notin Channel!InFlight
    /\ hot_poll' = [hot_poll EXCEPT ![t] = @ - 1]
    /\ UNCHANGED <<sent, delivered, socket, tickets, pc, ticket, seq, trace, stateVars>>

\* Mutant: a thread that finds nothing asks for a new ticket.
PollEmptyDropping(t) ==
    /\ pc[t] = "poll"
    /\ ticket[t] \notin Channel!InFlight
    /\ Goto(t, "start")
    /\ UNCHANGED <<sent, delivered, socket, tickets, ticket, hot_poll, seq, trace,
                   stateVars>>

\* try_recv finds nothing with the thread's number.
PollEmpty(t) ==
    /\ pc[t] = "poll"
    /\ ticket[t] \notin Channel!InFlight
    /\ hot_poll' = [hot_poll EXCEPT ![t] = @ - 1]
    /\ Goto(t, IF hot_poll[t] = 1 THEN "check" ELSE "poll")
    /\ UNCHANGED <<sent, delivered, socket, tickets, ticket, seq, trace, stateVars>>

\* parse_payload clears the thread's trace and puts the chunk's events there.
Parsed(data) == <<data>>

\* try_recv finds the chunk, parse_payload accepts it, and the buffer goes back
\* to the sender.
PollData(t) ==
    /\ pc[t] = "poll"
    /\ ticket[t] \in Channel!InFlight
    /\ LET data == sent[ticket[t] + 1]
       IN  /\ data \notin Bad
           /\ delivered' = Append(delivered, [seq |-> ticket[t], data |-> data])
           /\ trace' = [trace EXCEPT ![t] = Parsed(data)]
    /\ seq' = [seq EXCEPT ![t] = ticket[t]]
    /\ hot_poll' = [hot_poll EXCEPT ![t] = HotPolls]
    /\ Goto(t, "ticket")
    /\ UNCHANGED <<sent, socket, tickets, ticket, stateVars>>

\* parse_payload returns Err: the thread returns it, the chunk stays where it is.
PollError(t) ==
    /\ pc[t] = "poll"
    /\ ticket[t] \in Channel!InFlight
    /\ sent[ticket[t] + 1] \in Bad
    /\ Goto(t, "failed")
    /\ UNCHANGED <<sent, delivered, socket, tickets, ticket, hot_poll, seq, trace,
                   stateVars>>

\* The entries of traces below n: where binary_search puts n.
Below(n) == Cardinality({k \in DOMAIN traces : traces[k].seq < n})

\* Mutant: the entry always goes to the end.
InsertLast(e) == Append(traces, e)

\* traces.insert at the index that binary_search_by_key returns.
Inserted(e) ==
    SubSeq(traces, 1, Below(e.seq)) \o <<e>>
        \o SubSeq(traces, Below(e.seq) + 1, Len(traces))

\* state.lock() and the insertion.
Insert(t) ==
    /\ pc[t] = "lock"
    /\ holder = None
    /\ holder' = t
    /\ traces' = Inserted([seq |-> seq[t], trace |-> trace[t]])
    /\ Goto(t, "report")
    /\ UNCHANGED <<sent, delivered, socket, tickets, ticket, hot_poll, seq, trace,
                   next_seq, reported>>

\* Mutant: the first trace held back is reported whatever its number.
ReportableAny == traces # <<>>

\* The condition of the report loop.
Reportable == traces # <<>> /\ next_seq = traces[1].seq

\* One iteration of the report loop: user.trace, under the lock.
Report(t) ==
    /\ pc[t] = "report"
    /\ Reportable
    /\ next_seq' = next_seq + 1
    /\ reported' = Append(reported, traces[1].trace)
    /\ traces' = Tail(traces)
    /\ UNCHANGED <<sent, delivered, socket, tickets, threadVars, holder>>

\* Mutant: the loop may stop before it has reported all it can.
UnlockEarly(t) ==
    /\ pc[t] = "report"
    /\ holder' = None
    /\ trace' = [trace EXCEPT ![t] = <<>>]
    /\ Goto(t, "poll")
    /\ UNCHANGED <<sent, delivered, socket, tickets, ticket, hot_poll, seq,
                   next_seq, traces, reported>>

\* The loop ends, the lock is dropped and the thread gets an empty trace.
Unlock(t) ==
    /\ pc[t] = "report"
    /\ ~Reportable
    /\ holder' = None
    /\ trace' = [trace EXCEPT ![t] = <<>>]
    /\ Goto(t, "poll")
    /\ UNCHANGED <<sent, delivered, socket, tickets, ticket, hot_poll, seq,
                   next_seq, traces, reported>>

Thread(t) == \/ RequestTicket(t) \/ CheckSocket(t)
             \/ PollEmpty(t) \/ PollData(t) \/ PollError(t)
             \/ Insert(t) \/ Report(t) \/ Unlock(t)

Next == QemuSend \/ QemuExit \/ \E t \in Threads : Thread(t)

Spec == Init /\ [][Next]_vars

\* The threads are scheduled; the target owes nothing.
FairSpec == Spec /\ \A t \in Threads : WF_vars(Thread(t))

-----------------------------------------------------------------------------
(* Correctness. *)

Ordered == INSTANCE OrderedTrace

\* The user's trace() sees exactly the chunks of the target, in order, each
\* once and alone, however the threads interleave (lib.rs 1096-1101).
ImplementsOrderedTrace == Ordered!Spec

\* Between two critical sections the held-back traces are strictly sorted and
\* start behind a gap: nothing that could be reported is kept.
TracesHeld ==
    holder = None =>
        /\ \A i, j \in DOMAIN traces : i < j => traces[i].seq < traces[j].seq
        /\ \A i \in DOMAIN traces : next_seq < traces[i].seq

\* No number gets lost among the threads: every ticket handed out and not yet
\* reported is held back in traces, or belongs to one thread that polls for it
\* (or ended with it), or is what a thread has parsed and waits to insert.
HolesOwned ==
    holder = None =>
        \A n \in next_seq .. tickets - 1 :
            \/ \E i \in DOMAIN traces : traces[i].seq = n
            \/ \E t \in Threads :
                  \/ ticket[t] = n /\ pc[t] \notin {"start", "ticket"}
                  \/ seq[t] = n /\ pc[t] \in {"ticket", "lock"}

\* Every chunk sent is reported while the target runs and no thread has failed.
EventuallyReported ==
    \A n \in 1 .. MaxSends :
        (Len(sent) >= n) ~> (\/ Len(reported) >= n \/ socket = "closed"
                             \/ \E t \in Threads : pc[t] = "failed")

\* When the target is gone every thread ends, which handle_client joins on.
ThreadsEnd ==
    (socket = "closed") ~> \A t \in Threads : pc[t] \in {"done", "failed"}

\* "the traces could be concatenated together to get a trace of all execution
\* in-order" (lib.rs 1096-1098): when the threads have ended without an error,
\* everything the target sent was reported.
AllReported ==
    (\A t \in Threads : pc[t] = "done") => Len(reported) = Len(sent)
=============================================================================
