------------------------------ MODULE JitHooks ------------------------------
(***************************************************************************)
(* One QEMU thread with Cannoli's hooks: the trampoline into generated     *)
(* code, the hooks in it, and the ways out of it.  Generated code owns     *)
(* r12, the write position in the current chunk.  C code that QEMU runs    *)
(* from generated code may leave by longjmp, through cpu_loop_exit, and    *)
(* needs r12 too: helper calls keep it in env->cannoli_r12, otherwise that *)
(* field is Poison.  QEMU calls cpu_loop_exit outside generated code, too. *)
(* The thread's state is HookState (cannoli_internals.rs) and the field.   *)
(* What the hooks log is a sequence of bytes <<event, index>>.             *)
(***************************************************************************)
EXTENDS Naturals, Sequences, FiniteSets

CONSTANTS Event,       \* what the hooks in generated code log
          Call,        \* what the mmap, munmap and syscall hooks report
          Size,        \* how many bytes each of them takes
          ChunkSize,   \* CHUNK_SIZE
          Capacity,    \* NUM_BUFFERS
          Poison,      \* CANNOLI_POISON
          Junk,        \* a register that is not a position, and what it sends
          None,
          Racing,      \* do several threads poll the pipe
          MaxBytes,    \* bound: bytes logged
          MaxSends     \* bound: chunks sent

ASSUME HookAssumption ==
    /\ ChunkSize \in Nat \ {0} /\ Capacity \in Nat \ {0}
    /\ Size \in [Event \cup Call -> 1 .. ChunkSize]
    /\ Poison \notin Nat /\ Junk \notin Nat /\ Poison # Junk /\ None \notin Event
    /\ Racing \in BOOLEAN
    /\ MaxBytes \in Nat /\ MaxSends \in Nat

VARIABLES sent,        \* chunks handed to the pipe
          delivered,   \* chunks the receivers have processed
          kept,        \* those whose buffer stays client owned all the same
          where,       \* what the thread is doing
          active,      \* active_buffer.is_some()
          chunk,       \* the bytes logged to the active buffer, up to r12
          pending,     \* the event whose hook is flushing, or None
          env_r12,     \* env->cannoli_r12 as an offset into the chunk, Poison or Junk
          executed,    \* history: all bytes logged, in order
          shipped,     \* history: all bytes sent, in order
          uncovered    \* history: what happened that the saved position does not cover

vars == <<sent, delivered, kept, where, active, chunk, pending, env_r12,
          executed, shipped, uncovered>>

Channel == INSTANCE ChunkChannel WITH Payload <- Seq((Event \cup Call) \X Nat)

Bytes(e) == [i \in 1 .. Size[e] |-> <<e, i>>]

\* The write position of generated code, from the start of the chunk.
r12 == Len(chunk)

\* alloc_buffer returns only when a buffer is not client owned.
BufferFree == Cardinality(Channel!InFlight \cup kept) < Capacity

Ship(bytes) == /\ sent' = Append(sent, bytes)
               /\ shipped' = shipped \o bytes

Panic == /\ where' = "panic"
         /\ UNCHANGED <<sent, delivered, kept, active, chunk, pending, env_r12,
                        executed, shipped, uncovered>>

Init == /\ sent = <<>> /\ delivered = <<>> /\ kept = {}
        /\ where = "out" /\ active = FALSE /\ chunk = <<>>
        /\ pending = None /\ env_r12 = 0
        /\ executed = <<>> /\ shipped = <<>> /\ uncovered = {}

\* jit_entry: a fresh buffer; a second entry without an exit is an assertion.
JitEntry(contents) == /\ active' = TRUE
                      /\ chunk' = contents

\* jit_exit(r12): the active buffer is taken and its first r12 bytes are sent.
JitExit(pos) == /\ Ship(IF pos = Junk THEN <<Junk>> ELSE SubSeq(chunk, 1, pos))
                /\ active' = FALSE
                /\ chunk' = <<>>

MayExit(pos) == pos # Poison /\ active

-----------------------------------------------------------------------------
(* Generated code. *)

\* cpu_tb_exec poisons the field, then the prologue calls jit_entry.
CpuTbExec ==
    /\ where = "out" /\ Len(sent) < MaxSends
    /\ IF active
       THEN Panic
       ELSE /\ BufferFree
            /\ where' = "jit" /\ env_r12' = Poison
            /\ JitEntry(<<>>)
            /\ UNCHANGED <<sent, delivered, kept, pending, executed, shipped, uncovered>>

\* Mutant: the hook compares the position before the event with the end.
HookLate(e) ==
    /\ where = "jit" /\ Len(executed) + Size[e] <= MaxBytes
    /\ IF r12 < ChunkSize
       THEN /\ chunk' = chunk \o Bytes(e)
            /\ executed' = executed \o Bytes(e)
            /\ UNCHANGED <<where, pending>>
       ELSE /\ where' = "flush" /\ pending' = e
            /\ UNCHANGED <<chunk, executed>>
    /\ UNCHANGED <<sent, delivered, kept, active, env_r12, shipped, uncovered>>

\* Mutant: the hook fills the chunk with a part of its event and flushes.
HookSplit(e) ==
    /\ where = "jit" /\ Len(executed) + Size[e] <= MaxBytes
    /\ IF r12 + Size[e] <= ChunkSize
       THEN /\ chunk' = chunk \o Bytes(e)
            /\ UNCHANGED <<where, pending>>
       ELSE /\ chunk' = SubSeq(chunk \o Bytes(e), 1, ChunkSize)
            /\ where' = "flush" /\ pending' = e
    /\ executed' = executed \o Bytes(e)
    /\ UNCHANGED <<sent, delivered, kept, active, env_r12, shipped, uncovered>>

\* An instruction, register, branch or memory hook: if the event does not fit
\* between r12 and r13, call the flush routine first.
Hook(e) ==
    /\ where = "jit" /\ Len(executed) + Size[e] <= MaxBytes
    /\ IF r12 + Size[e] <= ChunkSize
       THEN /\ chunk' = chunk \o Bytes(e)
            /\ executed' = executed \o Bytes(e)
            /\ UNCHANGED <<where, pending>>
       ELSE /\ where' = "flush" /\ pending' = e
            /\ UNCHANGED <<chunk, executed>>
    /\ UNCHANGED <<sent, delivered, kept, active, env_r12, shipped, uncovered>>

\* The flush routine calls jit_exit ...
FlushExit ==
    /\ where = "flush" /\ Len(sent) < MaxSends
    /\ IF MayExit(r12)
       THEN /\ JitExit(r12)
            /\ where' = "refill"
            /\ UNCHANGED <<delivered, kept, pending, env_r12, executed, uncovered>>
       ELSE Panic

\* ... and jit_entry, and the hook logs its event without comparing again.
FlushEntry ==
    /\ where = "refill"
    /\ IF active
       THEN Panic
       ELSE /\ BufferFree
            /\ JitEntry(Bytes(pending))
            /\ executed' = executed \o Bytes(pending)
            /\ where' = "jit" /\ pending' = None
            /\ UNCHANGED <<sent, delivered, kept, env_r12, shipped, uncovered>>

\* Mutant: the epilogue is left without a hook.
EpilogueUnhooked ==
    /\ where = "jit" /\ Len(sent) < MaxSends
    /\ where' = "out"
    /\ UNCHANGED <<sent, delivered, kept, active, chunk, pending, env_r12, executed,
                   shipped, uncovered>>

\* The generated code returns through the epilogue, which calls jit_exit.
Epilogue ==
    /\ where = "jit" /\ Len(sent) < MaxSends
    /\ IF MayExit(r12)
       THEN /\ JitExit(r12)
            /\ where' = "out"
            /\ UNCHANGED <<delivered, kept, pending, env_r12, executed, uncovered>>
       ELSE Panic

\* Mutant: the signal handler has no hook.
FaultInJitUnsaved ==
    /\ where = "jit"
    /\ where' = "leaving"
    /\ UNCHANGED <<sent, delivered, kept, active, chunk, pending, env_r12, executed,
                   shipped, uncovered>>

\* A guest access in generated code faults: the host signal handler saves r12
\* and calls cpu_loop_exit.
FaultInJit ==
    /\ where = "jit"
    /\ where' = "leaving" /\ env_r12' = r12
    /\ UNCHANGED <<sent, delivered, kept, active, chunk, pending, executed, shipped,
                   uncovered>>

\* Any other signal: the handler saves r12, queues the guest's signal or
\* restarts the access, and poisons the field again before it returns.
Signal ==
    /\ where # "panic"
    /\ env_r12' = Poison
    /\ uncovered' = IF where \in {"helper", "leaving", "exiting"}
                    THEN uncovered \cup {"signal"} ELSE uncovered
    /\ UNCHANGED <<sent, delivered, kept, where, active, chunk, pending, executed,
                   shipped>>

-----------------------------------------------------------------------------
(* C code called from generated code, and cpu_loop_exit. *)

\* r12 is saved in the field around a call of the translated code ...
CallHelper ==
    /\ where = "jit"
    /\ where' = "helper" /\ env_r12' = r12
    /\ UNCHANGED <<sent, delivered, kept, active, chunk, pending, executed, shipped,
                   uncovered>>

\* Mutant: the field keeps the position after the call.
HelperReturnsStale ==
    /\ where = "helper"
    /\ where' = "jit"
    /\ UNCHANGED <<sent, delivered, kept, active, chunk, pending, env_r12, executed,
                   shipped, uncovered>>

HelperReturns ==
    /\ where = "helper"
    /\ where' = "jit" /\ env_r12' = Poison
    /\ UNCHANGED <<sent, delivered, kept, active, chunk, pending, executed, shipped,
                   uncovered>>

\* ... but not around the out-of-line call of a guest load or store.
CallSlowPath ==
    /\ where = "jit"
    /\ where' = "slow"
    /\ UNCHANGED <<sent, delivered, kept, active, chunk, pending, env_r12, executed,
                   shipped, uncovered>>

SlowPathReturns ==
    /\ where = "slow"
    /\ where' = "jit"
    /\ UNCHANGED <<sent, delivered, kept, active, chunk, pending, env_r12, executed,
                   shipped, uncovered>>

\* A guest access by C code faults and is not restarted: the handler saves what
\* that code holds in r12, its caller's value or one of its own.  Outside of
\* generated code (the translator reads guest code) it is of no use.
FaultInC ==
    /\ where \in {"helper", "slow", "out"}
    /\ where' = "leaving"
    /\ \/ /\ where = "out"
          /\ env_r12' = Junk /\ uncovered' = uncovered \cup {"outside"}
       \/ /\ where # "out"
          /\ env_r12' \in {r12, Junk} /\ uncovered' = uncovered \cup {"signal"}
    /\ UNCHANGED <<sent, delivered, kept, active, chunk, pending, executed, shipped>>

\* cpu_loop_exit (for the guest's faults and exceptions; Arm's raise_exception
\* begins in the same way), wherever QEMU calls it, looks at the field.  If it
\* is poisoned, jit_drop sends a buffer, if there is one, as an empty chunk ...
CpuLoopExit ==
    /\ where \in {"helper", "slow", "leaving", "out"} /\ Len(sent) < MaxSends
    /\ uncovered' = uncovered \cup ({"slow"} \cap {where})
                              \cup (IF where = "out" THEN {"outside"} ELSE {})
    /\ \/ /\ env_r12 # Poison
          /\ where' = "exiting"
          /\ UNCHANGED <<sent, shipped, active, chunk>>
       \/ /\ env_r12 = Poison
          /\ IF active THEN Ship(<<>>) ELSE UNCHANGED <<sent, shipped>>
          /\ active' = FALSE /\ chunk' = <<>>
          /\ where' = "dropped"
    /\ UNCHANGED <<delivered, kept, pending, env_r12, executed>>

\* ... and jit_entry gets a new one ...
Reenter ==
    /\ where = "dropped" /\ BufferFree
    /\ JitEntry(<<>>)
    /\ env_r12' = 0
    /\ where' \in {"exiting", "leaving"}   \* in cpu_loop_exit; in raise_exception
    /\ UNCHANGED <<sent, delivered, kept, pending, executed, shipped, uncovered>>

\* ... and then it calls jit_exit with the field as it is by now.
ExitLoop ==
    /\ where = "exiting" /\ Len(sent) < MaxSends
    /\ IF MayExit(env_r12)
       THEN /\ JitExit(env_r12)
            /\ where' = "out"
            /\ UNCHANGED <<delivered, kept, pending, env_r12, executed, uncovered>>
       ELSE Panic

-----------------------------------------------------------------------------
(* Hooks outside generated code, and the receiver. *)

\* Mutant: the wait is for the number after the chunk's own.
UnblockLate ==
    /\ where = "blocked" /\ Len(sent) \in Channel!Delivered
    /\ where' = "out"
    /\ UNCHANGED <<sent, delivered, kept, active, chunk, pending, env_r12, executed,
                   shipped, uncovered>>

\* The mmap, munmap and syscall hooks send a chunk of their own and block.
Report(c) ==
    /\ where = "out"
    /\ Len(sent) < MaxSends /\ Len(executed) + Size[c] <= MaxBytes
    /\ IF active
       THEN Panic
       ELSE /\ BufferFree
            /\ Ship(Bytes(c))
            /\ executed' = executed \o Bytes(c)
            /\ where' = "blocked"
            /\ UNCHANGED <<delivered, kept, active, chunk, pending, env_r12, uncovered>>

\* The drop of the blocking writer returns once its buffer is given back.
Unblock ==
    /\ where = "blocked" /\ Len(sent) - 1 \in Channel!Delivered \ kept
    /\ where' = "out"
    /\ UNCHANGED <<sent, delivered, kept, active, chunk, pending, env_r12, executed,
                   shipped, uncovered>>

\* A chunk is processed and its buffer given back; one of several receivers may
\* do so before the sender has set the buffer's flag, which then stays.
Receive ==
    /\ Channel!Deliver
    /\ \/ UNCHANGED kept
       \/ Racing /\ kept' = kept \cup (Channel!Delivered' \ Channel!Delivered)
    /\ UNCHANGED <<where, active, chunk, pending, env_r12, executed, shipped,
                   uncovered>>

Jit == CpuTbExec \/ (\E e \in Event : Hook(e)) \/ FlushExit \/ FlushEntry
       \/ Epilogue \/ FaultInJit
Helper == CallHelper \/ HelperReturns \/ CallSlowPath \/ SlowPathReturns
          \/ FaultInC \/ CpuLoopExit \/ Reenter \/ ExitLoop
Outside == (\E c \in Call : Report(c)) \/ Unblock

Next == Helper \/ Jit \/ Outside \/ Signal \/ Receive

Spec == Init /\ [][Next]_vars

\* The receivers keep processing chunks, and code the thread is in goes on as
\* soon as the flags it waits for are clear.
FairSpec == Spec /\ WF_vars(Receive) /\ WF_vars(FlushEntry) /\ WF_vars(Unblock)
                 /\ WF_vars(Reenter)

-----------------------------------------------------------------------------
(* What the hooks promise. *)

Byte == {<<e, i>> : e \in Event \cup Call, i \in 1 .. ChunkSize} \cup {Junk}

\* Generated code never writes past the end of a chunk, although the hook does
\* not compare again after a flush.
TypeOK ==
    /\ where \in {"out", "jit", "flush", "refill", "helper", "slow", "leaving",
                  "exiting", "dropped", "blocked", "panic"}
    /\ active \in BOOLEAN /\ uncovered \subseteq {"signal", "slow", "outside"}
    /\ pending \in Event \cup {None} /\ (where \in {"flush", "refill"} => pending \in Event)
    /\ chunk \in Seq(Byte) /\ Len(chunk) <= ChunkSize
    /\ env_r12 \in 0 .. ChunkSize \cup {Poison, Junk}
    /\ executed \in Seq(Byte) /\ shipped \in Seq(Byte)

\* The asserts of jit_entry, jit_exit and the mmap, munmap and syscall hooks
\* hold: every way into generated code is paired with one way out of it.  Two
\* things break one: a signal between cpu_loop_exit's look at the field and its
\* use, and a cpu_loop_exit outside generated code that finds a position there
\* (of an earlier longjmp, or of the code a fault interrupted) but no buffer.
NeverPanics ==
    where = "panic" => \/ "signal" \in uncovered
                       \/ "outside" \in uncovered /\ ~active /\ env_r12 # Poison

\* What was sent and what is in the active buffer is exactly what the hooks
\* logged, in order: no way out of generated code loses anything or sends it
\* twice, and outside of it nothing is held back.  Excepted are runs in which a
\* signal handler or a fault ran over C code called from generated code, and
\* in which the slow path of a load or store left by longjmp.
TraceKept ==
    {"signal", "slow"} \cap uncovered = {} =>
        shipped \o (IF active THEN chunk ELSE <<>>) = executed

\* Each event ends before the next one begins, and the last one is complete.
Whole(c) ==
    \A j \in DOMAIN c :
        \/ c[j][2] = Size[c[j][1]] /\ (j < Len(c) => c[j + 1][2] = 1)
        \/ j < Len(c) /\ c[j + 1] = <<c[j][1], c[j][2] + 1>>

\* A chunk holds whole events only: threads parse chunks on their own and in
\* any order, so no event may straddle two of them.
WholeEvents == \A i \in DOMAIN sent : sent[i] # <<Junk>> => Whole(sent[i])

\* The field that a longjmp out of generated code relies on is the position
\* generated code had, where that was saved, unless a signal came in between;
\* where it was not, the field is the poison and never a stale position.
FieldCurrent ==
    /\ where \in {"jit", "flush", "refill", "slow"} => env_r12 = Poison
    /\ where \in {"helper", "leaving", "exiting"} /\ "signal" \notin uncovered =>
          IF active THEN env_r12 = r12 ELSE "outside" \in uncovered

\* What the comment at the saving of r12 promises: any C code called from
\* generated code that leaves by longjmp can flush the chunk (signals aside).
NothingLost ==
    "signal" \notin uncovered =>
        shipped \o (IF active THEN chunk ELSE <<>>) = executed

\* A hook that had to flush, a blocking report and a cpu_loop_exit go on, unless
\* the flag they wait for, or that of every buffer, stays set for good.
HooksReturn ==
    /\ where = "blocked" ~> (where = "out" \/ Len(sent) - 1 \in kept)
    /\ where = "refill" ~> (where = "jit" \/ Cardinality(kept) >= Capacity)
    /\ where = "dropped" ~> (where # "dropped" \/ Cardinality(kept) >= Capacity)
=============================================================================
