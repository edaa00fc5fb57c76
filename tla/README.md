# Cannoli in TLA+

Cannoli traces programs that run under QEMU's user-mode emulation. Hooks
injected into QEMU's generated code log what the target executes to buffers in
shared memory; a server process takes the buffers with several threads, parses
them in parallel, puts them back in order and hands them to the user's `trace()`
callback. This directory models that way from the guest's instruction to the
client's result: the interleavings of the pipe, the hooks, the server's threads and
the life of connections, and what the bytes say from the templates of the hooks to
the algorithms of the example clients. TLC checks small instances, and TLAPS proves
every safety property that TLC finds to hold for all values of the constants.

References such as `mempipe 574` are to lines of a file under `src/`:
*mempipe* `mempipe/src/lib.rs`, *cannoli* `cannoli/src/lib.rs`, *internals*
`jitter/src/cannoli_internals.rs`, *shellcode* `jitter/src/cannoli_internals.S`,
*patch* `qemu_patches.patch`.

## 1. Inventory

| component | state it keeps | operations | how it interacts |
|---|---|---|---|
| **mempipe, pipe protocol** | `RawMemPipe`: `client_owned`, `client_len`, `client_seq` per buffer, `cur_seq`, the chunks; `RecvPipe.seq` | `alloc_buffer`, `ChunkWriter::send`/`send_raw` and its drop; `request_ticket`, `try_recv` | two processes on atomics in shared memory: one sender (a QEMU thread), several receiving threads |
| **mempipe, life cycle** | the shared-memory object and its name, the header | `SendPipe::create`, `RecvPipe::open`, drop | the name goes to the server in the connection header |
| **cannoli, sequencer** | per connection `State { next_seq, traces }` in a mutex; per thread a ticket, a parse buffer | the polling loop of `handle_client`: poll, parse, insert, report | receives from the pipe, calls the user's `Cannoli` trait; the socket only says whether the target is alive |
| **cannoli, process contexts** | `PID_CONTEXTS`: pid to a shared context, in a mutex | entry at the start of a connection, removal at its end | shared by the threads of all connections |
| **cannoli, server loop and handshake** | the listener | `run_forever`, `run`, `handle_connection` | reads `ClientConn` that `HookState::default` wrote |
| **cannoli, wire format** | none | `parse_payload`, `consume!`, `SyscallParam`, `syscall_read`, `syscall_getrandom` | reads what shellcode and reports wrote to a chunk |
| **jitter, hooks of a thread** | `HookState { pipe, active_buffer }` per thread, `r12`/`r13`, `env->cannoli_r12` | `jit_entry`, `jit_exit`, `jit_drop`, flush, the hooks, `mmap`, `munmap`, `syscall` | called by generated code and by C code of QEMU, also from `cpu_loop_exit` and around signals |
| **jitter, lifting** | `REGISTER_OFFSET`, `REGISTER_SIZE`, `QEMU_INFO` | `init`, `lift_instruction`, `lift_memop`, `patch`; the generated `cannoli_memops.rs` | called by QEMU while it translates |
| **QEMU patches** | three fields in the CPU state, the handle of the library | prologue, epilogue, helper calls, `cpu_loop_exit`, signal handler, reports | call the hooks above |
| **extensions/arch** | none | decoding of register blocks, system call numbers | used by clients and by the syscall hook |
| **examples** | symbol table, shadow stack, coverage set | symbolizer, backtrace, coverage, visualization, regtrace, benchmarks | clients of the trait |
| **jitter_always** | none | constant hook policy | called while lifting |

What is hard, and what would be correct:

- *The pipe protocol.* A receiver reads a buffer's flag, number and length as
  three loads while the sender and other receivers move on. Correct: a slice
  given to a callback never changes under it, every chunk is processed once with
  its own bytes, none disappears, threads overtake one another only so far, a
  blocking send returns when (and only when) its chunk was processed.
- *The sequencer.* Threads finish in any order, fail, or leave because the
  target is gone, each taking a ticket along. Correct: `trace()` is called in
  order, once per chunk, and nothing gets lost among the threads.
- *Contexts.* A reference is dropped outside of the lock that guards the map and
  counted inside it. Correct: a process in use keeps one context, a process that
  is gone leaves none, and no order of leaving breaks the server.
- *The hooks.* QEMU leaves generated code by return, by `longjmp` from helpers
  and after faults, and signals arrive anywhere. Correct: entries and exits
  alternate, no event is lost, doubled or split between chunks, nothing is
  written behind the end of a chunk.
- *Life cycle.* Threads start, fork, exit and are killed at any point of making
  their pipe and their connection. Correct: a thread's events go through its own
  pipe, the server maps only pipes that are complete, names do not stay behind,
  and the server notices every end that it can notice.
- *What the bytes say.* Templates are patched by searching for magic values, a
  table picks one of 4096 hooks by the host registers, reports are cut to the size
  of a chunk, a negative return value is a length. Correct: what the callbacks get
  is what the guest did, in its order, and whatever breaks that has a known reason.
- *The clients.* They look symbols up while files come and go, unwind a shadow
  stack through branches without link, and assume a target. Correct: the nearest
  symbol, exactly the covered locations, exactly the guest's frames.

`PROJECT.json` lists all hazards with their lines and the properties that watch
them.

## 2. Modules

```
 OrderedTrace  <--implements--  Sequencer  --uses-->  ChunkChannel  <--implements--  MemPipe
 (what trace() is promised)     (server threads)      (what a pipe promises)         (shared memory)
                                                          ^
 PidContexts  <--implements, extends--  Lifecycle         '--uses--  JitHooks (one QEMU thread)
 (PID_CONTEXTS)                         (targets, pipes, connections, server loop)

 Arch  <--  Wire  <--  Lifting, Clients  <--  Pipeline
 (targets)  (bytes)    (hooks) (examples)     (guest, hooks, chunks, parser, client: end to end)
```

`MemPipe` is the only module with the memory-level protocol. `ChunkChannel` says
what it amounts to for its two ends, and the modules of the two ends,
`JitHooks` and `Sequencer`, are written over that channel, so that their state
spaces hold their own interleavings and not the pipe's. That `MemPipe`
implements the channel is checked and proved, so the composition is justified.
One thing to know: the channel bounds the chunks in flight by the number of
buffers; a pipe that has lost buffers to the defect of section 5 only has a
smaller bound, which is a behaviour of the channel too as far as safety goes.

### MemPipe (mempipe 103-141, 245-438, 541-613)

Every access to a shared atomic is a step. The sender's `spc` goes through
`idle` (no writer), `scan` (one iteration of `alloc_buffer`), `write`, `len`,
`fetch`, `seq`, `own` (the stores of the writer's drop) and `spin` (a blocking
writer). A receiver's `rpc` goes through `start`, `ticket` (about to request a
ticket), `idle`, `owned`, `seq`, `len` (the loads for one buffer), `func` (the
callback) and `free` (giving the buffer back). The sender's writes of data are
one step: nobody reads them before the flag is set, which is one of the things
proved. `sent` and `delivered` are history.

The steps interleave sequentially consistently. On x86, the only host the
project supports, the stores of one thread stay in order, and so do its loads,
and the number is taken with a locked instruction between the stores of length
and number. What the model assumes beyond the hardware is that the compiler
emits the accesses in program order. The language would let it exchange the
data and the `Relaxed` stores of length and number, which only the `Release`
store of the flag orders; that ordering helps a receiver that saw this flag, but
not one that acts on an older flag (section 5, finding 1), for which the order of
the stores is what keeps `Integrity` true.
Sequence numbers do not wrap: 2^64 chunks are out of reach.

### JitHooks (internals 451-521, 647-833; shellcode; patch 22-60, 410-455, 985-989, 1278-1500)

One QEMU thread. `where` says what it is doing: `out` (QEMU's main loop), `jit`
(generated code), `flush` and `refill` (the two halves of the flush routine),
`helper` (C code called from generated code, with `r12` saved around the call),
`slow` (the out-of-line slow path of a guest load or store, which saves nothing),
`leaving` (on the way from a fault or an exception to `cpu_loop_exit`), `dropped` and
`exiting` (inside it), `blocked` (a report waiting for its chunk), `panic` (a
failed assertion). The write position of generated code, `r12`, is the length of
`chunk`, since the shellcode stores and then advances; `env_r12` is the field in
QEMU's CPU state through which C code learns of it: a position, the poison, or
something that is neither. What is logged is a sequence of bytes `<<event,
index>>`, enough to tell whether an event was lost, repeated or split. A signal
may arrive in every state. Faults are guest accesses that the host traps, in
generated code or in C code. The hook in `cpu_loop_exit` is unconditional, and QEMU
calls it outside of generated code as well (`CpuLoopExit` is enabled in `out`): with
the poison in the field there is then no buffer to drop, with a position in it the
`expect` of `jit_exit` fails. `uncovered` records what happened that the saved position
does not cover: a `signal` handler or fault that ran over C code called from generated
code, a longjmp out of the `slow` path, a `cpu_loop_exit` or fault `outside`. `kept` are
the chunks whose buffer stays client owned although they were processed, which is
what finding 1 does to `JitHooks` when several threads poll (`Racing`).

A longjmp in QEMU always passes `cpu_loop_exit`; the Arm `raise_exception` in
the patch begins with the same comparison and then gets there. What QEMU itself
does with a signal after the handler is not in this repository and not modelled.

### Sequencer (cannoli 663-832) over ChunkChannel

`pc` of a thread: `start`, `check` (the look at the socket), `poll` (a
`try_recv`), `ticket` (has parsed a chunk, about to take its next ticket),
`lock`, `report` (the loop in the critical section), `done`, `failed`. A `try_recv` is one step of the
channel: whether the ticket's chunk is in flight. The user's callbacks are the
history `reported`. Parsing happens outside of the lock, as in the code; the
critical section is two kinds of steps under `holder`. The sleep between polls
has no effect on order and is left out; the number of hot polls (10000 in the
code) is a constant. `OrderedTrace` is the promise of the documentation of
`trace()` (cannoli 1096-1101) as a specification of two variables. `PollData` replaces
the thread's trace, which `parse_payload` clears at its start (cannoli 423-424).

### Lifecycle (internals 101-240; mempipe 169-268, 321-336, 464-529; cannoli 864-962), extends PidContexts

`q` is a target thread's life, `hook` what its thread-local `HOOK_STATE` holds: whose
pipe, and the thread id next to it. `stage` is how far `HookState::default` has got,
one step for each call that others can see: the name appears (`CreateName`), the
header is in it (`WriteHeader`), the connection exists (`ConnectServer`), the
greeting is out (`Greet`). `fork` copies the parent's `hook` and its open files;
`with_hook` then compares thread ids. `Exit` runs the destructors, `Kill` runs none.
`holders` are the processes that have the target's end of a connection open: the
server sees its end when that set is empty. `Open` takes the name away before it
checks the header, as the code does. The server's actions are those of
`PidContexts` with a guard or an effect added, so what is proved there of contexts
holds here; the two modes `run_forever` and `run` are the initial value of `forever`.
The assumption that connections may fail (`Failures`) is a fact here: a pipe that is
not usable is refused.

### Arch, Wire, Lifting, Clients: what the parts compute

These modules have no variables. A byte is a number below 256, a machine word the
sequence of its bytes.

- `Arch`: the enumeration of architectures that crosses the socket, the three
  targets' registers and system call numbers, `RegState` (extensions/arch,
  cannoli 90-230).
- `Wire`: the packets of the mmap, munmap and system call reports and
  `parse_payload` (cannoli 232-625), in which a packet gives an event and the rest,
  or ends the parse by an error, by a panic (slices and `unwrap`s) or by the early
  `Ok` of a system call without a number. Paths are UTF-8 or not as
  `core::str::from_utf8` decides, with characters of one to four bytes, no surrogates
  and no overlong forms. The length of a report's data is a number below 2^24 (`Huge`),
  which is far above the 256 KiB of a buffer.
- `Lifting`: templates (shellcode 10-305) as segments of immediates and code, `patch`
  with all its replacements, `lift_instruction`, `lift_memop`, and what the result
  logs when it runs. `MEMHOOK_TABLE` is the 12 872 lines of `cannoli_memops.rs`: each
  sub-table is the pairs of register names in the assembler's order, and what an
  entry logs is decided by the names in it, not by its place.
- `Clients`: the six clients under `src/examples`: the hooks their libraries ask for,
  their callbacks, and their `trace()`. Symbol files are constants, and so is what
  `readelf` and `nm` say of a path (`Readelf`, `Nm`; `Garbled` are the paths for which one
  of them does not run or prints what cannot be read). Printing and drawing are left
  out. `Panics` and `TracePanics` are the places where a client panics on what it is
  told: the block of another target's registers, a file whose headers the coverage
  client's `mmap` unwraps in vain (among them a missing `LOAD` at offset 0), an address
  above the drawing.

### Pipeline (all of the above, end to end)

One guest thread executes instructions, memory accesses, calls, branches without
link, returns and system calls; each step runs the hooks that `Lifting` makes for it
with the host registers that QEMU's code (patch 961-1175) holds at that moment.
`chunk` and `sent` are the bytes on their way, `Parse` is `parse_payload` with the
client's callbacks, `Trace` its `trace()`. The three concurrent modules are
abstracted: chunks arrive in order and traces are consumed in order, which is what
`ChunkChannel`, `JitHooks` and `Sequencer` show; what is kept of them is what
bytes depend on: the limits of a chunk and of buffers, blocking reports, and that a
thread that fails keeps its chunk and everything behind it. `executed`, `covered`
and `guest` are what the guest did; the properties compare them with what the
client got. `odd` collects the things that the trace does not survive, each with its
name: `placeholder` (an address that contains a magic value), `load128` (finding 5),
`cut` (a report larger than a chunk, for instance of a large read), `path` (a path that
is not UTF-8), `elf` (a file whose headers the coverage client cannot read), `foreign`
(a client written for another target), `address` (a drawing that is too small),
`failed_call` (a system call that returned an error, which `Failed` tells by the sign:
successful reads of any size are reported), `failed_munmap`, `remapped` (a
mapping over another one), `moved` (code whose one-shot hook has fired has another
nearest symbol from now on, and will not be told again), `recursion` (a function comes
to the call by which it was called itself, be it through others: from there its return
address is on the client's stack twice in a row, and the next return takes both for
one). Each property names those it needs to exclude, and `KnownFailures` says for which
of them a thread fails, QEMU crashes or a call hangs.

Addresses of the guest are numbers below `AddressBound`, 2^24, in the guest's own
state, the symbol tables and the clients; on the wire and in the hooks they are words
of 8 bytes, with the high bytes that a setup gives its target. `MaxSteps` bounds the
guest. Code does not run into the beginning of a function (`Onward`): functions are
called or jumped to, which is how the backtrace client takes an address with a symbol.

### PidContexts (cannoli 663-708, 826-885, 915-962)

A client is a thread of a target process. Its connection opens the pipe, takes
the context of its process from the map (or makes it), serves, drops its
reference and cleans up. An error on the way skips the cleanup. A context is
named by the client that made it. A panic with the lock held poisons the mutex,
and every later user of it panics too.

## 3. Runs

| run | module, cfg | bounds | what it shows |
|---|---|---|---|
| `mempipe1` | MCMemPipe, MemPipe1.cfg | 1 receiver, 2 buffers, chunks of 2 bytes, data of length 0, 1 and 3, 4 sends | With one polling thread: `NoOrphan` (no buffer is lost), `InOrder`, the channel, and under fairness `AllocReturns`, `BlockingSendReturns`, `EventuallyDelivered`. |
| `mempipe2` | MCMemPipe, MemPipe2.cfg | 2 receivers, 3 buffers, 4 sends of two payloads that differ in length and bytes, callbacks may fail | `NoOverwriteWhileRead`, `NoSharedBuffer`, `Integrity`, `NoLoss`, `ReorderBound`, `BlockingSendWaits`, `ImplementsChannel` with competing threads. |
| `mempipe2_blocking` | MCMemPipe, MemPipe2Blocking.cfg | 2 receivers, 2 buffers, 3 sends | expected violation of `BlockingSendReturns` (section 5). |
| `jit_hooks` | MCJitHooks, JitHooks.cfg | events of 2 and 3 bytes and a report of 1, chunks of 4, 7 bytes logged, 3 chunks, 2 buffers, several threads polling | `TypeOK` (no write behind a chunk), `NeverPanics`, `TraceKept`, `WholeEvents`, `FieldCurrent`; under fairness `HooksReturn`. |
| `jit_slow_path` | MCJitHooks, JitHooksLoss.cfg | the same, one thread polling | expected violation of `NothingLost` (section 5). |
| `sequencer` | MCSequencer, Sequencer.cfg | 3 threads, 3 chunks: p, q, p or p, a bad one, q; 2 in flight, 1 hot poll | `TypeOK`, `TracesHeld`, `HolesOwned`, `ImplementsOrderedTrace`; under fairness `EventuallyReported`, `ThreadsEnd`. |
| `sequencer_tail` | MCSequencer, SequencerTail.cfg | 2 threads, 2 sends | expected violation of `AllReported` (section 5). |
| `pid_contexts_panic` | MCPidContexts, PidContextsPanic.cfg | 3 threads of a process and 1 of another, no errors | expected violation of `NeverPoisoned` (section 5). |
| `lifecycle` | MCLifecycle, Lifecycle.cfg | 2 threads of a process, a child forked by one of them, both modes of the server, failures | `InUseKept`, `Collected`, `OwnPipe`, `PipeComplete`; under fairness `EndNoticed`. |
| `run_single` | MCLifecycle, LifecycleSingle.cfg | the same, `run` only | expected violation of `EveryThreadServed` (section 5). |
| `pipeline` | MCPipeline, Pipeline.cfg | 13 setups of target, library and client, 3 or 4 guest steps, chunks of 60 or 300 bytes, 2 buffers, 2 server threads | `TypeOK`, `EventsFaithful`, `KnownFailures`, `RegistersFaithful`, `SymbolsNearest`, `CoverageExact`, `BacktraceExact`, `CountsExact`; under fairness `Drains`. |
| `load128` | MCPipeline, PipelineLoad128.cfg | one setup with 128-bit loads and stores | expected violation of `HalvesAdjacent` (section 5). |

Why the bounds suffice. *mempipe*: what can go wrong needs a buffer that is
used twice while a receiver holds a stale flag and another receiver works: two
sends over two buffers contain it already (TLC finds the violation of finding 1 with two
and none with one), four use both of two buffers, or one of three, a second time; data longer than a chunk and empty data are among the
inputs, and the shorter of two consecutive payloads leaves old bytes behind it.
`ReorderBound` needs more buffers than receivers to say anything, hence three.
*jit_hooks*: 2 + 2 bytes fill a chunk exactly, 2 + 3 and 3 + 3 overflow it, so
both sides of the comparison with `r13` and a flush occur; three chunks allow a
flush that waits for a buffer, a report after it, and a dropped buffer with its
replacement, and leave no buffer when two flags stay set.
*sequencer*: with three threads a trace can be held back by two others, and a thread
that is done takes a second ticket meanwhile. The threads never look into a chunk
except to see whether it parses, so two orders of chunks stand for all: equal ones
around a different one show a chunk that is reported twice or in the place of
another, a bad one between two good ones leaves a hole.
*lifecycle*: two threads of one process share a context and a file table, a child
inherits both the hook state and the connections; with a second child nothing new
meets. *pipeline*: three steps fill a chunk of 60 bytes, so hooks flush in the middle
of an instruction, a report finds the buffers full, and a one-shot hook is armed
again between two visits; four let a file be mapped, run, removed and replaced by
another at the same address, and let a branch without link be followed by the return
that pops two frames. Chunks of 300 bytes hold two register blocks of 32 registers of
4 bytes but one of 8 bytes. Addresses include a symbol's, one before it, one above
all symbols, a carry in their low byte, a top byte at and below the drawing's limit,
and a magic value. The register blocks of all three targets reach a client that stands
them, so `RegistersFaithful` is about all three tables; a last setup has the
placeholder of the block's offset in a program counter, and the block must be right
all the same. Files are one with an alias, one whose `LOAD` at offset 0 is not the
first, one that has none, one that cannot be read, and one whose path has characters
of two and three bytes.

Symmetry is used for receivers in `mempipe2`, which has no liveness property.
Deadlock is checked where the system must not stop; the other runs end by
design: the target exits and its threads are joined, all connections are over,
or the bounds on bytes and chunks are used up.

## 4. Fairness

- `MemPipe`: the sender, once it has called `alloc_buffer`, and every polling
  thread are scheduled (`WF` of their steps); whether the target sends at all is
  left open. This is what the operating system gives to threads that spin or
  poll with finite sleeps. A callback always returns.
- `Sequencer`: the polling threads are scheduled; the mutex is an ordinary one
  and nobody waits for anything while holding it. The target owes nothing.
- `JitHooks`: the receiver goes on processing chunks (weak fairness of
  `Receive`, justified by `EventuallyDelivered` of `mempipe1`), and code that waits
  for a flag continues once the flag is clear. A chunk that was processed does not
  imply that: with several polling threads its buffer may stay client owned (`kept`,
  finding 1), `Unblock` is then never enabled again, and `HooksReturn` says that a wait
  ends unless the flag it is for, or that of every buffer, stays set for good. Generated code owes nothing: it may run for ever
  without filling its chunk, so there is no claim that an event is sent within
  any time.

- `Lifecycle`: the server's threads are scheduled and failures need not happen (weak
  fairness of `Serves`: every server step except failures of a pipe that is usable),
  and a target thread in the middle of making its state goes on. Threads, processes
  and kills owe nothing.
- `Pipeline`: the server parses while it can and traces what it has parsed (`Parse`,
  `Trace`). For `Parse` weak fairness is written out, with `CanParse` for the condition
  under which it is enabled. Nothing is assumed of the guest, nor that a blocked report
  ever returns: with several threads polling its flag may stay set (finding 1), so
  `Drains` is only about the server, which parses and traces what was sent while one of
  its threads lives.

## 5. Findings

1. **A blocking send can hang** (`mempipe2_blocking`, mempipe 574-579). With two
   polling threads one may load `client_owned` for an old chunk, and by the time
   it loads `client_seq` the buffer has been released, taken again and numbered
   with this very thread's ticket. It processes the chunk and clears the flag
   before the sender sets it; the flag is then never cleared again. A blocking
   writer spins for ever, and for other writers a buffer is lost. The data is
   always right: `NoOverwriteWhileRead` and `Integrity` hold nevertheless,
   because all the data is in place before the number is stored.
2. **The end of a trace can be missing** (`sequencer_tail`, cannoli 747). A
   thread that sees the socket closed leaves with its ticket although the chunk
   of that ticket may have been published after its last empty poll.
3. **Two connections that end together can take the server down**
   (`pid_contexts_panic`, cannoli 840-845). Both drop their references, the first
   removes the entry and the second indexes the map without it, with the lock held.
4. **A longjmp out of a load's or store's slow path loses the trace buffer**
   (`jit_slow_path`, patch 25). The comment at the saving of `r12` (patch 1470) says
   that C code called from generated code may `longjmp` and needs the buffer state,
   but only the calls that `tcg_reg_alloc_call` emits save it: the out-of-line helpers
   of guest accesses (patch 985-989) do not, the field is still the poison, and
   `cpu_loop_exit` drops what was logged, with a message on stderr. A signal handler
   that runs over a helper does the same to a position that was saved, and just before
   the call of `jit_exit` it makes its assertion fail; so does a `cpu_loop_exit` outside
   of generated code that finds an old position in the field. This is why `TraceKept`
   and `NeverPanics` except `uncovered` runs, each of them only the causes it names.
5. **The second half of a 128-bit load is reported at a wrong address** (`load128`,
   patch 1053). The address of a load is kept in `r14`, but the hook of the first
   half puts the program counter there for 64-bit targets (shellcode 145-146); the
   hook of the second half then logs pc + 8. Stores are right.
6. **A server started with `run` serves one thread** (`run_single`, cannoli 905). The
   listener goes on taking connections into its backlog, so every other thread of
   the target gets its hook state and waits for ever in its first report. The
   coverage example is started this way, and the README (133) offers it for
   many-threaded applications.

Not findings, since no line of the repository promises otherwise, but worth knowing
(the names in `odd`, all of them exercised by the `pipeline` run): a system call that
returned an error makes the report copy a buffer of nearly 2^64 bytes and takes QEMU
down; a report that was cut, a path that is not UTF-8, or a file without a `LOAD` at
offset 0 under the coverage client ends a server thread and the system call never
returns; an address that contains a placeholder is reported wrongly.

## 6. Proofs

All proofs are for arbitrary constants under the named assumptions of the
modules, and are checked to the last leaf.

**MemPipeProofs** (`PipeAssumption`: at least one buffer, at least one byte per
chunk, data are sequences of bytes; any finite set of receivers).
`TypeCorrect`, then `InductiveInvariant` with `IInv`, from which follow
`IntegrityTheorem`, `NoLossTheorem`, `NoOverwriteTheorem`, `NoSharedBufferTheorem`,
`BlockingSendTheorem` and `Refinement` (`Spec => ImplementsChannel`). None of
these properties is inductive alone: what a receiver knows may be stale. The
invariant says in which way. A buffer is `Live` from the store of its number,
one step before its flag, until its release. `SenderInv` ties the buffer being
written to `sent`; `BufferInv` says that a live buffer holds what its number
stands for; `TicketInv` that tickets are unique and that the number of a
ticket is processed exactly when its holder is about to release the buffer;
`MatchInv`, the heart of it, that a receiver which has matched a number looks at
a live buffer, and that one which has only seen the flag looks at a live buffer
or at a number that was processed already, which it therefore cannot match.
For the refinement, `RoomToSend` counts: every chunk in flight occupies a buffer
of its own and the one being written is not among them. `ReorderBoundTheorem` counts
tickets: a number that overtakes a pending one is another thread's ticket, so there
are fewer than receivers. `NoOrphanTheorem` and `InOrderTheorem` are about one polling
thread, and their proofs say why only one: it takes no ticket before it has released
the buffer of the last, so it never sits on a number while another passes.

**JitHooksProofs** (`HookAssumption`: every event fits an empty chunk). `IInv`
adds to the properties where a buffer is active: in generated code and the C code it
calls, not while the thread refills, is blocked or has dropped one, and in
`cpu_loop_exit` it depends on where that was called from. There the saved position is
the current one, the poison or not a position. The exceptions in `PanicTheorem` and
`TraceTheorem` are the causes in `uncovered`, and each is a behaviour of the code:
finding 4 and what is said with it. From it
`TypeCorrect`, `PanicTheorem`, `FieldTheorem`, `TraceTheorem`. `WholeTheorem` has an
invariant of its own above it: the active buffer holds whole events at every step,
because a hook logs all of its event or none, and a chunk is the buffer up to the
position that `IInv` knows to be the current one. That an event fits
an empty chunk is an assumption on the configuration: the size of a register
block is nowhere compared with the size of a chunk.

**PidContextsProofs** (`PidAssumption`: finitely many clients). `InUseTheorem`
and `CollectedTheorem`; the count of references is the only subtle part, and
`CountOne` turns it into the statement that nobody else refers to the context.

**LifecycleProofs** (also `LifecycleAssumption`). By the lemma `ContextSteps` every step of
targets and server is a step of `PidContexts` or leaves its variables alone, so
`ServedInUseKept` and `ServedCollected` follow from the invariants there.
`OwnPipeTheorem` and `PipeCompleteTheorem` rest on `LInv`: `StateInv` says that the
thread id in `HOOK_STATE` is always that of the state next to it, also in a copy made
by a fork, and that a state is there only after its greeting; `NameInv` follows a name
through its life, in which it never comes back. Both are needed: that a context is
served does not say by itself that its header was written.

**SequencerProofs** (`SequencerAssumption`: finitely many threads, at least one).
`Invariant`, from which `TypeCorrect`, `TracesHeldTheorem`, `HolesTheorem` and
`Refinement` (`Spec => ImplementsOrderedTrace`). The parts of `IInv`: `ThreadInv` (what
a thread has in its hands is the trace of a chunk that was sent, or a ticket for one
nobody has parsed), `DistinctInv` (no two threads have the same), `TracesInv` (what
`State` holds is sorted, not yet reported and no thread's), `NumbersInv` (everything
below `next_seq` was parsed, and there are as many reports), `HolesInv` (every number
in between has an owner). The step that needs all of them is the insertion: the
position found by the search is the right one only because the number is new.

**WireProofs** (no assumption on constants). `ParsedExtends`: if the parser gets
through the bytes `a` with events `e` and through `b` with outcome `o` and events `f`,
it gets through `a \o b` with `o` and `e \o f`. This is what lets a hook add its
packet to a chunk that it has not looked at, and it rests on a lemma for every kind of
packet: nothing the parser reads of a packet lies behind its end. `ReadReported`,
`GetrandomReported`, `MunmapReported` and `MmapReported`: the packet of a system call
is parsed to exactly the event it stands for, for all words, flags, paths and data;
`CutFails`: a report that was cut anywhere is never parsed as something else, it
fails. The parser is a recursive function over positions, and the library's induction
theorems take an operator as a parameter, which no prover here can instantiate; the
proofs use `SetInduction` and `SetStrongInduction` instead, proved from the least
element of a set of numbers (`LeastNumber`) and applied to sets.

**LiftingProofs** (no assumption on constants). `InstHookTells`, `RegsHookTells` and
`MemHookTells`: whatever the program counter, the address of `$flush`, the host
registers and the guest's registers are, running what `lift_instruction` and
`lift_memop` made logs a packet that is parsed to the event of that instruction or
access, needs no more room than it asked for, and calls `$flush` at the address it was
given (which, for hooks that copy registers, must not contain their two placeholders
itself), unless the program counter contains a placeholder; with one, everything but the
told program counter is still right, the kind of event, the registers and the data
among it. The lemmas below them say what `patch` does to a template: it replaces the
last window that matches (`LastWindow`), the placeholders do not occur in code or in
each other, and a replacement creates no new one. For the memory hooks the proof also
goes through the tables of register names.

**PipelineProofs.** Its assumptions are those of the modules:
`PipelineAssumption`, a thread and a buffer; `SetupsAssumption`, the largest packet of a
hook fits a chunk, which `CHUNK_SIZE` of 256 KiB gives for every target, addresses fit
the target and the bound, and the client is one of the six examples;
`WorkAssumption`, accesses of 1 to 16 bytes, arguments of system calls that fit the
target, calls that fail or return fewer than 2^24 bytes (more than any buffer holds), and
that QEMU does not allocate `r14`, which the patch takes out of
`tcg_target_reg_alloc_order`; `SymbolsAssumption`, a symbol file has addresses and
names; `BacktraceAssumption`, the file given to the backtrace client lists the guest's
functions, and none is named like an unknown one. TLC evaluates all of them. The
theorems, and the invariant each of them needs:

- `EventsFaithfulTheorem` is the end-to-end statement: for every guest program, target,
  library, client, chunk size and number of buffers and threads, what the callbacks get
  is what the guest did, in that order, and all of it once everything is consumed.
  `EventsFaithful` is not inductive: the events that are missing in `parsed` are on
  their way in chunks, and a hook that meets a full chunk splits the sequence wherever
  it happens to. The invariant is `PipelineInv`: `GuestOK` (the guest's state has its
  types, the lowest frame is never that of a tail call, so that a return finds its
  caller, and there is no active chunk outside of generated code), `ServerOK`, and
  `FaithOK`. The last says (`Faith`, `Told`, `Cuts`) that there is a sequence of events,
  the same as `executed` up to the address of a second half of a 128-bit load, of which
  `parsed` is a beginning, and that what is behind is cut into slices, one for each
  chunk in `sent` and one for the active chunk, each of which the chunk *says* or which
  is in a chunk that is spoilt for a reason recorded in `odd`. One lemma says what each
  kind of step does to the slices: a hook makes the last one longer or begins a new one
  (`LoggedTold`), a report is a slice of its own because there is no active chunk then
  (`ToldReport`), an exit closes the last one (`ToldExit`), and the parser moves the
  first one to `parsed` (`ToldParse`). `FaithOK` quantifies over sequences of events,
  which TLC cannot enumerate; the run checks what follows from it.
- `PipelineTypeTheorem` and `KnownFailuresTheorem` rest on `LoadInv`, which adds to
  `PipelineInv` what is in every buffer, parsed or not (`BuffersOK`: bytes, no more than
  fit, and if the parser or a callback will fail there, the reason for it is in `odd`
  already), who
  has failed or will in `trace()` (`BlameOK`), and that threads are not counted twice
  (`CountsOK`). A failure is always blamed on an earlier step: the reason is recorded
  when the guest acts, chunks and threads before the failure happens.
- `RegistersFaithfulTheorem`: `RegsInv` says that a register block at the end of
  `executed` is the one of the instruction that ran last. A placeholder is not
  excluded: it spoils the program counter, never the registers.
- `ChunksInvisibleTheorem`: for each of the six clients, the traces of chunks, made in
  parallel and consumed in order, bring it where one trace of all events would
  (`Consumed`). `ClientInv` has the states in between (`Delivered`): each waiting trace
  leads from one to the next, and the last one is that of all that was parsed.
- `CountsExactTheorem` follows from it: what a client counts is a sum over the events,
  and an event that a placeholder has spoilt is still one of its kind.
- `SymbolsNearestTheorem` is about the sorted table and the binary search in it, for any
  file, repeated addresses included; that the sort exists is proved by induction over
  the number of entries. `SymInv` carries the result through traces and output.
- `CoverageExactTheorem`: `CoverInv` says of what the client will be by all that has
  *happened*, not by what it was told (`CoverOK`): its table is then `loaded`, its
  coverage `covered`, and every location whose hook will not fire again is covered.
  The last part is where a one-shot hook, a new mapping and a lookup in `trace()` meet,
  and why `moved` must be excluded. With the theorems above, an idle client is there.
- `BacktraceExactTheorem`: `BackInv` likewise says where the client will be after all
  that happened (`BackOK`): one instruction behind the guest, with the frames and return
  addresses of `guest.ran.frames`, and with the flag of the last instruction. `Follow`
  says how the guest may have gone on from there (it stayed in the function, came into
  one, or left some), and `Stacked` that frames which share a return address are exactly
  those of tail calls, so that `BackStep` can show that the loop of pops at a return
  stops where the guest's frames do. Without the guard on `recursion` it would not:
  TLC shows the client popping a caller with its callee.

The invariants were given to TLC before they were proved, as far as TLC can evaluate
them.

Only model-checked is liveness, which the prover cannot express beyond simple cases
(`ENABLED`, and fairness with it, has no backend here): `AllocReturns`,
`BlockingSendReturns`, `EventuallyDelivered`, `HooksReturn`, `EventuallyReported`,
`ThreadsEnd`, `EndNoticed` and `Drains`. Every other property of a passing run is
stated by a theorem. What a recursive function computes is proved only where a set to
induct over could be named; the folds of events and traces (`Pushed`, `Traced`,
`Logged`, `Parsed`) are such cases.

## 7. Not modelled, and the plan

Not modelled, with reasons, are the components marked so in `PROJECT.json`: the
option and the look-up of the shared library in the QEMU patches, which run before
any hook exists and exit on every failure; `benchmark_graph` and `ci_runner.py`, which
are not part of a traced run. Of components modelled in part: byte-swapped 128-bit
accesses, for which the patch exchanges the registers, and the fields it adds to each
target's CPU state; the window, the colours and the timers of the visualization and
the benchmark. Within modelled components: sizes of the shared mapping, names of
processes in the greeting, the sleep between polls, printed output, and the sequence
numbers' wrap at 2^64.

What could come next: several guest threads in `Pipeline`, with a chunk each and a
sequencer between them and `trace()`; a big-endian guest; the visualization's window;
and, with a prover for fairness, `Drains` and `EventuallyDelivered` as theorems.
