------------------------------ MODULE Pipeline ------------------------------
(***************************************************************************)
(* The way of an event from the guest to a client: a guest thread executes *)
(* instructions and system calls, the hooks that lifting generated for     *)
(* them log packets to a chunk, the server parses the chunks, the client's *)
(* callbacks turn events into traces and its trace() consumes these in     *)
(* order.  How chunks are exchanged (MemPipe), how hooks and exits from    *)
(* generated code alternate (JitHooks) and how threads order traces        *)
(* (Sequencer) are modules of their own; here a chunk is a string of bytes *)
(* that arrives, and what matters is what it says.                         *)
(***************************************************************************)
EXTENDS Arch, Lifting, Clients

CONSTANTS Setups,      \* target, library and client of a behaviour
          Functions,   \* addresses of the guest's functions, with each client
          Accesses,    \* memory accesses an instruction may do, with each client
          Mmaps, Munmaps, Syscalls,   \* system calls it may do, with each client
          ChunkSize,   \* CHUNK_SIZE, for each library
          NumBuffers,  \* NUM_BUFFERS
          ServerThreads,              \* threads of the server
          MaxSteps     \* bound: instructions and calls, for each client

ASSUME PipelineAssumption == ServerThreads \in Nat \ {0} /\ NumBuffers \in Nat \ {0}

VARIABLES setup,       \* the behaviour's setup: it never changes
          guest,       \* program counter, link register, frames; some as of the last step
          loaded,      \* the symbols at the addresses where files are mapped
          mode,        \* "out" of or in generated code ("jit"), "blocked", "crash"
          chunk,       \* the active buffer
          disarmed,    \* where a one-shot hook has fired since its translation
          sent,        \* chunks the server has not parsed
          info,        \* ClientInfo: the architecture the server was told
          server,      \* threads that failed, is the lock poisoned, chunks never given back
          traces,      \* traces of parsed chunks, not yet given to trace()
          client,      \* the client's state
          executed,    \* history: the events of what the guest did
          parsed,      \* history: the events the callbacks got
          covered,     \* history: the locations that ran
          odd          \* history: what happened that the trace cannot survive

vars == <<setup, guest, loaded, mode, chunk, disarmed, sent, info, server, traces,
          client, executed, parsed, covered, odd>>
server_vars == <<info, server, traces, client, parsed>>

w == setup.width                \* size_of::<$tusize>()
lib == setup.lib
FLUSH == [i \in 1 .. 8 |-> 200 + i]             \* the address of $flush

\* Addresses as words; the guest may be loaded above 2^24.
AddressBound == 16777216        \* bound: addresses as numbers, as Num has them
Address(n) == Low(Word(n, 3) \o setup.high, 8)

\* What init stores of the target, for the handshake and for the hooks.
QemuInfo == [arch |-> FromCstr(setup.arch)]

Init ==
    /\ setup \in Setups
    /\ guest = [pc |-> setup.start, ra |-> setup.start, frames |-> <<>>, steps |-> 0,
                ran |-> [frames |-> <<>>, ra |-> setup.start]]
    /\ loaded = {} /\ mode = "out" /\ chunk = <<>> /\ disarmed = {} /\ sent = <<>>
    /\ info = FromI32[QemuInfo.arch]
    /\ server = [failed |-> 0, poisoned |-> FALSE, kept |-> <<>>]
    /\ traces = <<>> /\ client = InitialState(setup.client)
    /\ executed = <<>> /\ parsed = <<>> /\ covered = {} /\ odd = {}

-----------------------------------------------------------------------------
(* The guest's registers, in CPUArchState behind the fields of Cannoli. *)

\* The ABI: who holds what; every other register is full of a byte of its own.
Abi == [mips     |-> [n |-> 32, ra |-> 31, args |-> <<4, 5, 6, 7>>, val |-> 2, sp |-> 29],
        armv5tel |-> [n |-> 16, ra |-> 14, args |-> <<0, 1, 2, 3>>, val |-> 0, sp |-> 13],
        aarch64  |-> [n |-> 32, ra |-> 30, args |-> <<0, 1, 2, 3>>, val |-> 0, sp |-> 31]]
Register(r, ra) == IF r = Abi[setup.arch].ra THEN Low(ra, w) ELSE [i \in 1 .. w |-> r + 1]
Block ==
    LET link == Abi[setup.arch].ra  ra == Address(guest.ra) IN
    [i \in 1 .. Abi[setup.arch].n * w |->
        IF (i - 1) \div w = link THEN ra[((i - 1) % w) + 1] ELSE (i - 1) \div w + 1]

\* Targets, libraries and clients of behaviours: the high bytes of addresses fit
\* the target, and the largest packet of a hook fits a buffer.
ASSUME SetupsAssumption ==
    \A s \in Setups :
        /\ s.client \in Programs
        /\ s.arch \in DOMAIN Abi /\ s.width = (IF s.arch = "aarch64" THEN 8 ELSE 4)
        /\ s.feature \in DOMAIN Extension
        /\ s.high \in Bytes(5) /\ (s.width = 4 => \A i \in 2 .. 5 : s.high[i] = 0)
        /\ s.lib.inst \in {"Always", "Once", "Register", "Branch"}
        /\ s.lib.mem \in BOOLEAN /\ s.lib.syscall \in BOOLEAN
        /\ s.start \in 0 .. AddressBound - 1
        /\ Functions[s.client] \subseteq 0 .. AddressBound - 1
        /\ MaxSteps[s.client] \in Nat
        /\ ChunkSize[s.lib.inst] \in Nat /\ ChunkSize[s.lib.inst] >= 25
        /\ s.lib.inst \in {"Register", "Branch"} =>
              ChunkSize[s.lib.inst] >= 14 + Abi[s.arch].n * s.width

\* symbols.txt lists the functions for the backtrace.
ASSUME BacktraceAssumption ==
    \A s \in Setups : s.client = "backtrace" =>
        /\ Functions[s.client] = {Symbols[i][1] : i \in DOMAIN Symbols}
        /\ \A i \in DOMAIN Symbols : Symbols[i][2] # "<unknown>"

\* A system call returns a negative number if it fails.
Failed(ret) == ret[8] >= 128

\* What the guest may do.  QEMU does not allocate r14: it is reserved for hooks.
ASSUME WorkAssumption ==
    \A s \in Setups :
        /\ \A a \in Accesses[s.client] :
              /\ a.write \in BOOLEAN /\ a.size \in {1, 2, 4, 8, 16} /\ a.at \in Nat
              /\ {a.data, a.hi, a.addr} \subseteq (0 .. 15) \ {14}
        /\ \A m \in Mmaps[s.client] :
              /\ \A v \in {m.addr, m.len, m.offset} : v \in Words /\ Fits(v, s.width)
              /\ {m.anon, m.read, m.write, m.exec} \subseteq BOOLEAN
              /\ m.path \in Seq(Byte) /\ Len(m.path) < Huge
        /\ \A m \in Munmaps[s.client] :
              \A v \in {m.addr, m.len} : v \in Words /\ Fits(v, s.width)
        /\ \A c \in Syscalls[s.client] :
              /\ c.num \in Nat /\ c.num < Huge
              /\ c.ret \in Words /\ c.args \in [1 .. 3 -> Words]
              \* bound: 2^24 bytes are more than any buffer has
              /\ Failed(c.ret) \/ Length(c.ret) < Huge

Gprs == [offset |-> 24, size |-> Abi[setup.arch].n * w]
Env == [i \in 1 .. 24 |-> 238] \o Block \o [i \in 1 .. 16 |-> 238]

-----------------------------------------------------------------------------
(* Hooks. *)

\* alloc_buffer waits for a buffer that the server does not hold; a hook that
\* flushes waits with the chunk it has sent already there.
Free(chunks) == Len(chunks) + Len(server.kept) < NumBuffers

\* Mutant: a hook that does not find room begins a new chunk, the old one is lost.
LogDropping(st, h) ==
    IF Len(st.chunk) + h.room <= ChunkSize[lib.inst]
    THEN [st EXCEPT !.chunk = @ \o h.packet]
    ELSE [st EXCEPT !.chunk = h.packet]

\* A hook that does not find room sends the chunk and begins a new one.
Log(st, h) ==
    IF Len(st.chunk) + h.room <= ChunkSize[lib.inst]
    THEN [st EXCEPT !.chunk = @ \o h.packet]
    ELSE [chunk |-> h.packet, sent |-> Append(st.sent, [bytes |-> st.chunk, report |-> FALSE])]

\* The hooks of an instruction run one after the other.
Logged(st, hooks) ==
    LET upto[n \in 0 .. Len(hooks)] ==
          IF n = 0 THEN st ELSE Log(upto[n - 1], hooks[n])
    IN upto[Len(hooks)]

\* The instruction's hook; a one-shot hook that fired jumps over itself.
InstHook(bb_end) ==
    LET code == lift_instruction(w, Address(guest.pc), bb_end, lib.inst, FLUSH, Gprs) IN
    IF lib.inst = "Once" /\ guest.pc \in disarmed THEN <<>>
    ELSE IF lib.inst \in {"Register", "Branch"} THEN <<RunRegs(code, w, Env)>>
    ELSE <<RunInst(code, w)>>

\* The host's registers at an access: QEMU chose a.data, a.hi and a.addr, for a
\* store maybe the same one twice, and left r14 to the hooks.
Lo == <<17, 34, 51, 68, 85, 102, 119, 136>>
Hi == <<18, 35, 52, 69, 86, 103, 120, 137>>
Host(a) ==
    [r \in 0 .. 15 |-> CASE r = a.addr -> Address(a.at)
                         [] r # a.addr /\ r = a.data -> Lo
                         [] r \notin {a.addr, a.data} /\ r = a.hi -> Hi
                         [] OTHER -> [i \in 1 .. 8 |-> 238]]

\* After a load: the address may be overwritten, it was saved in r14.
HostLoaded(a) ==
    [r \in 0 .. 15 |-> CASE r = a.data -> Lo
                         [] r # a.data /\ r = a.hi -> Hi
                         [] r = 14 -> Address(a.at)
                         [] OTHER -> Host(a)[r]]

\* What the access stores or has loaded.
Value(a, r) == IF a.write THEN Host(a)[r] ELSE HostLoaded(a)[r]

memop(a) ==
    CASE a.size = 1 -> 0 [] a.size = 2 -> 1 [] a.size = 4 -> 2 [] a.size \in {8, 16} -> 3

\* tcg_out_qemu_st: before the store; r14 gets the address of the second half.
StoreHooks(a) ==
    LET low == lift_memop(w, Address(guest.pc), TRUE, a.data, a.addr, memop(a), FLUSH)
        high == lift_memop(w, Address(guest.pc), TRUE, a.hi, 14, memop(a), FLUSH)
        half == [Host(a) EXCEPT ![14] = Address(a.at + 8)]
    IN <<RunMem(low, Host(a))>> \o IF a.size = 16 THEN <<RunMem(high, half)>> ELSE <<>>

\* tcg_out_addi(r14, 8)
PlusEight(b) ==
    [i \in 1 .. 8 |->
        IF i = 1 THEN (b[1] + 8) % 256
        ELSE IF b[1] > 247 /\ \A j \in 2 .. i - 1 : b[j] = 255 THEN (b[i] + 1) % 256 ELSE b[i]]

\* tcg_out_qemu_ld: the address is saved in r14, for the load may clobber it;
\* the hook comes after the load.
LoadHooks(a) ==
    LET low == lift_memop(w, Address(guest.pc), FALSE, a.data, 14, memop(a), FLUSH)
        high == lift_memop(w, Address(guest.pc), FALSE, a.hi, 14, memop(a), FLUSH)
        left == RunMem(low, HostLoaded(a)).host
        half == [left EXCEPT ![14] = PlusEight(@)]
    IN <<RunMem(low, HostLoaded(a))>> \o IF a.size = 16 THEN <<RunMem(high, half)>> ELSE <<>>

MemHooks(a) == IF ~lib.mem THEN <<>> ELSE IF a.write THEN StoreHooks(a) ELSE LoadHooks(a)

-----------------------------------------------------------------------------
(* What a faithful trace of an instruction is. *)

InstEvent(bb_end) ==
    LET pc == Address(guest.pc) IN
    CASE lib.inst \in {"Always", "Once"} -> [op |-> "exec", pc |-> pc]
      [] lib.inst = "Register" -> [op |-> "regs", pc |-> pc, regs |-> Block]
      [] lib.inst = "Branch" -> [op |-> "branch", pc |-> pc, branch |-> bb_end, regs |-> Block]

HalfEvent(a, at, val, size) ==
    [op |-> IF a.write THEN "write" ELSE "read", pc |-> Address(guest.pc),
     addr |-> Address(at), val |-> U64(Low(val, size)), size |-> size]
MemEvents(a) ==
    IF ~lib.mem THEN <<>>
    ELSE IF a.size = 16
    THEN <<HalfEvent(a, a.at, Value(a, a.data), 8), HalfEvent(a, a.at + 8, Value(a, a.hi), 8)>>
    ELSE <<HalfEvent(a, a.at, Value(a, a.data), a.size)>>

\* The nearest symbol at or below a location.
Location(symbols, pc) ==
    LET below == {s \in symbols : s[1] <= pc} IN
    IF below = {} THEN {<<<<>>, "<unknown>", pc>>}
    ELSE {<<s[2], s[3], pc - s[1]>> : s \in {s \in below : \A t \in below : t[1] <= s[1]}}

Given(condition, why) == IF condition THEN {why} ELSE {}

\* What may go wrong with an instruction: its address contains a placeholder;
\* a load of 128 bits, whose second half is told 8 bytes behind the instruction
\* itself; the client was written for another target; it draws a smaller address
\* space.
Reasons(a) ==
    Given(\E m \in Placeholders : Occurs(Address(guest.pc), m), "placeholder")
    \cup Given(a # <<>> /\ lib.mem /\ a[1].size = 16 /\ ~a[1].write, "load128")
    \cup Given(<<setup.client, setup.arch>> \in
                  {<<"regtrace", "aarch64">>, <<"backtrace", "armv5tel">>}, "foreign")
    \cup Given(/\ a # <<>> /\ setup.client = "visualization"
               /\ \/ Address(a[1].at)[4] >= ADDR_MAX
                  \/ a[1].size = 16 /\ ~a[1].write /\ PlusEight(Address(guest.pc))[4] >= ADDR_MAX,
               "address")

\* One instruction, with at most one access: hooks, then where to go on.
Execute(bb_end, a, next, why) ==
    LET hooks == InstHook(bb_end) \o (IF a = <<>> THEN <<>> ELSE MemHooks(a[1]))
        armed == ~(lib.inst = "Once" /\ guest.pc \in disarmed)
        st == Logged([chunk |-> chunk, sent |-> sent], hooks)
    IN /\ mode \in {"out", "jit"} /\ guest.steps < MaxSteps[setup.client]
       /\ Free(st.sent)
       /\ mode' = IF \E i \in DOMAIN hooks : hooks[i].flush # FLUSH THEN "crash" ELSE "jit"
       /\ chunk' = st.chunk /\ sent' = st.sent
       /\ disarmed' = IF lib.inst = "Once" THEN disarmed \cup {guest.pc} ELSE disarmed
       /\ guest' = [next EXCEPT !.steps = @ + 1, 
                              !.ran = [frames |-> guest.frames, ra |-> guest.ra]]
       /\ executed' = executed \o (IF armed THEN <<InstEvent(bb_end)>> ELSE <<>>)
                               \o (IF a = <<>> THEN <<>> ELSE MemEvents(a[1]))
       /\ covered' = covered \cup Location(loaded, guest.pc)
       /\ odd' = odd \cup Reasons(a) \cup why
       /\ UNCHANGED <<setup, loaded, server_vars>>

-----------------------------------------------------------------------------
(* The guest thread in generated code. *)

\* Code does not run into a function.
Onward == guest.pc + 4 < AddressBound /\ guest.pc + 4 \notin Functions[setup.client]

\* A function that comes to the call by which it was called itself: when it is
\* called again from there, the next return is taken for both.
Again == Given(guest.frames # <<>> /\ Last(guest.frames).ret = guest.pc + 4, "recursion")

\* On to the next instruction; some end a basic block without a jump.
Plain(bb_end) ==
    /\ Onward
    /\ Execute(bb_end, <<>>, [guest EXCEPT !.pc = @ + 4], Again)

Access(a) ==
    /\ Onward
    /\ a.size = 16 => w = 8
    /\ Execute(FALSE, <<a>>, [guest EXCEPT !.pc = @ + 4], Again)

Call(f) ==
    /\ Onward
    /\ Execute(TRUE, <<>>,
               [guest EXCEPT !.pc = f, !.ra = guest.pc + 4,
                  !.frames = Append(@, [f |-> f, ret |-> guest.pc + 4, tail |-> FALSE])],
               Again)

\* A branch without link to a function: it will return to its caller's caller.
TailCall(f) ==
    /\ guest.frames # <<>>
    /\ LET ret == Last(guest.frames).ret IN
       Execute(TRUE, <<>>,
               [guest EXCEPT !.pc = f, !.ra = ret,
                  !.frames = Append(@, [f |-> f, ret |-> ret, tail |-> TRUE])],
               {})

\* The frames that are left: those above the last one that was called.
Returned(frames) ==
    LET called == Max({i \in DOMAIN frames : ~frames[i].tail}) IN SubSeq(frames, 1, called - 1)

Return ==
    /\ guest.frames # <<>>
    /\ LET ret == Last(guest.frames).ret IN
       Execute(TRUE, <<>>, [guest EXCEPT !.pc = ret, !.ra = ret, !.frames = Returned(@)], {})

\* The way out of generated code sends the chunk.
JitExit ==
    /\ mode = "jit"
    /\ mode' = "out" /\ chunk' = <<>>
    /\ sent' = Append(sent, [bytes |-> chunk, report |-> FALSE])
    /\ UNCHANGED <<setup, guest, loaded, disarmed, server_vars, executed, covered, odd>>

\* QEMU translates code again: the hooks are lifted anew, and armed.
Retranslate ==
    /\ disarmed # {} /\ guest.steps < MaxSteps[setup.client]
    /\ disarmed' = {}
    /\ UNCHANGED <<setup, guest, loaded, mode, chunk, sent, server_vars, executed,
                   covered, odd>>

-----------------------------------------------------------------------------
(* System calls.  Their hooks send a chunk of their own, cut to its size, and *)
(* block until it was parsed.                                                 *)

\* Mutant: send does not look at the size of the buffer.
SentWhole(packet) == packet

\* ChunkWriter::send: what fits; its callers ignore how much that was.
Sent(packet) == Low(packet, ChunkSize[lib.inst])

Report(packet, ev, why) ==
    /\ mode = "out" /\ guest.steps < MaxSteps[setup.client]
    /\ Free(sent)
    /\ guest' = [guest EXCEPT !.steps = @ + 1]
    /\ mode' = "blocked"
    /\ sent' = Append(sent, [bytes |-> Sent(packet), report |-> TRUE])
    /\ executed' = Append(executed, ev)
    /\ odd' = odd \cup why \cup Given(Len(packet) > ChunkSize[lib.inst], "cut")
    /\ UNCHANGED <<setup, chunk, server_vars, covered>>

Outside(at, m) == at < Num(m.addr) \/ at >= Num(m.addr) + Num(m.len)

\* The symbols of the file where it is mapped.
Loaded(m) ==
    IF FromStart(m) /\ Readable(m.path) THEN FileSymbols(m.path, Num(m.addr)) ELSE {}

\* The symbols change from now on: code that is not told again has another one.
Moved(symbols, m) ==
    Given(\E pc \in disarmed : Outside(pc, m) /\ Location(symbols, pc) # Location(loaded, pc),
          "moved")

\* The guest's view: a mapping replaces what was there.
Mmap(m) ==
    LET symbols == {s \in loaded : Outside(s[1], m)} \cup Loaded(m) IN
    /\ Report(MmapPacket(w, m),
              [op |-> "mmap", addr |-> m.addr, len |-> m.len, anon |-> m.anon,
               read |-> m.read, write |-> m.write, exec |-> m.exec, path |-> m.path,
               offset |-> m.offset],
              Given(~Utf8(m.path), "path")
              \cup Given(/\ setup.client = "coverage"
                         /\ FromStart(m) /\ Unreadable(m.path), "elf")
              \cup Given(\E s \in loaded : \/ ~Outside(s[1], m)
                                           \/ \E t \in Loaded(m) : s[1] = t[1], "remapped")
              \cup Moved(symbols, m))
    /\ loaded' = symbols
    /\ disarmed' = {pc \in disarmed : Outside(pc, m)}

\* Reported before the call is checked.
Munmap(m) ==
    LET symbols == {s \in loaded : Outside(s[1], m)} IN
    /\ Report(MunmapPacket(w, m.addr, m.len),
              [op |-> "munmap", addr |-> m.addr, len |-> m.len],
              IF m.addr[1] # 0 THEN {"failed_munmap"} ELSE Moved(symbols, m))
    /\ IF m.addr[1] = 0
       THEN loaded' = symbols /\ disarmed' = {pc \in disarmed : Outside(pc, m)}
       ELSE UNCHANGED <<loaded, disarmed>>

\* What a system call that does not fail returns: a number of bytes.
Data(ret) == [i \in 1 .. Length(ret) |-> 64 + (i % 64)]
IntVal(v) == [type |-> SyscallParamType.Int, val |-> v]
Buffer(at, ret) == [type |-> SyscallParamType.RawPtr, addr |-> at, data |-> Data(ret)]

\* $syscall: nothing for calls it does not handle; a buffer of the length that
\* was returned is copied, and QEMU crashes if that is an error: as an unsigned
\* number it is longer than the memory.
Syscall(c) ==
    LET name == HostSyscallNum(setup.feature, c.num)
        num == Word(c.num, 4)
        data == Buffer(c.args[IF name = "Read" THEN 2 ELSE 1], c.ret)
        others == IF name = "Read" THEN <<c.args[1], c.args[3]>> ELSE <<c.args[2], c.args[3]>>
        packet == IF name = "Read" THEN ReadPacket(w, num, c.ret, c.args, data.data)
                  ELSE GetrandomPacket(w, num, c.ret, c.args, data.data)
        params == IF name = "Read" THEN <<IntVal(others[1]), data, IntVal(others[2])>>
                  ELSE <<data, IntVal(others[1]), IntVal(others[2])>>
    IN /\ mode = "out" /\ lib.syscall /\ name # "NotHandled"
       /\ \/ /\ Failed(c.ret)
             /\ mode' = "crash" /\ odd' = odd \cup {"failed_call"}
             /\ UNCHANGED <<setup, guest, loaded, chunk, disarmed, sent, server_vars,
                            executed, covered>>
          \/ /\ ~Failed(c.ret)
             /\ Report(packet, [op |-> "syscall", num |-> name, ret |-> IntVal(c.ret),
                                params |-> params], {})
             /\ UNCHANGED <<loaded, disarmed>>

\* The drop of the blocking writer waits until client_owned is cleared, which is
\* not before the server has processed the chunk.  It need not be ever after: two
\* threads of the server may leave it set (MemPipe), so no fairness is assumed.
Unblock ==
    /\ mode = "blocked" /\ \A b \in Range(sent) \cup Range(server.kept) : ~b.report
    /\ mode' = "out"
    /\ UNCHANGED <<setup, guest, loaded, chunk, disarmed, sent, server_vars, executed,
                   covered, odd>>

-----------------------------------------------------------------------------
(* The server. *)

\* Mutant: the thread that fails takes the others with it.
CanParseAll == sent # <<>> /\ server.failed = 0 /\ Len(traces) < ServerThreads

\* Some thread is free and finds a chunk with its number.
CanParse == sent # <<>> /\ server.failed + Len(traces) < ServerThreads

\* parse_payload with the client's callbacks.  An error or a panic ends the
\* thread and the chunk stays its own; no trace behind it is ever delivered.
\* A thread that has parsed a chunk first brings its trace to trace().
Parse ==
    /\ CanParse
    /\ sent' = Tail(sent)
    /\ \E p \in {Parsed(setup.feature, Head(sent).bytes)} :
       LET fails == \/ p.out \in {"error", "panic"}
                    \/ \E i \in DOMAIN p.evs : Panics(setup.client, p.evs[i])
       IN /\ server' = [server EXCEPT !.failed = IF fails \/ server.poisoned THEN @ + 1 ELSE @,
                                      !.kept = IF fails THEN Append(@, Head(sent)) ELSE @]
          /\ IF server'.failed > 0
             THEN UNCHANGED <<traces, parsed>>
             ELSE /\ traces' = Append(traces, Pushed(setup.client, p.evs))
                  /\ parsed' = parsed \o p.evs
    /\ UNCHANGED <<setup, guest, loaded, mode, chunk, disarmed, info, client, executed,
                   covered, odd>>

\* trace(), under the lock that keeps the traces in order; a panic poisons it.
Trace ==
    /\ traces # <<>>
    /\ traces' = Tail(traces)
    /\ IF server.poisoned \/ TracePanics(setup.client, Head(traces))
       THEN /\ server' = [server EXCEPT !.failed = @ + 1, !.poisoned = TRUE]
            /\ UNCHANGED client
       ELSE /\ client' = Traced(setup.client, client, Head(traces))
            /\ UNCHANGED server
    /\ UNCHANGED <<setup, guest, loaded, mode, chunk, disarmed, sent, info, executed, parsed,
                   covered, odd>>

Guest ==
    \/ \E bb_end \in BOOLEAN : Plain(bb_end)
    \/ \E a \in Accesses[setup.client] : Access(a)
    \/ \E f \in Functions[setup.client] : Call(f) \/ TailCall(f)
    \/ Return \/ JitExit \/ Retranslate
    \/ \E m \in Mmaps[setup.client] : Mmap(m)
    \/ \E m \in Munmaps[setup.client] : Munmap(m)
    \/ \E c \in Syscalls[setup.client] : Syscall(c)
    \/ Unblock

Next == Guest \/ Parse \/ Trace

Spec == Init /\ [][Next]_vars

\* The server's threads keep running.  Parse is enabled exactly when CanParse
\* holds: the second conjunct is its weak fairness.
FairSpec ==
    /\ Spec
    /\ []<>~CanParse \/ []<><<Parse>>_vars
    /\ WF_vars(Trace)

-----------------------------------------------------------------------------
(* Correctness. *)

Kinds == {"exec", "regs", "branch", "read", "write", "mmap", "munmap", "syscall"}

\* The chunks and histories hold bytes and events, and the active chunk never
\* exceeds the size of a buffer.
TypeOK ==
    /\ setup \in Setups /\ info = setup.arch
    /\ mode \in {"out", "jit", "blocked", "crash"}
    /\ \A b \in {chunk} \cup {c.bytes : c \in Range(sent) \cup Range(server.kept)} :
          /\ \A i \in DOMAIN b : b[i] \in 0 .. 255
          /\ Len(b) <= ChunkSize[lib.inst]
    /\ \A ev \in Range(executed) \cup Range(parsed) : ev.op \in Kinds
    /\ server.failed \in 0 .. ServerThreads /\ server.poisoned \in BOOLEAN
    /\ guest.steps \in 0 .. MaxSteps[setup.client]

\* Everything the guest has done was told to the client, and has been consumed.
Idle == chunk = <<>> /\ sent = <<>> /\ traces = <<>> /\ server.failed = 0 /\ mode # "crash"

\* What the callbacks get is what the guest did, in the order it did it: values,
\* addresses, register blocks and system calls survive templates, patches,
\* memory hook table, chunks and parser, and the reports of system calls, which
\* bypass the active chunk, keep their place among the others.
\* (lift_instruction, lift_memop, flush, parse_payload)
EventsFaithful ==
    odd \cap {"placeholder", "load128"} = {} =>
        /\ IsPrefix(parsed, executed)
        /\ Idle => parsed = executed

\* The comment on the second half of a 128-bit load, "Add 8 bytes to r14 so we
\* write datahi to the correct address" (qemu_patches.patch), as a property of
\* the trace: the halves of an access are told at their addresses.
HalvesAdjacent ==
    odd \subseteq {"load128"} =>
        \A i \in DOMAIN parsed :
            parsed[i].op \in {"read", "write"} => parsed[i].addr = executed[i].addr

\* A thread of the server fails, QEMU crashes or hangs in a system call for
\* known reasons only, for everything else the trace goes on.
KnownFailures ==
    /\ server.failed > 0 =>
          odd \cap {"cut", "path", "elf", "foreign", "address", "placeholder"} # {}
    /\ mode = "crash" => "failed_call" \in odd
    /\ (\E b \in Range(server.kept) : b.report) => odd \cap {"cut", "path", "elf"} # {}

\* RegState finds the guest's arguments, return address and value and stack
\* pointer in the block of the last instruction, if the client was built for the
\* target (extensions/arch).
RegistersFaithful ==
    LET abi == Abi[setup.arch]
        held(r) == Register(r, Address(guest.ran.ra))
    IN (/\ Idle /\ parsed # <<>> /\ setup.feature = setup.arch
        /\ Last(parsed).op \in {"regs", "branch"}) =>
          RegState(setup.feature, Last(parsed).regs) =
              [args |-> [i \in 1 .. 4 |-> held(abi.args[i])], ret_addr |-> held(abi.ra),
               ret_val |-> held(abi.val), sp |-> held(abi.sp)]

\* The symbolizer names the nearest symbol at or below an address.
Nearest(r) ==
    \/ /\ r.symbol = "<unknown>" /\ r.offset = r.addr
       /\ \A s \in Range(Symbols) : s[1] > r.addr
    \/ \E s \in Range(Symbols) :
          /\ s[2] = r.symbol /\ s[1] + r.offset = r.addr
          /\ \A t \in Range(Symbols) : t[1] <= s[1] \/ t[1] > r.addr
SymbolsNearest ==
    setup.client = "symbolizer" =>
        \A i \in DOMAIN client.out :
            /\ Nearest(client.out[i].pc)
            /\ client.out[i].op # "exec" => Nearest(client.out[i].addr)

\* The coverage client ends with exactly the locations that ran, although a hook
\* fires once, files come and go at the same addresses, and a location is looked
\* up only in trace(): every lookup sees the mappings of its moment.  It is
\* wrong after a munmap that failed, after a mapping over another one, and when
\* code whose hook has fired gets another nearest symbol.
CoverageExact ==
    (/\ setup.client = "coverage" /\ setup.lib.inst \in {"Always", "Once"} /\ Idle
     /\ odd \cap {"failed_munmap", "remapped", "moved", "placeholder"} = {}) =>
        client.coverage = covered

\* The backtrace is the guest's stack of functions at the last instruction,
\* branches without link and recursion through several calls included; on the
\* target and with the library it was written for.
BacktraceExact ==
    (/\ setup.client = "backtrace" /\ setup.arch = "mips" /\ setup.lib.inst = "Branch" /\ Idle
     /\ odd \cap {"recursion", "placeholder"} = {}) =>
        /\ Len(client.backtrace) = Len(guest.ran.frames)
        /\ \A i \in DOMAIN client.backtrace : client.backtrace[i][2] = guest.ran.frames[i].f

\* Number of events of a kind.
Happened(op) == Cardinality({i \in DOMAIN executed : executed[i].op = op})

\* Counting clients count every event once, whatever the chunks it came in.
CountsExact ==
    Idle =>
        /\ setup.client = "benchmark" => client.instructions = Happened("exec")
        /\ setup.client = "visualization" =>
              /\ client.instrs = Happened("exec")
              /\ client.loads = Happened("read") /\ client.stores = Happened("write")

\* While a thread of the server lives every chunk is parsed and traced again and
\* again, also behind chunks that made other threads fail.
Alive == server.failed < ServerThreads
Drains == []<>(~Alive \/ (sent = <<>> /\ traces = <<>>))
=============================================================================
