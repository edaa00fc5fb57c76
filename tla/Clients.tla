------------------------------ MODULE Clients ------------------------------
(***************************************************************************)
(* The programs under src/examples: which hooks each asks the jitter for   *)
(* (its library), what its callbacks push to the trace, in parallel and    *)
(* per chunk, and what its trace() does with the traces, in order.         *)
(***************************************************************************)
EXTENDS Naturals, Sequences, FiniteSets, FiniteSetsExt, SequencesExt, TLC, Wire

CONSTANTS Symbols,     \* symbols.txt in the order of the file: <<address, name>>
          Readelf,     \* of a path where it succeeds: <<offset, address>> of each LOAD
          Nm,          \* of a path where it succeeds: <<address, name>> in order
          Garbled      \* paths where a tool does not run, or says what cannot be read

ASSUME SymbolsAssumption == Symbols \in Seq(Nat \X STRING)

Programs == {"symbolizer", "coverage", "backtrace", "benchmark", "visualization", "regtrace"}

-----------------------------------------------------------------------------
(* Libraries: hook_inst, hook_mem, hook_user_syscall. *)

jitter_always == [inst |-> "Always", mem |-> TRUE, syscall |-> TRUE]
coverage_lib == [inst |-> "Once", mem |-> FALSE, syscall |-> FALSE]
symbolizer_lib == [inst |-> "Always", mem |-> TRUE, syscall |-> FALSE]
regtrace_lib == [inst |-> "Register", mem |-> FALSE, syscall |-> FALSE]
backtrace_lib == [inst |-> "Branch", mem |-> FALSE, syscall |-> FALSE]

\* An address as a number, for addresses below 2^24.
Num(b) == b[1] + 256 * b[2] + 65536 * b[3]

-----------------------------------------------------------------------------
(* resolve, of the symbolizer and the backtrace. *)

\* sort_by_key: by address, symbols at the same one as in the file.
SymbolTable ==
    LET order == CHOOSE p \in Bijection(DOMAIN Symbols, DOMAIN Symbols) :
                    \A i, j \in DOMAIN Symbols : i < j =>
                        \/ Symbols[p[i]][1] < Symbols[p[j]][1]
                        \/ Symbols[p[i]][1] = Symbols[p[j]][1] /\ p[i] < p[j]
    IN [i \in DOMAIN Symbols |-> Symbols[order[i]]]

\* Mutant: the position of the insertion is used as that of the symbol below.
resolve_above(addr) ==
    LET pos == Cardinality({i \in DOMAIN SymbolTable : SymbolTable[i][1] < addr})
        exact == {i \in DOMAIN SymbolTable : SymbolTable[i][1] = addr}
    IN IF exact # {} THEN [addr |-> addr, symbol |-> SymbolTable[Max(exact)][2], offset |-> 0]
       ELSE IF pos = 0 \/ pos = Len(SymbolTable)
       THEN [addr |-> addr, symbol |-> "<unknown>", offset |-> addr]
       ELSE [addr |-> addr, symbol |-> SymbolTable[pos + 1][2],
             offset |-> SymbolTable[pos + 1][1] - addr]

\* binary_search_by_key gives a symbol at the address (any one of several), or
\* the position where one would be inserted.
resolve(addr) ==
    LET pos == Cardinality({i \in DOMAIN SymbolTable : SymbolTable[i][1] < addr})
        exact == {i \in DOMAIN SymbolTable : SymbolTable[i][1] = addr}
    IN IF exact # {} THEN [addr |-> addr, symbol |-> SymbolTable[Max(exact)][2], offset |-> 0]
       ELSE IF pos > 0 THEN [addr |-> addr, symbol |-> SymbolTable[pos][2],
                             offset |-> addr - SymbolTable[pos][1]]
       ELSE [addr |-> addr, symbol |-> "<unknown>", offset |-> addr]

is_entry(sym) == sym.offset = 0 /\ sym.symbol # "<unknown>"

-----------------------------------------------------------------------------
(* Callbacks: the entries an event adds to the trace of its chunk.  An event *)
(* whose callback a client leaves at its default adds none.                  *)

symbolizer_event(ev) ==
    CASE ev.op = "exec" -> <<[op |-> "exec", pc |-> resolve(Num(ev.pc))]>>
      [] ev.op \in {"read", "write"} ->
           <<[op |-> ev.op, pc |-> resolve(Num(ev.pc)), addr |-> resolve(Num(ev.addr)),
              val |-> ev.val, size |-> ev.size]>>
      [] OTHER -> <<>>

\* Coverage::mmap looks at mappings of a file from its beginning.
FromStart(ev) == ~ev.anon /\ ev.offset = Word(0, 8)

\* The LOAD sections at offset 0, of which the first gives the base address.
Bases(path) == {i \in DOMAIN Readelf[path] : Readelf[path][i][1] = 0}
Base(path) == Readelf[path][Min(Bases(path))][2]

\* Output that does not parse and a file without a base address panic.
Unreadable(path) == path \in Garbled \/ (path \in DOMAIN Readelf /\ Bases(path) = {})
Readable(path) == path \in DOMAIN Readelf /\ Bases(path) # {} /\ path \in DOMAIN Nm

\* The symbols of a file that is mapped at an address; of several at the same
\* one, the map keeps the last.
FileSymbols(path, at) ==
    LET named == {i \in DOMAIN Nm[path] :
                    /\ Nm[path][i][1] >= Base(path)
                    /\ \A j \in DOMAIN Nm[path] : j > i => Nm[path][j][1] # Nm[path][i][1]}
    IN {<<at + Nm[path][i][1] - Base(path), path, Nm[path][i][2]>> : i \in named}
AddSymbols(ev) == [op |-> "add", syms |-> FileSymbols(ev.path, Num(ev.addr))]

\* Mutant: nothing is done about munmap.
coverage_event_keeping(ev) ==
    CASE ev.op = "exec" -> <<[op |-> "exec", pc |-> Num(ev.pc)]>>
      [] ev.op = "mmap" /\ FromStart(ev) /\ Readable(ev.path) -> <<AddSymbols(ev)>>
      [] OTHER -> <<>>

coverage_event(ev) ==
    CASE ev.op = "exec" -> <<[op |-> "exec", pc |-> Num(ev.pc)]>>
      [] ev.op = "mmap" /\ FromStart(ev) /\ Readable(ev.path) -> <<AddSymbols(ev)>>
      [] ev.op = "munmap" -> <<[op |-> "remove", base |-> Num(ev.addr), len |-> Num(ev.len)]>>
      [] OTHER -> <<>>

\* $31 of a block of 4-byte registers, whatever the target is.
backtrace_event(ev) ==
    IF ev.op # "branch" THEN <<>>
    ELSE <<[op |-> "branch", branch |-> ev.branch, pc |-> resolve(Num(ev.pc)),
            ra |-> Num(SubSeq(ev.regs, 31 * 4 + 1, 31 * 4 + 4))]>>

benchmark_event(ev) == IF ev.op = "exec" THEN <<[op |-> "exec"]>> ELSE <<>>

visualization_event(ev) ==
    CASE ev.op = "exec" -> <<[op |-> "instr"]>>
      [] ev.op = "read" -> <<[op |-> "load", addr |-> Low(ev.addr, 4)]>>
      [] ev.op = "write" -> <<[op |-> "store", addr |-> Low(ev.addr, 4)]>>
      [] OTHER -> <<>>

\* Callbacks that panic, in the thread that parses the chunk: regtrace has room
\* for 32 registers of 4 bytes, backtrace slices the block, coverage unwraps what
\* it learns of a file.
Panics(client, ev) ==
    \/ client = "regtrace" /\ ev.op = "regs" /\ Len(ev.regs) \div 4 > 32
    \/ client = "backtrace" /\ ev.op = "branch" /\ Len(ev.regs) < 32 * 4
    \/ client = "coverage" /\ ev.op = "mmap" /\ FromStart(ev) /\ Unreadable(ev.path)

Callback(client, ev) ==
    CASE client = "symbolizer" -> symbolizer_event(ev)
      [] client = "coverage" -> coverage_event(ev)
      [] client = "backtrace" -> backtrace_event(ev)
      [] client = "benchmark" -> benchmark_event(ev)
      [] client = "visualization" -> visualization_event(ev)
      [] client = "regtrace" -> <<>>

\* The trace of a chunk: what the callbacks of its events push, in order.
Pushed(client, evs) ==
    LET upto[n \in 0 .. Len(evs)] ==
          IF n = 0 THEN <<>> ELSE upto[n - 1] \o Callback(client, evs[n])
    IN upto[Len(evs)]

-----------------------------------------------------------------------------
(* trace(): one entry after the other. *)

\* What the symbolizer prints.
symbolizer_trace(st, e) == [st EXCEPT !.out = Append(@, e)]

\* Coverage: the nearest symbol at or below, in the table as it is by then.
coverage_trace(st, e) ==
    LET below == {s \in st.symbols : s[1] <= e.pc}
        nearest == {s \in below : \A t \in below : t[1] <= s[1]}
    IN CASE e.op = "exec" /\ below = {} ->
              [st EXCEPT !.coverage = @ \cup {<<<<>>, "<unknown>", e.pc>>}]
         [] e.op = "exec" /\ below # {} ->
              [st EXCEPT !.coverage = @ \cup {<<s[2], s[3], e.pc - s[1]>> : s \in nearest}]
         [] e.op = "add" ->
              [st EXCEPT !.symbols = {s \in @ : \A t \in e.syms : s[1] # t[1]} \cup e.syms]
         [] e.op = "remove" ->
              [st EXCEPT !.symbols = {s \in @ : s[1] < e.base \/ s[1] >= e.base + e.len}]

\* push_backtrace, push_return_stack
Entered(st, e) == [st EXCEPT !.backtrace = Append(@, <<e.pc.symbol, e.pc.addr>>),
                             !.return_stack = Append(@, e.ra)]

\* is_return, pop, and again, for a branch without link shares its return
\* address: what is left is up to the last frame that returns elsewhere.
Unwind(st, pc) ==
    LET others == {i \in DOMAIN st.return_stack : st.return_stack[i] # pc}
        popped == Len(st.return_stack) - Max({0} \cup others)
    IN [st EXCEPT !.backtrace = SubSeq(@, 1, Len(@) - popped),
                  !.return_stack = SubSeq(@, 1, Len(@) - popped)]

\* Mutant: one frame is popped for each return.
backtrace_trace_single(st, e) ==
    LET entered == IF is_entry(e.pc) THEN Entered(st, e) ELSE st
        pop == entered.return_stack # <<>> /\ Last(entered.return_stack) = e.pc.addr
        left == IF pop THEN [entered EXCEPT !.backtrace = Front(@), !.return_stack = Front(@)]
                       ELSE entered
    IN [(IF st.branch_flag THEN left ELSE st) EXCEPT !.branch_flag = e.branch]

\* The instruction after a branch may enter a function, or return from some.
backtrace_trace(st, e) ==
    LET entered == IF is_entry(e.pc) THEN Entered(st, e) ELSE st IN
    [(IF st.branch_flag THEN Unwind(entered, e.pc.addr) ELSE st) EXCEPT
          !.branch_flag = e.branch]

\* set_pixel: 800 * 600 pixels of 4 bytes for the addresses below 2^28; an
\* index past the end panics.
ADDR_MAX == 16                        \* 0x1000_0000, as the top byte of an address
TracePanics(client, trace) ==
    client = "visualization" /\ \E i \in DOMAIN trace :
        trace[i].op \in {"load", "store"} /\ trace[i].addr[4] >= ADDR_MAX

visualization_trace(st, e) ==
    CASE e.op = "load" -> [st EXCEPT !.loads = @ + 1]
      [] e.op = "store" -> [st EXCEPT !.stores = @ + 1]
      [] e.op = "instr" -> [st EXCEPT !.instrs = @ + 1]

InitialState(client) ==
    CASE client = "coverage" -> [symbols |-> {}, coverage |-> {}]
      [] client = "backtrace" -> [backtrace |-> <<>>, return_stack |-> <<>>, branch_flag |-> FALSE]
      [] client = "benchmark" -> [instructions |-> 0]
      [] client = "visualization" -> [loads |-> 0, stores |-> 0, instrs |-> 0]
      [] OTHER -> [out |-> <<>>]

TraceEntry(client, st, e) ==
    CASE client = "coverage" -> coverage_trace(st, e)
      [] client = "backtrace" -> backtrace_trace(st, e)
      [] client = "benchmark" -> [st EXCEPT !.instructions = @ + 1]
      [] client = "visualization" -> visualization_trace(st, e)
      [] client = "symbolizer" -> symbolizer_trace(st, e)
      [] client = "regtrace" -> st

\* trace() of a whole chunk.
Traced(client, st, trace) ==
    LET after[n \in 0 .. Len(trace)] ==
          IF n = 0 THEN st ELSE TraceEntry(client, after[n - 1], trace[n])
    IN after[Len(trace)]
=============================================================================
