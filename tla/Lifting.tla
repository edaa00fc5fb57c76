------------------------------ MODULE Lifting ------------------------------
(***************************************************************************)
(* Generation of hooks: lift_instruction and lift_memop choose a template  *)
(* of x86 code and patch the placeholders in it; QEMU puts the result in   *)
(* front of an instruction or next to a memory access.  A template is a    *)
(* sequence of segments; a segment Code stands for instructions, the       *)
(* others are the immediates that end up in the trace or are patched.      *)
(***************************************************************************)
EXTENDS Naturals, Sequences, SequencesExt, Wire

Code == <<256>>                     \* no byte: never part of a placeholder
REPLACE_WITH_FLUSH == <<253, 120, 76, 185, 209, 44, 62, 160>>
REPLACE_WITH_PC == <<132, 227, 207, 243, 123, 224, 95, 204>>
REPLACE_WITH_REGHOOK_OFFSET == <<163, 136, 204, 63>>
REPLACE_WITH_REGHOOK_SIZE == <<33, 30, 42, 101>>

Placeholders == {REPLACE_WITH_FLUSH, REPLACE_WITH_PC, Low(REPLACE_WITH_PC, 4),
                 REPLACE_WITH_REGHOOK_OFFSET, REPLACE_WITH_REGHOOK_SIZE}

\* Windows of the placeholder's size; the placeholder may be in one or more.
Windows(buf, magic) == 1 .. (Len(buf) + 1) - Len(magic)
Matches(buf, magic, k) == Field(buf, k - 1, Len(magic)) = magic
Occurs(buf, magic) == \E k \in Windows(buf, magic) : Matches(buf, magic, k)

Replaced(buf, k, new) ==
    [i \in DOMAIN buf |-> IF i \in k .. k + Len(new) - 1 THEN new[i - k + 1] ELSE buf[i]]

\* Mutant: patch stops at the first segment with the placeholder.
PatchOnce(segs, magic, new) ==
    LET first == Min({k \in DOMAIN segs : Occurs(segs[k], magic)}) IN
    [segs EXCEPT ![first] =
        Replaced(@, Min({k \in Windows(@, magic) : Matches(@, magic, k)}), new)]

\* patch: every window that equals the placeholder, from left to right.
Patched(buf, magic, new) ==
    LET last == (Len(buf) + 1) - Len(magic)
        upto[k \in 0 .. last] ==
          IF k = 0 THEN buf
          ELSE LET b == upto[k - 1] IN
               IF Matches(b, magic, k) THEN Replaced(b, k, new) ELSE b
    IN IF last < 1 THEN buf ELSE upto[last]

\* Instructions stand between any two segments: no window spans them.
patch(segs, magic, new) == [k \in DOMAIN segs |-> Patched(segs[k], magic, new)]

-----------------------------------------------------------------------------
(* Templates. *)

create_insthook(w) ==
    <<Code, REPLACE_WITH_FLUSH, Code, Op(0, w), Code, Low(REPLACE_WITH_PC, w), Code>>

create_reghook(w) ==
    <<Code, REPLACE_WITH_REGHOOK_SIZE, Code, REPLACE_WITH_FLUSH, Code, Op(1, w), Code,
      REPLACE_WITH_REGHOOK_SIZE, Code, Low(REPLACE_WITH_PC, w), Code, <<>>, Code,
      REPLACE_WITH_REGHOOK_OFFSET, Code, REPLACE_WITH_REGHOOK_SIZE, Code,
      REPLACE_WITH_REGHOOK_SIZE, Code>>

create_branchhook(w, is_branch) ==
    [create_reghook(w) EXCEPT ![6] = Op(64, w), ![12] = Flag(is_branch)]

\* lift_instruction: the hook's segments, patched; Never is no hook.
Template(type, w, bb_end) ==
    CASE type \in {"Always", "Once"} -> create_insthook(w)
      [] type = "Register" -> create_reghook(w)
      [] type = "Branch" -> create_branchhook(w, bb_end)

lift_instruction(w, pc, bb_end, type, flush, gprs) ==
    LET segs == Template(type, w, bb_end)
        code == patch(patch(segs, Low(REPLACE_WITH_PC, w), Low(pc, w)),
                      REPLACE_WITH_FLUSH, flush)
        regs == patch(patch(code, REPLACE_WITH_REGHOOK_OFFSET, Word(gprs.offset, 4)),
                      REPLACE_WITH_REGHOOK_SIZE, Word(gprs.size, 4))
    IN IF type \in {"Register", "Branch"} THEN regs ELSE code

\* What a hook does when it runs: it makes room, calling flush if there is not
\* enough, and logs a packet.
RunInst(code, w) == [room |-> 1 + w, flush |-> code[2], packet |-> code[4] \o code[6]]

\* Register and branch hooks copy the block from env: rep movsb.
RunRegs(code, w, env) ==
    LET offset == Length(code[14])  size == Length(code[16]) IN
    [room |-> 1 + 4 + w + Len(code[12]) + Length(code[2]), flush |-> code[4],
     packet |-> Low(code[6] \o code[8] \o code[10] \o code[12]
                      \o Low(From(env, offset), size),
                    1 + 4 + w + Len(code[12]) + Length(code[18]))]

-----------------------------------------------------------------------------
(* Memory hooks: one template for each pair of host registers, in a table.  *)

Registers(names) == [r \in 0 .. 15 |-> names[r + 1]]

Reg8 == Registers(<<"al", "cl", "dl", "bl", "spl", "bpl", "sil", "dil", "r8b", "r9b",
                    "r10b", "r11b", "r12b", "r13b", "r14b", "r15b">>)
Reg16 == Registers(<<"ax", "cx", "dx", "bx", "sp", "bp", "si", "di", "r8w", "r9w",
                     "r10w", "r11w", "r12w", "r13w", "r14w", "r15w">>)
Reg32 == Registers(<<"eax", "ecx", "edx", "ebx", "esp", "ebp", "esi", "edi", "r8d",
                     "r9d", "r10d", "r11d", "r12d", "r13d", "r14d", "r15d">>)
Reg64 == Registers(<<"rax", "rcx", "rdx", "rbx", "rsp", "rbp", "rsi", "rdi", "r8", "r9",
                     "r10", "r11", "r12", "r13", "r14", "r15">>)

\* The assembler's reading of a register's name: its width and its number.
RegisterNames ==
    [w \in {1, 2, 4, 8} |->
        CASE w = 1 -> Reg8 [] w = 2 -> Reg16 [] w = 4 -> Reg32 [] w = 8 -> Reg64]
Width(name) == CHOOSE w \in {1, 2, 4, 8} : \E r \in 0 .. 15 : RegisterNames[w][r] = name
Number(name) == CHOOSE r \in 0 .. 15 : \E w \in {1, 2, 4, 8} : RegisterNames[w][r] = name

\* cannoli_memhook_$access_$data_$addr
Label(access, data, addr) == [access |-> access, data |-> data, addr |-> addr]

Entries(access, data, addr) ==
    [d \in 0 .. 15 |-> [a \in 0 .. 15 |-> Label(access, data[d], addr[a])]]

Read8_32 == Entries("read", Reg8, Reg32)
Write8_32 == Entries("write", Reg8, Reg32)
Read16_32 == Entries("read", Reg16, Reg32)
Write16_32 == Entries("write", Reg16, Reg32)
Read32_32 == Entries("read", Reg32, Reg32)
Write32_32 == Entries("write", Reg32, Reg32)
Read64_32 == Entries("read", Reg64, Reg32)
Write64_32 == Entries("write", Reg64, Reg32)
Read8_64 == Entries("read", Reg8, Reg64)
Write8_64 == Entries("write", Reg8, Reg64)
Read16_64 == Entries("read", Reg16, Reg64)
Write16_64 == Entries("write", Reg16, Reg64)
Read32_64 == Entries("read", Reg32, Reg64)
Write32_64 == Entries("write", Reg32, Reg64)
Read64_64 == Entries("read", Reg64, Reg64)
Write64_64 == Entries("write", Reg64, Reg64)

MEMHOOK_TABLE ==
    << << <<Read8_32, Write8_32>>, <<Read16_32, Write16_32>>,
          <<Read32_32, Write32_32>>, <<Read64_32, Write64_32>> >>,
       << <<Read8_64, Write8_64>>, <<Read16_64, Write16_64>>,
          <<Read32_64, Write32_64>>, <<Read64_64, Write64_64>> >> >>

\* create_memhook: what the label's template logs.
create_memhook(label) ==
    <<Code, REPLACE_WITH_FLUSH, Code,
      Op((IF label.access = "read" THEN 16 ELSE 32) + Width(label.data),
         Width(label.addr)),
      Code, Low(REPLACE_WITH_PC, Width(label.addr)), Code>>

\* Mutant: the registers are looked up in the wrong order.
lift_memop_swapped(w, pc, is_write, data_reg, addr_reg, memop, flush) ==
    LET label == MEMHOOK_TABLE[w \div 4][memop + 1][IF is_write THEN 2 ELSE 1]
                              [addr_reg][data_reg]
    IN [label |-> label,
        code |-> patch(patch(create_memhook(label), Low(REPLACE_WITH_PC, w), Low(pc, w)),
                       REPLACE_WITH_FLUSH, flush)]

lift_memop(w, pc, is_write, data_reg, addr_reg, memop, flush) ==
    LET label == MEMHOOK_TABLE[w \div 4][memop + 1][IF is_write THEN 2 ELSE 1]
                              [data_reg][addr_reg]
    IN [label |-> label,
        code |-> patch(patch(create_memhook(label), Low(REPLACE_WITH_PC, w), Low(pc, w)),
                       REPLACE_WITH_FLUSH, flush)]

\* A memory hook logs the low bytes of two host registers.  For a 64-bit target
\* it needs r14 to store the program counter.
RunMem(hook, host) ==
    LET w == Width(hook.label.addr)  size == Width(hook.label.data) IN
    [room |-> 2 * w + size + 1, flush |-> hook.code[2],
     packet |-> hook.code[4] \o Low(host[Number(hook.label.addr)], w)
                \o Low(host[Number(hook.label.data)], size) \o hook.code[6],
     host |-> IF w = 8 THEN [host EXCEPT ![14] = hook.code[6]] ELSE host]
=============================================================================
