-------------------------------- MODULE Wire --------------------------------
(***************************************************************************)
(* The bytes between QEMU and the server: the reports of mmap, munmap and  *)
(* system calls (cannoli_internals.rs) and parse_payload (cannoli), which  *)
(* turns a chunk back into events.  The packets of the hooks in generated  *)
(* code are in Lifting.  A byte is a number, a machine word the sequence   *)
(* of its bytes, lowest first.                                             *)
(***************************************************************************)
EXTENDS Naturals, Sequences, Arch

Byte == 0 .. 255
Bytes(n) == [1 .. n -> Byte]
Words == Bytes(8)                                       \* u64, of either width's target
Widths == {4, 8}                                        \* of a target's words
Fits(v, w) == w = 4 => \A i \in 5 .. 8 : v[i] = 0       \* v is a word of w bytes

\* to_le_bytes of a number below 2^24 as a word of w bytes.
Word(n, w) == [i \in 1 .. w |-> CASE i = 1 -> n % 256
                                   [] i = 2 -> (n \div 256) % 256
                                   [] i = 3 -> (n \div 65536) % 256
                                   [] OTHER -> 0]

Field(b, at, w) == SubSeq(b, at + 1, at + w)                      \* b[at..at + w]
Low(b, w) == IF Len(b) < w THEN b ELSE Field(b, 0, w)   \* "as u8", "as u32", b[..w]
U64(b) == [i \in 1 .. 8 |-> IF i <= Len(b) THEN b[i] ELSE 0]      \* "as u64"

\* A word as a length.  A buffer has 2^18 bytes: from 2^24 on all are alike.
Huge == 16777216
Length(b) == IF \E i \in 4 .. Len(b) : b[i] # 0 THEN Huge
             ELSE b[1] + 256 * b[2] + 65536 * b[3]

From(b, n) == SubSeq(b, n + 1, Len(b))                            \* b[n..]
Op(n, w) == <<n + (IF w = 8 THEN 128 ELSE 0)>>                    \* an opcode

-----------------------------------------------------------------------------
(* Reports.  addr, len, off and the values of system calls are 8-byte words; *)
(* w is the width of the target's words.                                     *)

Flag(bool) == IF bool THEN <<1>> ELSE <<0>>

MmapPacket(w, r) ==
    Op(48, w) \o Low(r.addr, w) \o Low(r.len, w) \o Flag(r.anon) \o Flag(r.read)
    \o Flag(r.write) \o Flag(r.exec) \o Word(Len(r.path), 4) \o Low(r.offset, w) \o r.path

MunmapPacket(w, addr, len) == Op(49, w) \o Low(addr, w) \o Low(len, w)

SyscallParamType == [Na |-> 0, Bool |-> 1, Char |-> 2, Int |-> 3, RawPtr |-> 4]

IntParam(v) == <<SyscallParamType.Int>> \o v
\* The data at a guest address: as many bytes as the call returned.
RawPtrParam(addr, ret, data) == <<SyscallParamType.RawPtr>> \o addr \o Low(ret, 4) \o data

\* syscall_read: ret, fd, buf, count.
ReadPacket(w, num, ret, args, data) ==
    Op(80, w) \o num \o IntParam(ret) \o Word(3, 4) \o IntParam(args[1])
    \o RawPtrParam(args[2], ret, data) \o IntParam(args[3])

\* syscall_getrandom: ret, buf, buflen, flags.
GetrandomPacket(w, num, ret, args, data) ==
    Op(80, w) \o num \o IntParam(ret) \o Word(3, 4) \o RawPtrParam(args[1], ret, data)
    \o IntParam(args[2]) \o IntParam(args[3])

-----------------------------------------------------------------------------
(* parse_payload.  Reading one packet gives an event and what is left, or it *)
(* ends the parse: "error" (an Err), "panic", or "stop" (an early Ok).       *)

Event(ev, rest) == [out |-> "event", ev |-> ev, rest |-> rest]
Ends(how) == [out |-> how]


ParseExec(w, b) ==
    IF Len(b) < w THEN Ends("error")
    ELSE Event([op |-> "exec", pc |-> U64(Field(b, 0, w))], From(b, w))

\* Regs and Branch: the slice of the register block panics if it is cut.
ParseRegs(w, b) ==
    LET at == 4 + w  n == Length(Field(b, 0, 4)) IN
    IF Len(b) < at THEN Ends("error")
    ELSE IF Len(b) < at + n THEN Ends("panic")
    ELSE Event([op |-> "regs", pc |-> U64(Field(b, 4, w)), regs |-> Field(b, at, n)],
               From(b, at + n))

ParseBranch(w, b) ==
    LET at == 4 + w + 1  n == Length(Field(b, 0, 4)) IN
    IF Len(b) < at THEN Ends("error")
    ELSE IF Len(b) < at + n THEN Ends("panic")
    ELSE Event([op |-> "branch", pc |-> U64(Field(b, 4, w)), branch |-> b[at] # 0,
                regs |-> Field(b, at, n)], From(b, at + n))

\* One character of UTF-8: none is longer than it has to be, none is a
\* surrogate, and none is above 0x10ffff.
Continuation == 128 .. 191
Utf8Char(c) ==
    \/ Len(c) = 1 /\ c[1] < 128
    \/ Len(c) = 2 /\ c[1] \in 194 .. 223 /\ c[2] \in Continuation
    \/ /\ Len(c) = 3 /\ c[1] \in 224 .. 239 /\ {c[2], c[3]} \subseteq Continuation
       /\ (c[1] = 224 => c[2] >= 160) /\ (c[1] = 237 => c[2] < 160)
    \/ /\ Len(c) = 4 /\ c[1] \in 240 .. 244 /\ {c[2], c[3], c[4]} \subseteq Continuation
       /\ (c[1] = 240 => c[2] >= 144) /\ (c[1] = 244 => c[2] < 144)

\* core::str::from_utf8: the bytes up to n are characters, one after the other.
Utf8(path) ==
    LET upto[n \in 0 .. Len(path)] ==
          n = 0 \/ \E k \in 1 .. 4 :
                      k <= n /\ Utf8Char(SubSeq(path, n - k + 1, n)) /\ upto[n - k]
    IN upto[Len(path)]

\* A path that is cut is an error here: mmap uses get, not a slice.
ParseMmap(w, b) ==
    LET flags == 2 * w  at == 3 * w + 8
        n == Length(Field(b, flags + 4, 4))
        path == Field(b, at, n)
    IN IF Len(b) < at \/ Len(b) < at + n \/ ~Utf8(path) THEN Ends("error")
       ELSE Event([op |-> "mmap", addr |-> U64(Field(b, 0, w)), len |-> U64(Field(b, w, w)),
                   anon |-> b[flags + 1] # 0, read |-> b[flags + 2] # 0,
                   write |-> b[flags + 3] # 0, exec |-> b[flags + 4] # 0, path |-> path,
                   offset |-> U64(Field(b, flags + 8, w))], From(b, at + n))

ParseMunmap(w, b) ==
    IF Len(b) < 2 * w THEN Ends("error")
    ELSE Event([op |-> "munmap", addr |-> U64(Field(b, 0, w)), len |-> U64(Field(b, w, w))],
               From(b, 2 * w))

ParseAccess(op, w, size, b) ==
    IF Len(b) < 2 * w + size THEN Ends("error")
    ELSE Event([op |-> op, pc |-> U64(Field(b, w + size, w)), addr |-> U64(Field(b, 0, w)),
                val |-> U64(Field(b, w, size)), size |-> size], From(b, 2 * w + size))

\* SyscallParam::from: every shortage is an unwrap or a slice that panics.
Param(b) ==
    IF b = <<>> THEN Ends("panic")
    ELSE LET r == Tail(b)  n == Length(Field(r, 8, 4)) IN
         CASE b[1] = SyscallParamType.Na -> Event([type |-> b[1]], r)
           [] b[1] \in {SyscallParamType.Bool, SyscallParamType.Char} /\ Len(r) >= 1 ->
                Event([type |-> b[1], val |-> r[1]], Tail(r))
           [] b[1] = SyscallParamType.Int /\ Len(r) >= 8 ->
                Event([type |-> b[1], val |-> Field(r, 0, 8)], From(r, 8))
           [] b[1] = SyscallParamType.RawPtr /\ Len(r) >= 12 /\ Len(r) >= 12 + n ->
                Event([type |-> b[1], addr |-> Field(r, 0, 8), data |-> Field(r, 12, n)],
                      From(r, 12 + n))
           [] OTHER -> Ends("panic")

\* The parameters, one after the other.
NextParam(q) ==
    IF q.out # "event" THEN q
    ELSE LET v == Param(q.rest) IN
         IF v.out # "event" THEN v ELSE Event(Append(q.ev, v.ev), v.rest)

Params(count, b) ==
    LET upto[k \in 0 .. count] ==
          IF k = 0 THEN Event(<<>>, b) ELSE NextParam(upto[k - 1])
    IN upto[count]

\* A number the target's extension does not handle ends the parse with Ok.
ParseSyscall(feature, b) ==
    IF Len(b) < 4 THEN Ends("error")
    ELSE LET num == HostSyscallNum(feature, Length(Field(b, 0, 4)))
             ret == Param(From(b, 4)) IN
         IF num = "NotHandled" THEN Ends("stop")
         ELSE IF ret.out # "event" THEN ret
         ELSE IF Len(ret.rest) < 4 THEN Ends("error")
         ELSE LET p == Params(Length(Field(ret.rest, 0, 4)), From(ret.rest, 4)) IN
              IF p.out # "event" THEN p
              ELSE Event([op |-> "syscall", num |-> num, ret |-> ret.ev,
                          params |-> p.ev], p.rest)

\* One turn of the loop: the opcode, whose top bit is the target's width.
ParsePacket(feature, b) ==
    LET w == IF b[1] >= 128 THEN 8 ELSE 4
        op == b[1] % 128
        r == Tail(b)
    IN CASE op = 0 -> ParseExec(w, r)
         [] op = 1 -> ParseRegs(w, r)
         [] op = 64 -> ParseBranch(w, r)
         [] op = 48 -> ParseMmap(w, r)
         [] op = 49 -> ParseMunmap(w, r)
         [] op = 80 -> ParseSyscall(feature, r)
         [] op \in {17, 18, 20, 24} -> ParseAccess("read", w, op - 16, r)
         [] op \in {33, 34, 36, 40} -> ParseAccess("write", w, op - 32, r)
         [] OTHER -> Ends("error")

\* The whole payload: the events up to its end, or up to what ended the parse.
\* left[n] stands for the last n bytes.
Parsed(feature, b) ==
    LET left[n \in 0 .. Len(b)] ==
          IF n = 0 THEN [out |-> "ok", evs |-> <<>>]
          ELSE LET p == ParsePacket(feature, From(b, Len(b) - n)) IN
               IF p.out # "event" THEN [out |-> p.out, evs |-> <<>>]
               ELSE LET q == left[Len(p.rest)] IN [out |-> q.out, evs |-> <<p.ev>> \o q.evs]
    IN left[Len(b)]
=============================================================================
