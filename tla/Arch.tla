-------------------------------- MODULE Arch --------------------------------
(***************************************************************************)
(* What the server knows of targets: the architecture a connection names   *)
(* (cannoli), and the registers and system call numbers of the target the  *)
(* extension arch was compiled for.                                        *)
(***************************************************************************)
EXTENDS Naturals, Sequences, TLC

\* enum Architecture, in order: the position is what crosses the socket.
Architecture ==
    <<"aarch64", "aarch64_be", "alpha", "armv5teb", "armv5tel", "cris", "hexagon",
      "i386", "i686", "m68k", "microblaze", "mips", "mips64", "nios2", "openrisc",
      "parisc", "ppc", "ppc64", "ppc64le", "riscv32", "riscv64", "s390x", "sh4",
      "sparc", "sparc64", "x86_64", "xtensa">>

\* From<i32>, for the numbers it does not panic on.
FromI32 == [i \in 0 .. Len(Architecture) - 1 |-> Architecture[i + 1]]

\* from_cstr: the value of the enum QEMU's name stands for.
FromCstr(name) == CHOOSE i \in DOMAIN FromI32 : FromI32[i] = name

\* Architecture::bitness, in bytes.
Bitness(arch) ==
    IF arch \in {"aarch64", "aarch64_be", "armv5teb", "armv5tel", "mips64", "ppc64",
                 "ppc64le", "riscv64", "sparc64", "x86_64"} THEN 8 ELSE 4

-----------------------------------------------------------------------------
(* extensions/arch.  Registers are numbered from 0, as in enum MipsReg etc. *)

\* Mutant: the return address is taken from $fp.
mips_regs_fp == [width |-> 4, args |-> <<4, 5, 6, 7>>, ret_addr |-> 30, ret_val |-> 2, sp |-> 29]

mips_regs == [width |-> 4, args |-> <<4, 5, 6, 7>>, ret_addr |-> 31, ret_val |-> 2, sp |-> 29]
armv5tel_regs == [width |-> 4, args |-> <<0, 1, 2, 3>>, ret_addr |-> 14, ret_val |-> 0, sp |-> 13]
aarch64_regs == [width |-> 8, args |-> <<0, 1, 2, 3, 4, 5, 6, 7>>, ret_addr |-> 30,
                 ret_val |-> 0, sp |-> 31]

\* TargetSyscallNum::from; the 32-bit Arm extension and a build without a
\* target define numbers too, but their from handles none.
mips_syscalls == (4003 :> "Read") @@ (4353 :> "Getrandom")
aarch64_syscalls == (63 :> "Read") @@ (278 :> "Getrandom")
armv5tel_syscalls == <<>>
default_syscalls == <<>>

\* The module a build with this feature uses.
Extension == [mips     |-> [regs |-> mips_regs, syscalls |-> mips_syscalls],
              armv5tel |-> [regs |-> armv5tel_regs, syscalls |-> armv5tel_syscalls],
              aarch64  |-> [regs |-> aarch64_regs, syscalls |-> aarch64_syscalls],
              default  |-> [syscalls |-> default_syscalls]]

\* HostSyscallNum::from(TargetSyscallNum::from(num)).
HostSyscallNum(feature, num) ==
    LET known == Extension[feature].syscalls IN
    IF num \in DOMAIN known THEN known[num] ELSE "NotHandled"

\* get_mips_reg_le, get_arm_reg_le, get_aarch64_reg_le
get_reg_le(regs, r, width) == SubSeq(regs, r * width + 1, (r + 1) * width)

\* RegState::new; the functions of a build without a target panic.
RegState(feature, regs) ==
    LET e == Extension[feature].regs
        reg(r) == get_reg_le(regs, r, e.width)
    IN [args |-> [i \in 1 .. 4 |-> reg(e.args[i])], ret_addr |-> reg(e.ret_addr),
        ret_val |-> reg(e.ret_val), sp |-> reg(e.sp)]
=============================================================================
