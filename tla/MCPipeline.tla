----------------------------- MODULE MCPipeline -----------------------------
(* Small instances of Pipeline for TLC: one behaviour for each client. *)
EXTENDS Pipeline

Setup(arch, width, program, library, start, high) ==
    [arch |-> arch, feature |-> arch, width |-> width, client |-> program, lib |-> library,
     start |-> start, high |-> high]
Mips(program, library) == Setup("mips", 4, program, library, 4100, <<0, 0, 0, 0, 0>>)
Aarch64(program, library, high) == Setup("aarch64", 8, program, library, 4100, high)

MCSetups ==
    {Mips("symbolizer", jitter_always), Mips("coverage", coverage_lib),
     Mips("backtrace", backtrace_lib), Mips("regtrace", regtrace_lib),
     Mips("benchmark", jitter_always),
     Aarch64("visualization", symbolizer_lib, <<1, 2, 3, 4, 5>>),
     Aarch64("visualization", symbolizer_lib, <<16, 2, 3, 4, 5>>),
     Aarch64("benchmark", jitter_always, <<0, 0, 0, 0, 128>>),
     Aarch64("regtrace", regtrace_lib, <<0, 0, 0, 0, 0>>),
     Setup("armv5tel", 4, "backtrace", backtrace_lib, 4100, <<0, 0, 0, 0, 0>>),
     \* a client that stands the block of registers of any target
     Aarch64("symbolizer", regtrace_lib, <<0, 0, 0, 0, 0>>),
     Setup("armv5tel", 4, "symbolizer", backtrace_lib, 4100, <<0, 0, 0, 0, 0>>),
     \* the second $pc is 0x3fcc88a300: the placeholder of the block's offset
     Setup("aarch64", 8, "symbolizer", regtrace_lib, 8954624 - 4, <<204, 63, 0, 0, 0>>)}

MCLoadSetups == {Aarch64("visualization", symbolizer_lib, <<0, 0, 0, 0, 0>>)}

MCFunctions ==
    [symbolizer |-> {4112, 4128}, coverage |-> {4112}, backtrace |-> {4112, 4128},
     regtrace |-> {4112}, benchmark |-> {}, visualization |-> {}]
MCSymbols == << <<4128, "g">>, <<4112, "f">>, <<4112, "f_alias">> >>

libfile == <<108>>          \* paths, as bytes
binfile == <<98, 105, 110>>
utffile == <<195, 169, 226, 130, 172>>      \* two and three bytes of UTF-8
badfile == <<195, 40>>
corefile == <<99>>                          \* no LOAD at offset 0
MCReadelf == (libfile :> << <<0, 0>> >>) @@ (binfile :> << <<4096, 32>>, <<0, 64>> >>)
             @@ (corefile :> << <<4096, 0>> >>)
MCNm == (libfile :> << <<16, "alias">>, <<32, "g">>, <<16, "f">> >>)
        @@ (binfile :> << <<32, "never">>, <<64, "a">>, <<84, "b">> >>)
MCGarbled == {badfile}

Access1(write, size, data, hi, addr, at) ==
    [write |-> write, size |-> size, data |-> data, hi |-> hi, addr |-> addr, at |-> at]
Store == Access1(TRUE, 1, 7, 0, 7, 4116)          \* the address stored at itself
Store128 == Access1(TRUE, 16, 1, 2, 6, 65528)
Load128 == Access1(FALSE, 16, 1, 2, 6, 65528)
Clobber == Access1(FALSE, 2, 9, 9, 9, 255)         \* the load overwrites its address
Load == Access1(FALSE, 4, 3, 3, 15, 4200)
MCAccesses ==
    [symbolizer |-> {Store, Load}, benchmark |-> {Clobber},
     visualization |-> {Store, Clobber, Load, Store128},
     coverage |-> {}, backtrace |-> {}, regtrace |-> {}]
MCLoads == [MCAccesses EXCEPT !.visualization = {Load128, Store128}]

File(path, addr, offset) ==
    [addr |-> Word(addr, 8), len |-> Word(64, 8), anon |-> FALSE, read |-> TRUE,
     write |-> FALSE, exec |-> TRUE, path |-> path, offset |-> Word(offset, 8)]
MCMmaps ==
    [coverage |-> {File(libfile, 4096, 0), File(binfile, 4096, 0), File(corefile, 8192, 0),
                   [File(<<>>, 4096, 0) EXCEPT !.anon = TRUE]},
     benchmark |-> {File(utffile, 4096, 0), File(badfile, 4096, 0),
                    File([i \in 1 .. 60 |-> 47], 4096, 0)},
     symbolizer |-> {}, backtrace |-> {}, regtrace |-> {}, visualization |-> {}]
MCMunmaps == [MCMmaps EXCEPT !.benchmark = {},
                             !.coverage = {[addr |-> Word(a, 8), len |-> Word(64, 8)] :
                                             a \in {4096, 4097}}]

Negative == [i \in 1 .. 8 |-> 255]
Calls(nums, rets) == {[num |-> n, ret |-> r, args |-> <<Word(3, 8), Word(8192, 8), Word(300, 8)>>] :
                         n \in nums, r \in rets}
MCSyscalls ==
    [symbolizer |-> Calls({4003, 4004}, {Word(2, 8), Negative}),
     benchmark |-> Calls({4003, 4353, 278}, {Word(0, 8), Word(200, 8)}),
     coverage |-> {}, backtrace |-> {}, regtrace |-> {}, visualization |-> {}]

MCChunkSize == [Always |-> 60, Once |-> 60, Register |-> 300, Branch |-> 300]
MCMaxSteps == [symbolizer |-> 3, coverage |-> 4, backtrace |-> 4, regtrace |-> 3,
               benchmark |-> 3, visualization |-> 3]
=============================================================================
