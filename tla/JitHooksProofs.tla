--------------------------- MODULE JitHooksProofs ---------------------------
(***************************************************************************)
(* Proofs about JitHooks, for all events, sizes and capacities: generated  *)
(* code stays within the chunk, the asserts hold, and no way out of        *)
(* generated code loses what the hooks logged, except where no position is *)
(* saved, or a signal handler ran over C code that needs the saved one.    *)
(***************************************************************************)
EXTENDS JitHooks, SequenceTheorems, TLAPS

\* A buffer is active exactly in generated code and the C code it calls.  A
\* cpu_loop_exit outside may be on its way without one, and has then not found
\* the poison.
ActiveInv ==
    /\ where \in {"out", "refill", "dropped", "blocked"} => ~active
    /\ where \in {"jit", "flush", "helper", "slow"} => active
    /\ ~active => chunk = <<>>
    /\ active /\ where \in {"helper", "leaving", "exiting"} =>
          env_r12 \in {Len(chunk), Poison, Junk}
    /\ ~active /\ where = "exiting" => env_r12 # Poison \/ "signal" \in uncovered

\* What TraceKept says, without the buffer that may not be there.
KeptInv == {"signal", "slow"} \cap uncovered = {} => shipped \o chunk = executed

\* The inductive invariant.  TraceKept alone is not: it needs to know that a
\* buffer is active where jit_exit is called, and that the position jit_exit is
\* called with is the one generated code had.
IInv == TypeOK /\ ActiveInv /\ NeverPanics /\ FieldCurrent /\ KeptInv

\* A whole event is a sequence of bytes as long as its size, which fits a chunk.
LEMMA BytesType ==
    ASSUME NEW e \in Event \cup Call
    PROVE  Bytes(e) \in Seq(Byte) /\ Len(Bytes(e)) = Size[e]
           /\ Size[e] \in 1 .. ChunkSize
<1>1. Size[e] \in 1 .. ChunkSize BY HookAssumption
<1>2. \A i \in 1 .. Size[e] : <<e, i>> \in Byte BY <1>1, HookAssumption DEF Byte
<1> QED BY <1>1, <1>2, HookAssumption DEF Bytes

\* The thread starts outside generated code with nothing logged.
LEMMA InitInv == Init => IInv
<1> SUFFICES ASSUME Init PROVE IInv OBVIOUS
<1>1. <<>> \in Seq(Byte) /\ Len(<<>>) = 0 /\ <<>> \o <<>> = <<>>
  BY EmptySeq, ConcatEmptySeq
<1>2. TypeOK
  <2>1. Len(chunk) <= ChunkSize /\ env_r12 \in 0 .. ChunkSize \cup {Poison, Junk}
    BY <1>1, HookAssumption DEF Init
  <2> QED BY <1>1, <2>1 DEF Init, TypeOK
<1>3. ActiveInv BY DEF Init, ActiveInv
<1>4. NeverPanics BY DEF Init, NeverPanics
<1>5. FieldCurrent BY DEF Init, FieldCurrent
<1>6. KeptInv BY <1>1 DEF Init, KeptInv
<1> QED BY <1>2, <1>3, <1>4, <1>5, <1>6 DEF IInv

\* What the sequences of the state do under the steps below, in one place.
LEMMA Sequences ==
    ASSUME TypeOK
    PROVE  /\ shipped \o <<>> = shipped /\ executed \o <<>> = executed
           /\ SubSeq(chunk, 1, Len(chunk)) = chunk
           /\ Len(chunk) \in Nat /\ <<>> \in Seq(Byte) /\ Len(<<>>) = 0
           /\ shipped \o chunk \in Seq(Byte)
           /\ (shipped \o chunk) \o <<>> = shipped \o chunk
           /\ \A b \in Seq(Byte) :
                 /\ chunk \o b \in Seq(Byte) /\ Len(chunk \o b) = Len(chunk) + Len(b)
                 /\ executed \o b \in Seq(Byte) /\ shipped \o b \in Seq(Byte)
                 /\ shipped \o (chunk \o b) = (shipped \o chunk) \o b
<1>1. chunk \in Seq(Byte) /\ executed \in Seq(Byte) /\ shipped \in Seq(Byte)
  BY DEF TypeOK
<1>2. shipped \o chunk \in Seq(Byte) BY <1>1, ConcatProperties
<1>3. ASSUME NEW b \in Seq(Byte)
      PROVE  /\ chunk \o b \in Seq(Byte) /\ Len(chunk \o b) = Len(chunk) + Len(b)
             /\ executed \o b \in Seq(Byte) /\ shipped \o b \in Seq(Byte)
             /\ shipped \o (chunk \o b) = (shipped \o chunk) \o b
  <2>1. /\ chunk \o b \in Seq(Byte) /\ executed \o b \in Seq(Byte)
        /\ shipped \o b \in Seq(Byte)
    BY <1>1, ConcatProperties
  <2>2. Len(chunk \o b) = Len(chunk) + Len(b) BY <1>1, ConcatProperties
  <2>3. shipped \o (chunk \o b) = (shipped \o chunk) \o b BY <1>1, ConcatAssociative, SMTT(30)
  <2> QED BY <2>1, <2>2, <2>3
<1> QED BY <1>1, <1>2, <1>3, ConcatEmptySeq, SubSeqFull, LenProperties, EmptySeq

\* jit_exit at the current position sends all of the chunk.
LEMMA ExitKeeps ==
    ASSUME IInv, active, JitExit(r12)
    PROVE  /\ active' = FALSE /\ chunk' = <<>> /\ shipped' = shipped \o chunk
           /\ shipped' \in Seq(Byte) /\ shipped' \o chunk' = shipped \o chunk
<1>1. TypeOK BY DEF IInv
<1>2. r12 # Junk BY <1>1, Sequences, HookAssumption DEF r12
<1>3. active' = FALSE /\ chunk' = <<>> /\ shipped' = shipped \o SubSeq(chunk, 1, r12)
  BY <1>2 DEF JitExit, Ship
<1> QED BY <1>1, <1>3, Sequences DEF r12

\* Every step of the thread, its signals and the receiver keeps the invariant.
LEMMA StepInv == IInv /\ [Next]_vars => IInv'
<1> SUFFICES ASSUME IInv, [Next]_vars PROVE IInv' OBVIOUS
<1>0. TypeOK BY DEF IInv
<1> USE Sequences, <1>0
<1>1. CASE CpuTbExec
  <2>1. where = "out" /\ ~active BY <1>1 DEF CpuTbExec, IInv, ActiveInv
  <2>2. where' = "jit" /\ env_r12' = Poison /\ active' = TRUE /\ chunk' = <<>>
        /\ chunk = <<>>
        /\ UNCHANGED <<sent, delivered, pending, executed, shipped, uncovered>>
    BY <1>1, <2>1 DEF CpuTbExec, JitEntry, IInv, ActiveInv
  <2>3. TypeOK'
    <3>1. Len(chunk') <= ChunkSize BY <2>2, HookAssumption
    <3> QED BY <2>2, <3>1 DEF TypeOK
  <2>4. ActiveInv' BY <2>2 DEF ActiveInv
  <2>5. NeverPanics' BY <2>2 DEF NeverPanics
  <2>6. FieldCurrent' BY <2>2 DEF IInv, FieldCurrent, r12
  <2>7. KeptInv' BY <2>2 DEF IInv, KeptInv
  <2> QED BY <2>3, <2>4, <2>5, <2>6, <2>7 DEF IInv
<1>2. ASSUME NEW e \in Event, Hook(e) PROVE IInv'
  <2>1. where = "jit" /\ active BY <1>2 DEF Hook, IInv, ActiveInv
  <2>2. Bytes(e) \in Seq(Byte) /\ Len(Bytes(e)) = Size[e] /\ Size[e] \in Nat
    BY BytesType, HookAssumption
  <2>3. CASE r12 + Size[e] <= ChunkSize
    <3>1. chunk' = chunk \o Bytes(e) /\ executed' = executed \o Bytes(e)
          /\ UNCHANGED <<where, pending, active, env_r12, shipped, uncovered>>
      BY <1>2, <2>3 DEF Hook
    <3>2. TypeOK'
      <4>1. chunk' \in Seq(Byte) /\ Len(chunk') <= ChunkSize /\ executed' \in Seq(Byte)
        BY <2>2, <2>3, <3>1 DEF r12
      <4> QED BY <3>1, <4>1 DEF TypeOK
    <3>3. ActiveInv' BY <2>1, <3>1 DEF ActiveInv
    <3>4. NeverPanics' BY <2>1, <3>1 DEF NeverPanics
    <3>5. FieldCurrent' BY <2>1, <3>1 DEF IInv, FieldCurrent, r12
    <3>6. KeptInv' BY <2>2, <3>1 DEF IInv, KeptInv
    <3> QED BY <3>2, <3>3, <3>4, <3>5, <3>6 DEF IInv
  <2>4. CASE ~(r12 + Size[e] <= ChunkSize)
    <3>1. where' = "flush" /\ pending' = e
          /\ UNCHANGED <<chunk, executed, active, env_r12, shipped, uncovered>>
      BY <1>2, <2>4 DEF Hook
    <3>2. TypeOK' BY <3>1 DEF TypeOK
    <3>3. ActiveInv' BY <2>1, <3>1 DEF ActiveInv
    <3>4. NeverPanics' BY <3>1 DEF NeverPanics
    <3>5. FieldCurrent' BY <2>1, <3>1 DEF IInv, FieldCurrent
    <3>6. KeptInv' BY <3>1 DEF IInv, KeptInv
    <3> QED BY <3>2, <3>3, <3>4, <3>5, <3>6 DEF IInv
  <2> QED BY <2>3, <2>4
<1>3. CASE FlushExit
  <2>1. where = "flush" /\ active BY <1>3 DEF FlushExit, IInv, ActiveInv
  <2>2. MayExit(r12) BY <2>1, HookAssumption DEF MayExit, r12
  <2>3. JitExit(r12) /\ where' = "refill"
        /\ UNCHANGED <<pending, env_r12, executed, uncovered>>
    BY <1>3, <2>2 DEF FlushExit
  <2>4. active' = FALSE /\ chunk' = <<>> /\ shipped' \in Seq(Byte)
        /\ shipped' \o chunk' = shipped \o chunk
    BY <2>1, <2>3, ExitKeeps
  <2>5. TypeOK'
    <3>1. Len(chunk') <= ChunkSize BY <2>4, HookAssumption
    <3> QED BY <1>3, <2>1, <2>3, <2>4, <3>1 DEF TypeOK
  <2>6. ActiveInv' BY <2>3, <2>4 DEF ActiveInv
  <2>7. NeverPanics' BY <2>3 DEF NeverPanics
  <2>8. FieldCurrent' BY <2>1, <2>3 DEF IInv, FieldCurrent
  <2>9. KeptInv' BY <2>3, <2>4 DEF IInv, KeptInv
  <2> QED BY <2>5, <2>6, <2>7, <2>8, <2>9 DEF IInv
<1>4. CASE FlushEntry
  <2>1. where = "refill" /\ ~active /\ chunk = <<>> /\ pending \in Event
    BY <1>4 DEF FlushEntry, IInv, ActiveInv, TypeOK
  <2>2. where' = "jit" /\ active' = TRUE /\ chunk' = Bytes(pending)
        /\ pending' = None /\ executed' = executed \o Bytes(pending)
        /\ UNCHANGED <<env_r12, shipped, uncovered>>
    BY <1>4, <2>1 DEF FlushEntry, JitEntry
  <2>3. Bytes(pending) \in Seq(Byte) /\ Len(Bytes(pending)) <= ChunkSize
    BY <2>1, BytesType, HookAssumption
  <2>4. TypeOK' BY <2>2, <2>3 DEF TypeOK
  <2>5. ActiveInv' BY <2>2 DEF ActiveInv
  <2>6. NeverPanics' BY <2>2 DEF NeverPanics
  <2>7. FieldCurrent' BY <2>1, <2>2 DEF IInv, FieldCurrent
  <2>8. KeptInv' BY <2>1, <2>2, <2>3 DEF IInv, KeptInv
  <2> QED BY <2>4, <2>5, <2>6, <2>7, <2>8 DEF IInv
<1>5. CASE Epilogue
  <2>1. where = "jit" /\ active BY <1>5 DEF Epilogue, IInv, ActiveInv
  <2>2. MayExit(r12) BY <2>1, HookAssumption DEF MayExit, r12
  <2>3. JitExit(r12) /\ where' = "out"
        /\ UNCHANGED <<pending, env_r12, executed, uncovered>>
    BY <1>5, <2>2 DEF Epilogue
  <2>4. active' = FALSE /\ chunk' = <<>> /\ shipped' \in Seq(Byte)
        /\ shipped' \o chunk' = shipped \o chunk
    BY <2>1, <2>3, ExitKeeps
  <2>5. TypeOK'
    <3>1. Len(chunk') <= ChunkSize BY <2>4, HookAssumption
    <3> QED BY <1>5, <2>1, <2>3, <2>4, <3>1 DEF TypeOK
  <2>6. ActiveInv' BY <2>3, <2>4 DEF ActiveInv
  <2>7. NeverPanics' BY <2>3 DEF NeverPanics
  <2>8. FieldCurrent' BY <2>3 DEF IInv, FieldCurrent, r12
  <2>9. KeptInv' BY <2>3, <2>4 DEF IInv, KeptInv
  <2> QED BY <2>5, <2>6, <2>7, <2>8, <2>9 DEF IInv
<1>6. CASE FaultInJit
  <2>1. where = "jit" /\ active /\ where' = "leaving" /\ env_r12' = Len(chunk)
        /\ UNCHANGED <<active, chunk, pending, executed, shipped, uncovered>>
    BY <1>6 DEF FaultInJit, IInv, ActiveInv, r12
  <2>2. TypeOK'
    <3>1. env_r12' \in 0 .. ChunkSize BY <2>1, HookAssumption DEF TypeOK
    <3> QED BY <2>1, <3>1 DEF TypeOK
  <2>3. ActiveInv' BY <2>1 DEF ActiveInv
  <2>4. NeverPanics' BY <2>1 DEF NeverPanics
  <2>5. FieldCurrent' BY <2>1 DEF IInv, FieldCurrent, r12
  <2>6. KeptInv' BY <2>1 DEF IInv, KeptInv
  <2> QED BY <2>2, <2>3, <2>4, <2>5, <2>6 DEF IInv
<1>7. CASE CallHelper
  <2>1. where = "jit" /\ active /\ where' = "helper" /\ env_r12' = Len(chunk)
        /\ UNCHANGED <<active, chunk, pending, executed, shipped, uncovered>>
    BY <1>7 DEF CallHelper, IInv, ActiveInv, r12
  <2>2. TypeOK'
    <3>1. env_r12' \in 0 .. ChunkSize BY <2>1, HookAssumption DEF TypeOK
    <3> QED BY <2>1, <3>1 DEF TypeOK
  <2>3. ActiveInv' BY <2>1 DEF ActiveInv
  <2>4. NeverPanics' BY <2>1 DEF NeverPanics
  <2>5. FieldCurrent' BY <2>1 DEF IInv, FieldCurrent, r12
  <2>6. KeptInv' BY <2>1 DEF IInv, KeptInv
  <2> QED BY <2>2, <2>3, <2>4, <2>5, <2>6 DEF IInv
<1>8. CASE HelperReturns
  <2>1. where = "helper" /\ where' = "jit" /\ env_r12' = Poison
        /\ UNCHANGED <<active, chunk, pending, executed, shipped, uncovered>>
    BY <1>8 DEF HelperReturns
  <2>2. TypeOK' BY <2>1 DEF TypeOK
  <2>3. ActiveInv' BY <2>1 DEF IInv, ActiveInv
  <2>4. NeverPanics' BY <2>1 DEF NeverPanics
  <2>5. FieldCurrent' BY <2>1 DEF IInv, FieldCurrent, r12
  <2>6. KeptInv' BY <2>1 DEF IInv, KeptInv
  <2> QED BY <2>2, <2>3, <2>4, <2>5, <2>6 DEF IInv
<1>9. CASE FaultInC
  <2>1. where' = "leaving" /\ UNCHANGED <<active, chunk, pending, executed, shipped>>
    BY <1>9 DEF FaultInC
  <2>2. CASE where = "out"
    <3>1. ~active /\ env_r12' = Junk /\ uncovered' = uncovered \cup {"outside"}
      BY <1>9, <2>2 DEF FaultInC, IInv, ActiveInv
    <3>2. TypeOK' BY <2>1, <3>1 DEF TypeOK
    <3>3. ActiveInv' BY <2>1, <3>1 DEF IInv, ActiveInv
    <3>4. NeverPanics' BY <2>1 DEF NeverPanics
    <3>5. FieldCurrent' BY <2>1, <3>1 DEF FieldCurrent
    <3>6. KeptInv' BY <2>1, <3>1 DEF IInv, KeptInv
    <3> QED BY <3>2, <3>3, <3>4, <3>5, <3>6 DEF IInv
  <2>3. CASE where # "out"
    <3>1. active /\ env_r12' \in {Len(chunk), Junk} /\ uncovered' = uncovered \cup {"signal"}
      BY <1>9, <2>3 DEF FaultInC, IInv, ActiveInv, r12
    <3>2. TypeOK'
      <4>1. env_r12' \in 0 .. ChunkSize \cup {Poison, Junk}
        BY <3>1, HookAssumption DEF TypeOK
      <4> QED BY <2>1, <3>1, <4>1 DEF TypeOK
    <3>3. ActiveInv' BY <2>1, <3>1 DEF ActiveInv
    <3>4. NeverPanics' BY <2>1 DEF NeverPanics
    <3>5. FieldCurrent' BY <2>1, <3>1 DEF FieldCurrent
    <3>6. KeptInv' BY <3>1 DEF KeptInv
    <3> QED BY <3>2, <3>3, <3>4, <3>5, <3>6 DEF IInv
  <2> QED BY <2>2, <2>3
<1>10. CASE Signal
  <2>1. where # "panic" /\ env_r12' = Poison
        /\ uncovered' \in {uncovered, uncovered \cup {"signal"}}
        /\ (where \in {"helper", "leaving", "exiting"} => "signal" \in uncovered')
        /\ UNCHANGED <<where, active, chunk, pending, executed, shipped>>
    BY <1>10 DEF Signal
  <2>2. TypeOK' BY <2>1 DEF TypeOK
  <2>3. ActiveInv' BY <2>1 DEF IInv, ActiveInv
  <2>4. NeverPanics' BY <2>1 DEF NeverPanics
  <2>5. FieldCurrent' BY <2>1 DEF FieldCurrent
  <2>6. KeptInv' BY <2>1 DEF IInv, KeptInv
  <2> QED BY <2>2, <2>3, <2>4, <2>5, <2>6 DEF IInv
<1>11. CASE CpuLoopExit
  <2>1. /\ where \in {"helper", "slow", "leaving", "out"}
        /\ uncovered \subseteq uncovered' /\ uncovered' \subseteq {"signal", "slow", "outside"}
        /\ ("signal" \in uncovered' => "signal" \in uncovered)
        /\ where = "slow" => "slow" \in uncovered'
        /\ where = "out" => "outside" \in uncovered'
    BY <1>11 DEF CpuLoopExit, TypeOK
  <2>2. CASE env_r12 # Poison
    <3>1. where' = "exiting"
          /\ UNCHANGED <<shipped, active, chunk, pending, env_r12, executed>>
      BY <1>11, <2>2 DEF CpuLoopExit
    <3>2. TypeOK' BY <2>1, <3>1 DEF TypeOK
    <3>3. where # "slow" BY <2>2 DEF IInv, FieldCurrent
    <3>4. ActiveInv' BY <2>1, <2>2, <3>1, <3>3 DEF IInv, ActiveInv
    <3>5. NeverPanics' BY <3>1 DEF NeverPanics
    <3>6. FieldCurrent'
      BY <2>1, <3>1, <3>3 DEF IInv, FieldCurrent, ActiveInv, r12
    <3>7. KeptInv' BY <2>1, <3>1 DEF IInv, KeptInv
    <3> QED BY <3>2, <3>4, <3>5, <3>6, <3>7 DEF IInv
  <2>3. CASE env_r12 = Poison
    <3>1. where' = "dropped" /\ active' = FALSE /\ chunk' = <<>>
          /\ shipped' = shipped /\ UNCHANGED <<pending, env_r12, executed>>
      BY <1>11, <2>3 DEF CpuLoopExit, Ship
    <3>2. TypeOK'
      <4>1. Len(chunk') <= ChunkSize BY <3>1, HookAssumption
      <4> QED BY <2>1, <3>1, <4>1 DEF TypeOK
    <3>3. ActiveInv' BY <3>1 DEF ActiveInv
    <3>4. NeverPanics' BY <3>1 DEF NeverPanics
    <3>5. FieldCurrent' BY <3>1 DEF FieldCurrent
    <3>6. KeptInv'
      <4>1. CASE active
        <5>1. CASE where \in {"helper", "leaving"}
          <6>1. "signal" \in uncovered
            BY <2>3, <4>1, <5>1, HookAssumption DEF IInv, FieldCurrent, r12
          <6> QED BY <2>1, <6>1 DEF KeptInv
        <5>2. CASE where = "slow" BY <2>1, <5>2 DEF KeptInv
        <5>3. where # "out" BY <4>1 DEF IInv, ActiveInv
        <5> QED BY <2>1, <5>1, <5>2, <5>3
      <4>2. CASE ~active
        <5>1. chunk = <<>> BY <4>2 DEF IInv, ActiveInv
        <5> QED BY <2>1, <3>1, <5>1 DEF IInv, KeptInv
      <4> QED BY <4>1, <4>2
    <3> QED BY <3>2, <3>3, <3>4, <3>5, <3>6 DEF IInv
  <2> QED BY <2>2, <2>3
<1>12. CASE Reenter
  <2>1. where = "dropped" /\ where' \in {"exiting", "leaving"} /\ env_r12' = 0
        /\ active' = TRUE /\ chunk' = <<>> /\ chunk = <<>>
        /\ UNCHANGED <<pending, executed, shipped, uncovered>>
    BY <1>12 DEF Reenter, JitEntry, IInv, ActiveInv
  <2>2. TypeOK'
    <3>1. Len(chunk') <= ChunkSize /\ env_r12' \in 0 .. ChunkSize
      BY <2>1, HookAssumption
    <3> QED BY <2>1, <3>1 DEF TypeOK
  <2>3. ActiveInv' BY <2>1 DEF ActiveInv
  <2>4. NeverPanics' BY <2>1 DEF NeverPanics
  <2>5. FieldCurrent' BY <2>1 DEF FieldCurrent, r12
  <2>6. KeptInv' BY <2>1 DEF IInv, KeptInv
  <2> QED BY <2>2, <2>3, <2>4, <2>5, <2>6 DEF IInv
<1>13. CASE ExitLoop
  <2>1. where = "exiting" BY <1>13 DEF ExitLoop
  <2>2. CASE ~MayExit(env_r12)
    <3>1. where' = "panic"
          /\ UNCHANGED <<active, chunk, pending, env_r12, executed, shipped, uncovered>>
      BY <1>13, <2>2 DEF ExitLoop, Panic
    <3>2. TypeOK' BY <3>1 DEF TypeOK
    <3>3. ActiveInv' BY <3>1 DEF IInv, ActiveInv
    <3>4. NeverPanics'
      <4>1. CASE active
        <5>1. env_r12 = Poison BY <2>2, <4>1 DEF MayExit
        <5>2. "signal" \in uncovered
          BY <2>1, <4>1, <5>1, HookAssumption DEF IInv, FieldCurrent, r12
        <5> QED BY <3>1, <5>2 DEF NeverPanics
      <4>2. CASE ~active
        <5>1. "signal" \in uncovered \/ ("outside" \in uncovered /\ env_r12 # Poison)
          BY <2>1, <4>2 DEF IInv, FieldCurrent, ActiveInv
        <5> QED BY <3>1, <4>2, <5>1 DEF NeverPanics
      <4> QED BY <4>1, <4>2
    <3>5. FieldCurrent' BY <3>1 DEF FieldCurrent
    <3>6. KeptInv' BY <3>1 DEF IInv, KeptInv
    <3> QED BY <3>2, <3>3, <3>4, <3>5, <3>6 DEF IInv
  <2>3. CASE MayExit(env_r12)
    <3>1. JitExit(env_r12) /\ where' = "out"
          /\ UNCHANGED <<pending, env_r12, executed, uncovered>>
      BY <1>13, <2>3 DEF ExitLoop
    <3>2. active /\ env_r12 \in {Len(chunk), Junk}
      BY <2>1, <2>3 DEF MayExit, IInv, ActiveInv
    <3>3. active' = FALSE /\ chunk' = <<>> BY <3>1 DEF JitExit
    <3>4. shipped' \in Seq(Byte)
      <4>1. CASE env_r12 = Junk
        <5>1. <<Junk>> \in Seq(Byte) BY DEF Byte
        <5> QED BY <3>1, <4>1, <5>1 DEF JitExit, Ship
      <4>2. CASE env_r12 # Junk
        <5>1. JitExit(r12) BY <3>1, <3>2, <4>2 DEF r12
        <5> QED BY <3>2, <5>1, ExitKeeps
      <4> QED BY <4>1, <4>2
    <3>5. KeptInv'
      <4> SUFFICES ASSUME {"signal", "slow"} \cap uncovered = {}
                   PROVE  shipped' \o chunk' = executed'
        BY <3>1 DEF KeptInv
      <4>1. env_r12 = r12 BY <2>1, <3>2 DEF IInv, FieldCurrent
      <4>2. shipped' \o chunk' = shipped \o chunk BY <3>1, <3>2, <4>1, ExitKeeps
      <4> QED BY <3>1, <4>2 DEF IInv, KeptInv
    <3>6. TypeOK'
      <4>1. Len(chunk') <= ChunkSize BY <3>3, HookAssumption
      <4> QED BY <2>1, <3>1, <3>3, <3>4, <4>1 DEF TypeOK
    <3>7. ActiveInv' BY <3>1, <3>3 DEF ActiveInv
    <3>8. NeverPanics' BY <3>1 DEF NeverPanics
    <3>9. FieldCurrent' BY <3>1 DEF FieldCurrent
    <3> QED BY <3>5, <3>6, <3>7, <3>8, <3>9 DEF IInv
  <2> QED BY <2>2, <2>3
<1>14. ASSUME NEW c \in Call, Report(c) PROVE IInv'
  <2>1. where = "out" /\ ~active /\ chunk = <<>> BY <1>14 DEF Report, IInv, ActiveInv
  <2>2. where' = "blocked" /\ shipped' = shipped \o Bytes(c)
        /\ executed' = executed \o Bytes(c)
        /\ UNCHANGED <<active, chunk, pending, env_r12, uncovered>>
    BY <1>14, <2>1 DEF Report, Ship
  <2>3. Bytes(c) \in Seq(Byte) BY BytesType
  <2>4. shipped' \in Seq(Byte) /\ executed' \in Seq(Byte) BY <2>2, <2>3
  <2>5. shipped' \o <<>> = shipped' BY <2>4, ConcatEmptySeq
  <2>6. TypeOK' BY <2>2, <2>4 DEF TypeOK
  <2>7. ActiveInv' BY <2>1, <2>2 DEF ActiveInv
  <2>8. NeverPanics' BY <2>2 DEF NeverPanics
  <2>9. FieldCurrent' BY <2>2 DEF IInv, FieldCurrent, r12
  <2>10. KeptInv' BY <2>1, <2>2, <2>5 DEF IInv, KeptInv
  <2> QED BY <2>6, <2>7, <2>8, <2>9, <2>10 DEF IInv
<1>15. CASE Unblock
  <2>1. where = "blocked" /\ where' = "out"
        /\ UNCHANGED <<active, chunk, pending, env_r12, executed, shipped, uncovered>>
    BY <1>15 DEF Unblock
  <2>2. TypeOK' BY <2>1 DEF TypeOK
  <2>3. ActiveInv' BY <2>1 DEF IInv, ActiveInv
  <2>4. NeverPanics' BY <2>1 DEF NeverPanics
  <2>5. FieldCurrent' BY <2>1 DEF IInv, FieldCurrent, r12
  <2>6. KeptInv' BY <2>1 DEF IInv, KeptInv
  <2> QED BY <2>2, <2>3, <2>4, <2>5, <2>6 DEF IInv
<1>17. CASE CallSlowPath \/ SlowPathReturns
  <2>1. where \in {"jit", "slow"} /\ where' \in {"jit", "slow"}
        /\ UNCHANGED <<active, chunk, pending, env_r12, executed, shipped, uncovered>>
    BY <1>17 DEF CallSlowPath, SlowPathReturns
  <2>2. TypeOK' BY <2>1 DEF TypeOK
  <2>3. ActiveInv' BY <2>1 DEF IInv, ActiveInv
  <2>4. NeverPanics' BY <2>1 DEF NeverPanics
  <2>5. FieldCurrent' BY <2>1 DEF IInv, FieldCurrent
  <2>6. KeptInv' BY <2>1 DEF IInv, KeptInv
  <2> QED BY <2>2, <2>3, <2>4, <2>5, <2>6 DEF IInv
<1>16. CASE Receive \/ UNCHANGED vars
  <2>1. UNCHANGED <<where, active, chunk, pending, env_r12, executed, shipped, uncovered>>
    BY <1>16 DEF Receive, vars
  <2>2. TypeOK' BY <2>1 DEF TypeOK
  <2>3. ActiveInv' BY <2>1 DEF IInv, ActiveInv
  <2>4. NeverPanics' BY <2>1 DEF IInv, NeverPanics
  <2>5. FieldCurrent' BY <2>1 DEF IInv, FieldCurrent, r12
  <2>6. KeptInv' BY <2>1 DEF IInv, KeptInv
  <2> QED BY <2>2, <2>3, <2>4, <2>5, <2>6 DEF IInv
<1> QED
  BY <1>1, <1>2, <1>3, <1>4, <1>5, <1>6, <1>7, <1>8, <1>9, <1>10, <1>11, <1>12,
     <1>13, <1>14, <1>15, <1>16, <1>17 DEF Next, Helper, Jit, Outside

-----------------------------------------------------------------------------

\* The invariant holds in every behaviour.
LEMMA InductiveInvariant == Spec => []IInv
BY InitInv, StepInv, PTL DEF Spec

\* Generated code stays within its chunk, although a hook does not compare
\* again after a flush.
THEOREM TypeCorrect == Spec => []TypeOK
<1>1. IInv => TypeOK BY DEF IInv
<1> QED BY <1>1, InductiveInvariant, PTL

\* The asserts of the hooks hold unless a signal changed the saved position
\* between cpu_loop_exit's look at it and its use, or cpu_loop_exit was called
\* outside generated code with a position left in the field.
THEOREM PanicTheorem == Spec => []NeverPanics
<1>1. IInv => NeverPanics BY DEF IInv
<1> QED BY <1>1, InductiveInvariant, PTL

\* The saved position is current wherever a longjmp may rely on it, and the
\* poison wherever nothing was saved.
THEOREM FieldTheorem == Spec => []FieldCurrent
<1>1. IInv => FieldCurrent BY DEF IInv
<1> QED BY <1>1, InductiveInvariant, PTL

\* What the hooks logged is sent or in the active buffer, once and in order, on
\* every way in and out of generated code but two: a slow path that leaves by
\* longjmp, and C code that a signal or a fault interrupted.
THEOREM TraceTheorem == Spec => []TraceKept
<1>1. IInv => TraceKept
  <2> SUFFICES ASSUME IInv, {"signal", "slow"} \cap uncovered = {}
               PROVE  shipped \o (IF active THEN chunk ELSE <<>>) = executed
    BY DEF TraceKept
  <2> QED BY DEF IInv, ActiveInv, KeptInv
<1> QED BY <1>1, InductiveInvariant, PTL

-----------------------------------------------------------------------------
(* Whole events. *)

\* The active buffer holds whole events at every step, not only when it is sent.
WholeInv ==
    /\ sent \in Seq(Seq(Byte)) /\ Whole(chunk)
    /\ \A i \in DOMAIN sent : sent[i] # <<Junk>> => Whole(sent[i])

\* An event by itself is whole, whatever chunk it begins.
LEMMA WholeBytes ==
    ASSUME NEW e \in Event \cup Call
    PROVE  Whole(Bytes(e))
<1>1. Bytes(e) = [i \in 1 .. Size[e] |-> <<e, i>>] /\ Len(Bytes(e)) = Size[e]
      /\ Size[e] \in Nat \ {0}
  BY BytesType, HookAssumption DEF Bytes
<1>2. ASSUME NEW j \in 1 .. Size[e]
      PROVE  \/ Bytes(e)[j][2] = Size[Bytes(e)[j][1]] /\ ~(j < Size[e])
             \/ j < Size[e] /\ Bytes(e)[j + 1] = <<Bytes(e)[j][1], Bytes(e)[j][2] + 1>>
  <2>1. Bytes(e)[j] = <<e, j>> BY <1>1
  <2>2. CASE j = Size[e] BY <1>1, <2>1, <2>2
  <2>3. CASE j < Size[e]
    <3>1. j + 1 \in 1 .. Size[e] BY <1>1, <2>3
    <3>2. Bytes(e)[j + 1] = <<e, j + 1>> BY <1>1, <3>1
    <3> QED BY <2>1, <2>3, <3>2
  <2> QED BY <1>1, <2>2, <2>3
<1>3. DOMAIN Bytes(e) = 1 .. Size[e] BY <1>1
<1> QED BY <1>1, <1>2, <1>3 DEF Whole

\* Whole events stay whole when another one is logged behind them.
LEMMA WholeConcat ==
    ASSUME NEW c \in Seq(Byte), Whole(c), NEW e \in Event \cup Call
    PROVE  Whole(c \o Bytes(e))
<1> DEFINE b == Bytes(e)  n == Len(c)  m == Size[e]  d == c \o b
<1>1. b \in Seq(Byte) /\ Len(b) = m /\ m \in Nat \ {0} /\ n \in Nat
  BY BytesType, HookAssumption, LenProperties
<1>2. Len(d) = n + m /\ DOMAIN d = 1 .. n + m
  BY <1>1, ConcatProperties, LenProperties
<1>3. \A k \in 1 .. n : d[k] = c[k]
  <2>1. \A k \in 1 .. n + m : d[k] = IF k <= n THEN c[k] ELSE b[k - n]
    BY <1>1, ConcatProperties
  <2> QED BY <1>1, <2>1
<1>4. \A k \in 1 .. m : d[n + k] = <<e, k>>
  <2>1. \A k \in 1 .. n + m : d[k] = IF k <= n THEN c[k] ELSE b[k - n]
    BY <1>1, ConcatProperties
  <2>2. \A k \in 1 .. m : b[k] = <<e, k>> BY <1>1 DEF Bytes
  <2>3. \A k \in 1 .. m : n + k \in 1 .. n + m /\ ~(n + k <= n) /\ (n + k) - n = k
    BY <1>1
  <2> QED BY <2>1, <2>2, <2>3
<1>5. DOMAIN c = 1 .. n BY LenProperties
<1>6. ASSUME NEW j \in 1 .. n + m
      PROVE  \/ d[j][2] = Size[d[j][1]] /\ (j < n + m => d[j + 1][2] = 1)
             \/ j < n + m /\ d[j + 1] = <<d[j][1], d[j][2] + 1>>
  <2>1. CASE j < n
    <3>1. j \in 1 .. n /\ j + 1 \in 1 .. n /\ j < n + m BY <1>1, <2>1
    <3>2. d[j] = c[j] /\ d[j + 1] = c[j + 1] BY <1>3, <3>1
    <3>3. \/ c[j][2] = Size[c[j][1]] /\ c[j + 1][2] = 1
          \/ c[j + 1] = <<c[j][1], c[j][2] + 1>>
      BY <1>5, <2>1, <3>1 DEF Whole
    <3> QED BY <3>1, <3>2, <3>3
  <2>2. CASE j = n
    <3>1. d[j] = c[j] /\ d[n + 1] = <<e, 1>> BY <1>1, <1>3, <1>4, <2>2
    <3>2. c[j][2] = Size[c[j][1]] BY <1>1, <1>5, <2>2 DEF Whole
    <3> QED BY <2>2, <3>1, <3>2
  <2>3. CASE j > n
    <3>1. PICK k \in 1 .. m : j = n + k
      <4>1. j - n \in 1 .. m /\ j = n + (j - n) BY <1>1, <2>3
      <4> QED BY <4>1
    <3>2. d[j] = <<e, k>> BY <1>4, <3>1
    <3>3. CASE k = m BY <1>1, <3>1, <3>2, <3>3
    <3>4. CASE k < m
      <4>1. k + 1 \in 1 .. m /\ n + (k + 1) = j + 1 /\ j < n + m BY <1>1, <3>1, <3>4
      <4>2. d[j + 1] = <<e, k + 1>>
        <5>1. d[n + (k + 1)] = <<e, k + 1>> BY <1>4, <4>1
        <5> QED BY <4>1, <5>1
      <4> QED BY <3>2, <4>1, <4>2
    <3>5. k = m \/ k < m BY <1>1
    <3> QED BY <3>3, <3>4, <3>5
  <2> QED BY <1>1, <2>1, <2>2, <2>3
<1> QED BY <1>2, <1>6 DEF Whole

\* One more chunk that is whole, or what a stray position sends.
LEMMA WholeShip ==
    ASSUME WholeInv, NEW c \in Seq(Byte), c = <<Junk>> \/ Whole(c)
    PROVE  /\ Append(sent, c) \in Seq(Seq(Byte))
           /\ \A i \in DOMAIN Append(sent, c) :
                 Append(sent, c)[i] # <<Junk>> => Whole(Append(sent, c)[i])
<1>1. sent \in Seq(Seq(Byte)) BY DEF WholeInv
<1>2. Append(sent, c) \in Seq(Seq(Byte)) /\ Len(Append(sent, c)) = Len(sent) + 1
      /\ \A i \in 1 .. Len(sent) : Append(sent, c)[i] = sent[i]
      /\ Append(sent, c)[Len(sent) + 1] = c
  BY <1>1, AppendProperties
<1>3. DOMAIN Append(sent, c) = 1 .. Len(sent) + 1 /\ DOMAIN sent = 1 .. Len(sent)
      /\ Len(sent) \in Nat
  BY <1>1, <1>2, LenProperties
<1>4. ASSUME NEW i \in 1 .. Len(sent) + 1, Append(sent, c)[i] # <<Junk>>
      PROVE  Whole(Append(sent, c)[i])
  <2>1. CASE i = Len(sent) + 1 BY <1>2, <1>4, <2>1
  <2>2. CASE i \in 1 .. Len(sent) BY <1>2, <1>3, <1>4, <2>2 DEF WholeInv
  <2> QED BY <1>3, <2>1, <2>2
<1> QED BY <1>2, <1>3, <1>4

\* jit_exit sends the whole chunk, or junk, and leaves none.
LEMMA WholeExit ==
    ASSUME TypeOK, WholeInv, NEW pos, pos \in {Len(chunk), Junk}, JitExit(pos)
    PROVE  WholeInv'
<1> DEFINE c == IF pos = Junk THEN <<Junk>> ELSE SubSeq(chunk, 1, pos)
<1>1. sent' = Append(sent, c) /\ chunk' = <<>> BY DEF JitExit, Ship
<1>2. c = <<Junk>> \/ c = chunk BY Sequences
<1>3. c \in Seq(Byte)
  <2>1. Junk \in Byte BY DEF Byte
  <2>2. <<Junk>> \in Seq(Byte) BY <2>1
  <2> QED BY <1>2, <2>2 DEF TypeOK
<1>4. c = <<Junk>> \/ Whole(c) BY <1>2 DEF WholeInv
<1>5. Whole(<<>>) BY DEF Whole
<1> HIDE DEF c
<1> QED BY <1>1, <1>3, <1>4, <1>5, WholeShip DEF WholeInv

\* Only hooks extend the chunk, and always by an event as a whole.
LEMMA WholeStep == IInv /\ WholeInv /\ [Next]_vars => WholeInv'
<1> SUFFICES ASSUME IInv, WholeInv, [Next]_vars PROVE WholeInv' OBVIOUS
<1>0. TypeOK /\ chunk \in Seq(Byte) BY DEF IInv, TypeOK
<1>e. Whole(<<>>) /\ <<>> \in Seq(Byte) BY EmptySeq DEF Whole
<1>1. CASE CpuTbExec \/ Reenter
  <2>1. sent' = sent /\ chunk' \in {chunk, <<>>}
    BY <1>1 DEF CpuTbExec, Reenter, JitEntry, Panic
  <2> QED BY <1>e, <2>1 DEF WholeInv
<1>2. ASSUME NEW e \in Event, Hook(e) PROVE WholeInv'
  <2>1. sent' = sent /\ chunk' \in {chunk, chunk \o Bytes(e)} BY <1>2 DEF Hook
  <2>2. Whole(chunk \o Bytes(e)) BY <1>0, WholeConcat DEF WholeInv
  <2> QED BY <2>1, <2>2 DEF WholeInv
<1>3. CASE FlushExit \/ Epilogue
  <2>1. CASE JitExit(r12) BY <1>0, <2>1, WholeExit DEF r12
  <2>2. CASE Panic BY <2>2 DEF Panic, WholeInv
  <2> QED BY <1>3, <2>1, <2>2 DEF FlushExit, Epilogue
<1>4. CASE FlushEntry
  <2>1. pending \in Event BY <1>0, <1>4 DEF FlushEntry, TypeOK
  <2>2. sent' = sent /\ chunk' \in {chunk, Bytes(pending)}
    BY <1>4 DEF FlushEntry, JitEntry, Panic
  <2> QED BY <2>1, <2>2, WholeBytes DEF WholeInv
<1>5. CASE ExitLoop
  <2>1. CASE MayExit(env_r12) /\ JitExit(env_r12)
    <3>1. env_r12 \in {Len(chunk), Junk} BY <1>5, <2>1 DEF ExitLoop, IInv, ActiveInv, MayExit
    <3> QED BY <1>0, <2>1, <3>1, WholeExit
  <2>2. CASE Panic BY <2>2 DEF Panic, WholeInv
  <2> QED BY <1>5, <2>1, <2>2 DEF ExitLoop
<1>6. CASE CpuLoopExit
  <2>1. sent' \in {sent, Append(sent, <<>>)} /\ chunk' \in {chunk, <<>>}
    BY <1>6 DEF CpuLoopExit, Ship
  <2> QED BY <1>e, <2>1, WholeShip DEF WholeInv
<1>7. ASSUME NEW c \in Call, Report(c) PROVE WholeInv'
  <2>1. Bytes(c) \in Seq(Byte) /\ Whole(Bytes(c)) BY BytesType, WholeBytes
  <2>2. sent' \in {sent, Append(sent, Bytes(c))} /\ chunk' = chunk
    BY <1>7 DEF Report, Ship, Panic
  <2> QED BY <2>1, <2>2, WholeShip DEF WholeInv
<1>8. CASE FaultInJit \/ CallHelper \/ HelperReturns \/ CallSlowPath \/ SlowPathReturns
           \/ FaultInC \/ Unblock \/ Signal \/ Receive \/ UNCHANGED vars
  <2>1. sent' = sent /\ chunk' = chunk
    BY <1>8 DEF FaultInJit, CallHelper, HelperReturns, CallSlowPath, SlowPathReturns,
                FaultInC, Unblock, Signal, Receive, Channel!Deliver, vars
  <2> QED BY <2>1 DEF WholeInv
<1> QED BY <1>1, <1>2, <1>3, <1>4, <1>5, <1>6, <1>7, <1>8 DEF Next, Helper, Jit, Outside

\* No event straddles two chunks, also after flushes in the middle of a hook,
\* for events and chunks of any size: what the parallel parsers rely on.
THEOREM WholeTheorem == Spec => []WholeEvents
<1>1. Init => WholeInv
  <2>1. <<>> \in Seq(Seq(Byte)) /\ DOMAIN <<>> = {} BY EmptySeq
  <2> QED BY <2>1 DEF Init, WholeInv, Whole
<1>2. WholeInv => WholeEvents BY DEF WholeInv, WholeEvents
<1> QED BY <1>1, <1>2, WholeStep, InductiveInvariant, PTL DEF Spec
=============================================================================
