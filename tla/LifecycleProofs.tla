-------------------------- MODULE LifecycleProofs --------------------------
(***************************************************************************)
(* Proofs about Lifecycle: whatever threads and processes of the target    *)
(* do, its server uses PID_CONTEXTS as PidContexts says, so that the       *)
(* theorems of PidContextsProofs hold for it; a thread's events go through *)
(* its own pipe, and the server maps complete pipes only.                  *)
(***************************************************************************)
EXTENDS Lifecycle, PidContextsProofs, TLAPS

-----------------------------------------------------------------------------
(* The server's steps are those of PidContexts, or leave its variables alone. *)

\* Targets do not touch PID_CONTEXTS, and the server only as PidContexts says.
LEMMA ServerSteps == [LNext]_lvars => [Next]_vars
<1> SUFFICES ASSUME [LNext]_lvars PROVE [Next]_vars
  OBVIOUS
<1>1. CASE UNCHANGED lvars
  BY <1>1 DEF lvars, vars
<1>2. ASSUME NEW c \in Clients, Server(c) PROVE Next
  BY <1>2 DEF Server, Accept, Open, EndServe, Next, Connection
<1>3. ASSUME NEW c \in Clients, Target(c) \/ Start(c) \/ Fork(c) \/ Exit(c)
      PROVE UNCHANGED vars
  BY <1>3 DEF Target, CreateName, WriteHeader, ConnectServer, Greet, Send,
              Start, Fork, Exit
<1>4. ASSUME NEW p \in Pids, Kill(p) PROVE UNCHANGED vars
  BY <1>4 DEF Kill
<1>5. CASE Return
  BY <1>5 DEF Return
<1> QED
  BY <1>1, <1>2, <1>3, <1>4, <1>5 DEF LNext

\* The server is made of the actions of PidContexts, and nothing the target does
\* touches their variables: what PidContextsProofs proves can be used here.
LEMMA ContextSteps == LSpec => Spec
<1>1. LInit => Init
  BY DEF LInit
<1> QED
  BY <1>1, ServerSteps, PTL DEF LSpec, Spec

\* The connections of a process share the one context of its pid while threads
\* of the target are created, forked, ended and killed.
THEOREM ServedInUseKept == LSpec => []InUseKept
  BY ContextSteps, InUseTheorem, PTL

\* No context is left behind by connections that all went through the cleanup.
THEOREM ServedCollected == LSpec => []Collected
  BY ContextSteps, CollectedTheorem, PTL

-----------------------------------------------------------------------------
(* Pipes and names. *)

LTypeOK ==
    /\ q \in [Clients -> {"unborn", "alive", "ended", "killed"}]
    /\ hook \in [Clients -> [tid : Clients \cup {None}, state : Clients \cup {None}]]
    /\ stage \in [Clients -> Stages]
    /\ name \in [Clients -> {"none", "exists", "gone"}]
    /\ header \in [Clients -> BOOLEAN]
    /\ through \in [Clients -> SUBSET Clients]
    /\ pc \in [Clients -> PCs]

\* A thread id stands next to the state of that thread, and a thread that has
\* made its state keeps it.
StateInv ==
    \A c \in Clients :
        /\ hook[c].tid # None => hook[c].tid = hook[c].state
        /\ hook[c].state # None => stage[hook[c].state] = "greeted"
        /\ stage[c] = "greeted" => hook[c].tid = c

\* The life of a name: with create it comes into being, with the memory behind
\* it complete before anyone is told; it never comes back.
NameInv ==
    \A c \in Clients :
        /\ q[c] = "unborn" => name[c] = "none" /\ stage[c] = "none"
        /\ stage[c] = "none" => name[c] = "none" \/ q[c] = "killed"
        /\ stage[c] # "none" => q[c] # "unborn" /\ name[c] # "none"
        /\ stage[c] \in {"named", "mapped", "connected"} => q[c] \in {"alive", "killed"}
        /\ pc[c] \in {"acquire", "serve", "cleanup", "done"} => stage[c] = "greeted"

LInv == LTypeOK /\ StateInv /\ NameInv /\ OwnPipe /\ PipeComplete

USE LifecycleAssumption, PidAssumption

\* At first no thread has a state, and no pipe a name.
LEMMA LInvInit == LInit => LInv
  BY DEF LInit, Init, LInv, LTypeOK, StateInv, NameInv, OwnPipe, PipeComplete, NoHook,
         PCs, Stages

\* A new thread has no HookState yet.
LEMMA StartStep ==
    ASSUME LInv, NEW c \in Clients, Start(c) PROVE LInv'
  BY DEF Start, LInv, LTypeOK, StateInv, NameInv, OwnPipe, PipeComplete, PCs, vars

\* The copy of a HookState has the thread id of the state it was copied from.
LEMMA ForkStep ==
    ASSUME LInv, NEW c \in Clients, Fork(c) PROVE LInv'
  BY DEF Fork, LInv, LTypeOK, StateInv, NameInv, OwnPipe, PipeComplete, PCs, vars

\* The destructors of a thread take the name of its pipe away.
LEMMA ExitStep ==
    ASSUME LInv, NEW c \in Clients, Exit(c) PROVE LInv'
<1> USE DEF LInv, vars
<1>1. LTypeOK'
  BY DEF Exit, LTypeOK
<1>2. StateInv' /\ OwnPipe'
  BY DEF Exit, StateInv, OwnPipe
<1>3. NameInv'
  BY DEF Exit, NameInv, StateInv, LTypeOK
<1>4. (stage[c] = "none" /\ name[c] = "none") \/ hook[c].state = c
  BY DEF Exit, NameInv, StateInv
<1>5. PipeComplete'
  BY <1>4 DEF Exit, PipeComplete, LTypeOK
<1> QED
  BY <1>1, <1>2, <1>3, <1>5

\* A kill, or an assertion that fails in the middle of making a pipe, runs no
\* destructor: at most a name stays behind that was just made.
LEMMA KilledStep ==
    ASSUME LInv, NEW p \in Pids, Killed(p),
           UNCHANGED <<pc, hook, stage, header, through>>,
           UNCHANGED name \/ \E c \in Clients : q[c] = "alive" /\ PidOf[c] = p
                              /\ stage[c] = "none" /\ name' = [name EXCEPT ![c] = "exists"]
    PROVE  LInv'
<1> USE DEF LInv, Killed, Alive
<1>1. LTypeOK'
  BY DEF LTypeOK
<1>2. StateInv' /\ OwnPipe'
  BY DEF StateInv, OwnPipe
<1>3. NameInv'
  BY DEF NameInv, LTypeOK
<1>4. PipeComplete'
  BY DEF NameInv, PipeComplete, LTypeOK
<1> QED
  BY <1>1, <1>2, <1>3, <1>4

\* HookState::default, call by call, and with_hook.
LEMMA TargetStep ==
    ASSUME LInv, NEW c \in Clients, Target(c) PROVE LInv'
<1> USE DEF LInv, LTypeOK, StateInv, NameInv, OwnPipe, PipeComplete, PCs, Stages, Goes, vars
<1>1. CASE CreateName(c)
  <2>1. CASE Killed(PidOf[c]) /\ UNCHANGED stage
    BY <1>1, <2>1, KilledStep DEF CreateName, NeedsState
  <2>2. CASE Goes(c, "named") /\ UNCHANGED <<q, holders>>
    BY <1>1, <2>2 DEF CreateName, NeedsState
  <2> QED
    BY <1>1, <2>1, <2>2 DEF CreateName
<1>2. CASE WriteHeader(c)
  BY <1>2 DEF WriteHeader
<1>3. CASE ConnectServer(c)
  <2>1. CASE Killed(PidOf[c]) /\ UNCHANGED stage
    BY <1>3, <2>1, KilledStep DEF ConnectServer
  <2> QED
    BY <1>3, <2>1 DEF ConnectServer
<1>4. CASE Greet(c)
  <2>1. CASE Killed(PidOf[c]) /\ UNCHANGED <<stage, hook>>
    BY <1>4, <2>1, KilledStep DEF Greet
  <2>2. CASE Goes(c, "greeted") /\ hook' = [hook EXCEPT ![c] = [tid |-> c, state |-> c]]
             /\ UNCHANGED <<q, holders>>
    <3> USE <1>4, <2>2 DEF Greet
    <3>1. LTypeOK'
      OBVIOUS
    <3>2. StateInv' /\ OwnPipe'
      OBVIOUS
    <3>3. NameInv' /\ PipeComplete'
      OBVIOUS
    <3> QED
      BY <3>1, <3>2, <3>3
  <2> QED
    BY <1>4, <2>1, <2>2 DEF Greet
<1>5. CASE Send(c)
  BY <1>5 DEF Send
<1> QED
  BY <1>1, <1>2, <1>3, <1>4, <1>5 DEF Target

\* A connection whose pipe is open only moves on.
LEMMA ServedMove ==
    ASSUME LInv, NEW c \in Clients, pc[c] \in {"acquire", "serve", "cleanup"},
           NEW to \in PCs, pc' = [pc EXCEPT ![c] = to], UNCHANGED targetVars
    PROVE  LInv'
<1>1. /\ \A d \in Clients \ {c} : pc'[d] = pc[d]
      /\ pc' \in [Clients -> PCs]
  BY DEF LInv, LTypeOK
<1>2. LTypeOK'
  BY <1>1 DEF LInv, LTypeOK, targetVars
<1>3. StateInv' /\ OwnPipe'
  BY DEF LInv, StateInv, OwnPipe, targetVars
<1>4. NameInv'
  BY <1>1 DEF LInv, NameInv, targetVars
<1>5. PipeComplete'
  BY <1>1 DEF LInv, PipeComplete, targetVars
<1> QED
  BY <1>2, <1>3, <1>4, <1>5 DEF LInv

\* The server opens a pipe only after its greeting, and unlinks its name.
LEMMA ServerStep ==
    ASSUME LInv, NEW c \in Clients, Server(c) PROVE LInv'
<1> USE DEF LInv, LTypeOK, StateInv, NameInv, OwnPipe, PipeComplete, PCs, Goto,
            targetVars, serverVars
<1>1. CASE Accept(c)
  BY <1>1 DEF Accept, Connect
<1>2. CASE Open(c)
  <2> USE <1>2 DEF Open, OpenPipe, Usable
  <2>1. LTypeOK' /\ OwnPipe'
    BY SMTT(30)
  <2>4. StateInv'
    OBVIOUS
  <2>2. NameInv'
    OBVIOUS
  <2>3. PipeComplete'
    OBVIOUS
  <2> QED
    BY <2>1, <2>2, <2>3, <2>4
<1>3. CASE EndServe(c)
  BY <1>3, ServedMove DEF EndServe, Serve
<1>4. CASE GetContext(c) /\ UNCHANGED <<targetVars, serverVars>>
  BY <1>4, ServedMove DEF GetContext
<1>5. CASE Cleanup(c) /\ UNCHANGED <<targetVars, serverVars>>
  BY <1>5, ServedMove DEF Cleanup
<1> QED
  BY <1>1, <1>2, <1>3, <1>4, <1>5 DEF Server

\* No step of a target or of the server breaks the invariant.
LEMMA LInvStep == LInv /\ [LNext]_lvars => LInv'
<1> SUFFICES ASSUME LInv, [LNext]_lvars PROVE LInv'
  OBVIOUS
<1>1. CASE UNCHANGED lvars
  BY <1>1 DEF lvars, vars, targetVars, LInv, LTypeOK, StateInv, NameInv, OwnPipe,
              PipeComplete
<1>2. CASE Return
  BY <1>2 DEF Return, vars, targetVars, LInv, LTypeOK, StateInv, NameInv, OwnPipe,
              PipeComplete
<1>3. ASSUME NEW p \in Pids, Kill(p) PROVE LInv'
  BY <1>3, KilledStep DEF Kill, vars
<1> QED
  BY <1>1, <1>2, <1>3, StartStep, ForkStep, ExitStep, TargetStep, ServerStep DEF LNext

\* The inductive invariant holds always: states belong to the thread that made
\* them, and a name to a pipe that is being made. (with_hook, HookState::default)
THEOREM LInvariant == LSpec => []LInv
  BY LInvInit, LInvStep, PTL DEF LSpec

\* No thread ever logs to the pipe of another one, forked children included
\* (with_hook).
THEOREM OwnPipeTheorem == LSpec => []OwnPipe
  BY LInvariant, PTL DEF LInv

\* The server serves from complete pipes whose names are gone, and threads that
\* end in an orderly way leave no name behind (create, open and drop).
THEOREM PipeCompleteTheorem == LSpec => []PipeComplete
  BY LInvariant, PTL DEF LInv
=============================================================================
