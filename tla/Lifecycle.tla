----------------------------- MODULE Lifecycle -----------------------------
(***************************************************************************)
(* From a target thread to the server and back: the shared memory object   *)
(* of its pipe (mempipe, create, open and drop), the hook state that makes *)
(* the pipe and the connection (cannoli_internals.rs), what fork, exits    *)
(* and kills do to them, and the server's loop (run, run_forever).  What a *)
(* connection does with PID_CONTEXTS is in PidContexts, whose actions the  *)
(* server's actions here are made of.                                      *)
(***************************************************************************)
EXTENDS PidContexts

CONSTANTS ForkOf,       \* the thread a thread was forked by, or None
          Matches,      \* clients whose constants are those of the server
          Loops         \* how the server may be run: TRUE run_forever, FALSE run

ASSUME LifecycleAssumption ==
    /\ ForkOf \in [Clients -> Clients \cup {None}]
    /\ Failures
    /\ Matches \subseteq Clients /\ Loops \subseteq BOOLEAN

VARIABLES
    q,           \* target threads: "unborn", "alive", "ended" or "killed"
    hook,        \* HOOK_STATE: whose pipe, the thread id next to it; None: not made yet
    stage,       \* how far HookState::default is
    name,        \* the name of the pipe's shared memory object
    header,      \* is its RawMemPipe initialised
    holders,     \* who has the target's end of the connection open: a process
    forever,     \* run_forever, or run: one connection
    listening,   \* the server has its listener
    through      \* history: the pipes of others a thread has sent chunks through

targetVars == <<q, hook, stage, name, header, holders, through>>
serverVars == <<forever, listening>>
lvars == <<vars, targetVars, serverVars>>

Stages == {"none", "named", "mapped", "connected", "greeted"}
NoHook == [tid |-> None, state |-> None]

LInit ==
    /\ Init
    /\ q = [c \in Clients |-> "unborn"]
    /\ hook = [c \in Clients |-> NoHook]
    /\ stage = [c \in Clients |-> "none"]
    /\ name = [c \in Clients |-> "none"]
    /\ header = [c \in Clients |-> FALSE]
    /\ holders = [c \in Clients |-> {}]
    /\ forever \in Loops /\ listening = TRUE
    /\ through = [c \in Clients |-> {}]

Alive(p) == {c \in Clients : PidOf[c] = p /\ q[c] = "alive"}

-----------------------------------------------------------------------------
(* Threads and processes of the target. *)

\* The first thread of a process, or pthread_create: new thread-local storage.
Start(c) ==
    /\ q[c] = "unborn" /\ ForkOf[c] = None
    /\ q' = [q EXCEPT ![c] = "alive"]
    /\ UNCHANGED <<vars, serverVars, hook, stage, name, header, holders, through>>

\* fork: the child has a copy of its parent's thread-local storage and of the
\* files of its process.
Fork(c) ==
    /\ q[c] = "unborn" /\ ForkOf[c] # None /\ q[ForkOf[c]] = "alive"
    /\ stage[ForkOf[c]] \in {"none", "greeted"}
    /\ q' = [q EXCEPT ![c] = "alive"]
    /\ hook' = [hook EXCEPT ![c] = hook[ForkOf[c]]]
    /\ holders' = [d \in Clients |-> IF PidOf[ForkOf[c]] \in holders[d]
                                     THEN holders[d] \cup {PidOf[c]} ELSE holders[d]]
    /\ UNCHANGED <<vars, serverVars, stage, name, header, through>>

\* Connections that no thread of the process drops end with the process.
Closed(open, p, gone) ==
    [d \in Clients |-> IF Alive(p) \subseteq gone THEN open[d] \ {p} ELSE open[d]]

\* Mutant: the name stays until the server removes it.
ExitLeaking(c) ==
    /\ q[c] = "alive" /\ stage[c] \in {"none", "greeted"}
    /\ q' = [q EXCEPT ![c] = "ended"]
    /\ holders' = Closed([d \in Clients |-> IF d = hook[c].state THEN holders[d] \ {PidOf[c]}
                                                                  ELSE holders[d]],
                         PidOf[c], {c})
    /\ UNCHANGED <<vars, serverVars, hook, stage, name, header, through>>

\* Mutant: the connection stays open until the process ends.
ExitUnclosed(c) ==
    /\ q[c] = "alive" /\ stage[c] \in {"none", "greeted"}
    /\ q' = [q EXCEPT ![c] = "ended"]
    /\ name' = [d \in Clients |-> IF d = hook[c].state THEN "gone" ELSE name[d]]
    /\ holders' = Closed(holders, PidOf[c], {c})
    /\ UNCHANGED <<vars, serverVars, hook, stage, header, through>>

\* A thread ends: the drop of its HookState removes the name and closes the
\* connection.  A state that with_hook overwrote was never dropped.
Exit(c) ==
    /\ q[c] = "alive" /\ stage[c] \in {"none", "greeted"}
    /\ q' = [q EXCEPT ![c] = "ended"]
    /\ LET s == hook[c].state IN
       /\ name' = [d \in Clients |-> IF d = s THEN "gone" ELSE name[d]]
       /\ holders' = Closed([d \in Clients |-> IF d = s THEN holders[d] \ {PidOf[c]} ELSE holders[d]],
                            PidOf[c], {c})
    /\ UNCHANGED <<vars, serverVars, hook, stage, header, through>>

\* The process is killed, or calls exit_group: no destructor runs.
Killed(p) ==
    /\ q' = [c \in Clients |-> IF c \in Alive(p) THEN "killed" ELSE q[c]]
    /\ holders' = [d \in Clients |-> holders[d] \ {p}]

Kill(p) ==
    /\ Alive(p) # {}
    /\ Killed(p)
    /\ UNCHANGED <<vars, serverVars, hook, stage, name, header, through>>

-----------------------------------------------------------------------------
(* The first use of a hook by a thread: HookState::default. *)

\* with_hook has to make a state: there is none, or it is another thread's.
NeedsState(c) == q[c] = "alive" /\ hook[c].tid # c

Goes(c, to) == stage' = [stage EXCEPT ![c] = to]

\* SendPipe::create makes the name.  ftruncate or mmap may fail and leave it
\* there: create returns an error, the expect panics, and QEMU aborts.
CreateName(c) ==
    /\ NeedsState(c) /\ stage[c] = "none"
    /\ name' = [name EXCEPT ![c] = "exists"]
    /\ \/ Goes(c, "named") /\ UNCHANGED <<q, holders>>
       \/ Failures /\ Killed(PidOf[c]) /\ UNCHANGED stage
    /\ UNCHANGED <<vars, serverVars, hook, header, through>>

\* The header and the flags, and with them the end of create.
WriteHeader(c) ==
    /\ q[c] = "alive" /\ stage[c] = "named"
    /\ header' = [header EXCEPT ![c] = TRUE]
    /\ Goes(c, "mapped")
    /\ UNCHANGED <<vars, serverVars, q, hook, name, holders, through>>

\* TcpStream::connect: it succeeds as long as there is a listener.
ConnectServer(c) ==
    /\ q[c] = "alive" /\ stage[c] = "mapped"
    /\ \/ /\ listening
          /\ Goes(c, "connected")
          /\ holders' = [holders EXCEPT ![c] = {PidOf[c]}]
          /\ UNCHANGED q
       \/ ~listening /\ Killed(PidOf[c]) /\ UNCHANGED stage
    /\ UNCHANGED <<vars, serverVars, hook, name, header, through>>

\* The header and the names of the processes go out; with_hook has its state.
\* Without the listener a connection that was never accepted may be reset.
Greet(c) ==
    /\ q[c] = "alive" /\ stage[c] = "connected"
    /\ \/ /\ Goes(c, "greeted")
          /\ hook' = [hook EXCEPT ![c] = [tid |-> c, state |-> c]]
          /\ UNCHANGED <<q, holders>>
       \/ /\ ~listening /\ pc[c] = "new"
          /\ Killed(PidOf[c])
          /\ UNCHANGED <<stage, hook>>
    /\ UNCHANGED <<vars, serverVars, name, header, through>>

\* Mutant: the thread id next to the state is not looked at.
SendAny(c) ==
    /\ q[c] = "alive" /\ hook[c] # NoHook /\ stage[c] \in {"none", "greeted"}
    /\ through' = [through EXCEPT ![c] = @ \cup ({hook[c].state} \ {c})]
    /\ UNCHANGED <<vars, serverVars, q, hook, stage, name, header, holders>>

\* with_hook finds the thread's own state, a chunk goes through its pipe.
Send(c) ==
    /\ q[c] = "alive" /\ hook[c].tid = c
    /\ through' = [through EXCEPT ![c] = @ \cup ({hook[c].state} \ {c})]
    /\ UNCHANGED <<vars, serverVars, q, hook, stage, name, header, holders>>

-----------------------------------------------------------------------------
(* The server. *)

Accepted == {c \in Clients : pc[c] # "new"}

\* accept: run does it once.
Accept(c) ==
    /\ listening /\ stage[c] \in {"connected", "greeted"}
    /\ forever \/ Accepted = {}
    /\ Connect(c)
    /\ UNCHANGED <<targetVars, serverVars>>

\* What RecvPipe::open checks.
Usable(c) ==
    stage[c] = "greeted" /\ name[c] = "exists" /\ header[c] /\ c \in Matches

\* RecvPipe::open.  It takes the name away before it looks at the header, as
\* it has no further use for it; without a header, or with another one, the
\* connection's thread panics.  So it does if there was no greeting.
Open(c) ==
    /\ stage[c] = "greeted" \/ holders[c] = {}
    /\ OpenPipe(c)
    /\ pc'[c] = "acquire" => Usable(c)
    /\ name' = IF stage[c] = "greeted" /\ name[c] = "exists"
               THEN [name EXCEPT ![c] = "gone"] ELSE name
    /\ UNCHANGED <<q, hook, stage, header, holders, through, serverVars>>

\* The polling threads end when the connection is closed at the other end.
EndServe(c) ==
    /\ Serve(c)
    /\ pc'[c] = "cleanup" => holders[c] = {}
    /\ UNCHANGED <<targetVars, serverVars>>

Ended == {"done", "failed", "panicked"}

\* handle_connection is over: run returns, and with it the program.
Return ==
    /\ listening /\ ~forever
    /\ \E c \in Clients : pc[c] \in Ended
    /\ listening' = FALSE
    /\ UNCHANGED <<vars, targetVars, forever>>

Server(c) ==
    \/ Accept(c) \/ Open(c) \/ EndServe(c)
    \/ (GetContext(c) \/ Cleanup(c)) /\ UNCHANGED <<targetVars, serverVars>>

Target(c) ==
    \/ CreateName(c) \/ WriteHeader(c) \/ ConnectServer(c) \/ Greet(c) \/ Send(c)

LNext ==
    \/ \E c \in Clients : Start(c) \/ Fork(c) \/ Exit(c) \/ Target(c) \/ Server(c)
    \/ \E p \in Pids : Kill(p)
    \/ Return

LSpec == LInit /\ [][LNext]_lvars

\* What happens unless something fails: a pipe that is not usable is refused.
Serves(c) == Server(c) /\ (pc'[c] = "failed" => pc[c] = "open" /\ ~Usable(c))

\* The threads of the server are scheduled, and those of the target while they
\* make their state; failures need not happen, and the target ends when it
\* likes.
LFairSpec ==
    /\ LSpec
    /\ \A c \in Clients : WF_lvars(Serves(c)) /\ WF_lvars(Target(c))

-----------------------------------------------------------------------------
(* Correctness. *)

\* A thread's events go through its own pipe, also after a fork that left it a
\* copy of its parent's state: the server never mixes two threads.
OwnPipe == \A c \in Clients : through[c] = {}

\* The server maps a pipe only when it is complete and its own kind, and then
\* no name leads to the memory any more: it goes with its last mapping.  Names
\* are left behind only by threads that were killed, or whose connection was
\* never served: not by those that end in an orderly way.
PipeComplete ==
    \A c \in Clients :
        /\ pc[c] \in {"acquire", "serve", "cleanup", "done"} =>
              header[c] /\ c \in Matches /\ name[c] = "gone"
        /\ (name[c] = "exists" /\ q[c] # "alive") => q[c] = "killed"

\* Every thread that has its state is accepted by the server (README.md 133, "This
\* should work even for large, many-threaded applications!").
EveryThreadServed ==
    \A c \in Clients : (hook[c].tid = c) ~> (pc[c] # "new" \/ q[c] # "alive")

\* The server notices the end of a thread it has accepted, and run_forever
\* accepts all of them, unless a child that was forked by its process holds
\* the connection open (lib.rs 741-743).
EndNoticed ==
    \A c \in Clients :
        (stage[c] = "greeted" /\ q[c] # "alive" /\ (forever \/ pc[c] # "new"))
            ~> (pc[c] \in Ended \/ holders[c] \ {PidOf[c]} # {})
=============================================================================
