---------------------------- MODULE PidContexts ----------------------------
(***************************************************************************)
(* cannoli/src/lib.rs: the connections of a server (run_forever gives each *)
(* its own thread) and the map PID_CONTEXTS that they share.  A client is  *)
(* one target thread; clients of one process have the same pid.  A context *)
(* is named by the client whose connection created it.                     *)
(*                                                                         *)
(* The two critical sections of PID_CONTEXTS are one step each: the map    *)
(* changes only under its mutex, and outside of it a reference count can   *)
(* only go down.                                                           *)
(***************************************************************************)
EXTENDS Naturals, FiniteSets

CONSTANTS Clients,    \* the target threads that connect
          Pids,       \* their process ids
          PidOf,      \* the process id of each client
          Failures,   \* whether opening the pipe or serving may fail
          None        \* no context

ASSUME PidAssumption ==
    /\ IsFiniteSet(Clients) /\ None \notin Clients
    /\ PidOf \in [Clients -> Pids]
    /\ Failures \in BOOLEAN

VARIABLES contexts,   \* PID_CONTEXTS: the context of each pid, or None
          poisoned,   \* whether a thread panicked with the mutex held
          pc, held    \* each connection: where it is, and its any_pid_context

vars == <<contexts, poisoned, pc, held>>

PCs == {"new", "open", "acquire", "serve", "cleanup", "done", "failed", "panicked"}

\* The map has one entry or none per pid, and a connection one context or none.
TypeOK ==
    /\ contexts \in [Pids -> Clients \cup {None}]
    /\ poisoned \in BOOLEAN
    /\ pc \in [Clients -> PCs]
    /\ held \in [Clients -> Clients \cup {None}]

Init ==
    /\ contexts = [p \in Pids |-> None]
    /\ poisoned = FALSE
    /\ pc = [c \in Clients |-> "new"]
    /\ held = [c \in Clients |-> None]

Goto(c, label) == pc' = [pc EXCEPT ![c] = label]

\* The connections that hold a reference to the context of pid p.
Users(p) == {c \in Clients : held[c] # None /\ held[c] = contexts[p]}

\* Arc::strong_count of the map's entry for p.
StrongCount(p) == 1 + Cardinality(Users(p))

-----------------------------------------------------------------------------
\* run_forever accepts the connection and gives it a thread.
Connect(c) ==
    /\ pc[c] = "new"
    /\ Goto(c, "open")
    /\ UNCHANGED <<contexts, poisoned, held>>

\* RecvPipe::open and set_nonblocking.
OpenPipe(c) ==
    /\ pc[c] = "open"
    /\ \/ Goto(c, "acquire")
       \/ Failures /\ Goto(c, "failed")
    /\ UNCHANGED <<contexts, poisoned, held>>

\* lock().unwrap() and the entry of the pid, made by init_pid if it is vacant.
GetContext(c) ==
    /\ pc[c] = "acquire"
    /\ \/ /\ poisoned
          /\ Goto(c, "panicked")
          /\ UNCHANGED <<contexts, held>>
       \/ /\ ~poisoned
          /\ LET ctx == IF contexts[PidOf[c]] = None THEN c ELSE contexts[PidOf[c]]
             IN  /\ contexts' = [contexts EXCEPT ![PidOf[c]] = ctx]
                 /\ held' = [held EXCEPT ![c] = ctx]
          /\ Goto(c, "serve")
    /\ UNCHANGED poisoned

\* Mutant: the reference is still there when the count is read.
ServeKeeping(c) ==
    /\ pc[c] = "serve"
    /\ Goto(c, "cleanup")
    /\ UNCHANGED <<contexts, poisoned, held>>

\* The scope of threads ends.  An error of one of them leaves handle_client at
\* once, past the cleanup; either way the connection's reference is dropped.
Serve(c) ==
    /\ pc[c] = "serve"
    /\ \/ Goto(c, "cleanup")
       \/ Failures /\ Goto(c, "failed")
    /\ held' = [held EXCEPT ![c] = None]
    /\ UNCHANGED <<contexts, poisoned>>

\* Mutant: the entry goes without a look at the count.
CleanupAlways(c) ==
    /\ pc[c] = "cleanup"
    /\ contexts' = [contexts EXCEPT ![PidOf[c]] = None]
    /\ Goto(c, "done")
    /\ UNCHANGED <<poisoned, held>>

\* lock().unwrap(), the index contexts[&pid] that panics with the lock held if
\* there is no such entry, and the removal of an entry nobody else refers to.
Cleanup(c) ==
    /\ pc[c] = "cleanup"
    /\ \/ /\ poisoned
          /\ Goto(c, "panicked")
          /\ UNCHANGED <<contexts, poisoned>>
       \/ /\ ~poisoned /\ contexts[PidOf[c]] = None
          /\ poisoned' = TRUE
          /\ Goto(c, "panicked")
          /\ UNCHANGED contexts
       \/ /\ ~poisoned /\ contexts[PidOf[c]] # None
          /\ contexts' = IF StrongCount(PidOf[c]) = 1
                         THEN [contexts EXCEPT ![PidOf[c]] = None]
                         ELSE contexts
          /\ Goto(c, "done")
          /\ UNCHANGED poisoned
    /\ UNCHANGED held

Connection(c) == \/ Connect(c) \/ OpenPipe(c) \/ GetContext(c)
                 \/ Serve(c) \/ Cleanup(c)

Next == \E c \in Clients : Connection(c)

Spec == Init /\ [][Next]_vars

-----------------------------------------------------------------------------
(* Correctness. *)

\* While connections of a process are served they all have the one context
\* that the map has for the pid: it is neither dropped from the map under
\* them nor created a second time ("shared between all threads in the target
\* process", lib.rs 972-973).
InUseKept ==
    \A c \in Clients :
        /\ pc[c] = "serve" => held[c] # None
        /\ held[c] # None => held[c] = contexts[PidOf[c]]

\* When every connection of a pid has gone through the cleanup, its context is
\* no longer in the map: a later process with that pid gets one of its own.
Collected ==
    \A p \in Pids :
        (\A c \in Clients : PidOf[c] = p => pc[c] \in {"new", "open", "acquire", "done"})
            => contexts[p] = None

\* The server handles clients in parallel (lib.rs 854): no order in which they
\* leave takes PID_CONTEXTS away from the ones that follow.
NeverPoisoned == ~poisoned
=============================================================================
