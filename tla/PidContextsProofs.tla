------------------------- MODULE PidContextsProofs -------------------------
(* Proofs about PidContexts, for any number of processes and of threads. *)
EXTENDS PidContexts, FiniteSetTheorems, TLAPS

\* A context in the map was made for its pid, and has a connection that uses
\* it, is about to look at its count, or has left without doing so.
Accounted ==
    \A p \in Pids : contexts[p] # None =>
        /\ PidOf[contexts[p]] = p
        /\ \E c \in Clients :
              PidOf[c] = p /\ pc[c] \in {"serve", "cleanup", "failed", "panicked"}

\* References are held exactly while serving.
HeldInv == \A c \in Clients : held[c] # None <=> pc[c] = "serve"

IInv == TypeOK /\ HeldInv /\ InUseKept /\ Accounted

\* The count is one exactly when no connection refers to the context.
LEMMA CountOne ==
    ASSUME NEW p \in Pids
    PROVE  StrongCount(p) = 1 <=> Users(p) = {}
<1>1. IsFiniteSet(Users(p))
    BY PidAssumption, FS_Subset DEF Users
<1>2. Cardinality(Users(p)) \in Nat /\ (Cardinality(Users(p)) = 0 <=> Users(p) = {})
    BY <1>1, FS_CardinalityType, FS_EmptySet
<1> QED
    BY <1>2 DEF StrongCount

\* Before any connection there is no context and nobody holds one.
LEMMA InvInit == Init => IInv
BY PidAssumption DEF Init, IInv, TypeOK, PCs, HeldInv, InUseKept, Accounted

\* Taking the context of the pid, or making it.
LEMMA GetContextStep ==
    ASSUME IInv, NEW c \in Clients, GetContext(c)
    PROVE  IInv'
<1> USE PidAssumption DEF IInv, TypeOK, PCs, HeldInv, InUseKept, Accounted, Goto
<1>1. CASE poisoned
    BY <1>1 DEF GetContext
<1>2. CASE ~poisoned
    <2> DEFINE ctx == IF contexts[PidOf[c]] = None THEN c ELSE contexts[PidOf[c]]
    <2>1. /\ contexts' = [contexts EXCEPT ![PidOf[c]] = ctx]
          /\ held' = [held EXCEPT ![c] = ctx]
          /\ pc' = [pc EXCEPT ![c] = "serve"]
          /\ poisoned' = poisoned
          /\ ctx \in Clients /\ PidOf[c] \in Pids
        BY <1>2 DEF GetContext
    \* If the map had no context of the pid then nobody holds one.
    <2>2. \A d \in Clients : PidOf[d] = PidOf[c] /\ held[d] # None => held[d] = ctx
        OBVIOUS
    <2>3. PidOf[ctx] = PidOf[c]
        OBVIOUS
    <2> HIDE DEF ctx
    <2>4. TypeOK' /\ HeldInv'
        BY <2>1
    <2>5. InUseKept'
        BY <2>1, <2>2
    <2>6. Accounted'
        <3>1. pc'[c] = "serve" /\ \A d \in Clients \ {c} : pc'[d] = pc[d]
            BY <2>1
        <3>2. contexts'[PidOf[c]] = ctx
              /\ \A p \in Pids \ {PidOf[c]} : contexts'[p] = contexts[p]
            BY <2>1
        <3>3. pc[c] = "acquire"
            BY DEF GetContext
        <3> QED
            BY <2>1, <2>3, <3>1, <3>2, <3>3
    <2> QED
        BY <2>4, <2>5, <2>6
<1> QED
    BY <1>1, <1>2

\* The removal: nobody refers to the entry, so nobody misses it.
LEMMA CleanupStep ==
    ASSUME IInv, NEW c \in Clients, Cleanup(c)
    PROVE  IInv'
<1> USE PidAssumption DEF IInv, TypeOK, PCs, HeldInv, Goto
<1>1. CASE poisoned \/ contexts[PidOf[c]] = None
    <2>1. /\ pc' = [pc EXCEPT ![c] = "panicked"] /\ pc[c] = "cleanup"
          /\ contexts' = contexts /\ held' = held /\ poisoned' \in BOOLEAN
        BY <1>1 DEF Cleanup
    <2>2. TypeOK' /\ HeldInv' /\ InUseKept'
        BY <2>1 DEF InUseKept
    <2>3. \A d \in Clients : pc[d] \in {"serve", "cleanup", "failed", "panicked"} =>
                pc'[d] \in {"serve", "cleanup", "failed", "panicked"}
        BY <2>1
    <2>4. Accounted'
        BY <2>1, <2>3 DEF Accounted
    <2> QED
        BY <2>2, <2>4
<1>2. CASE ~poisoned /\ contexts[PidOf[c]] # None
    <2>1. /\ pc' = [pc EXCEPT ![c] = "done"]
          /\ held' = held /\ poisoned' = poisoned
          /\ pc[c] = "cleanup" /\ PidOf[c] \in Pids
        BY <1>2 DEF Cleanup
    <2>2. CASE Users(PidOf[c]) = {}
        <3>1. contexts' = [contexts EXCEPT ![PidOf[c]] = None]
            BY <1>2, <2>1, <2>2, CountOne DEF Cleanup
        <3>2. \A d \in Clients : PidOf[d] = PidOf[c] => held[d] = None
            BY <2>2 DEF Users, InUseKept
        <3> QED
            BY <2>1, <3>1, <3>2 DEF InUseKept, Accounted
    <2>3. CASE Users(PidOf[c]) # {}
        <3>1. contexts' = contexts
            BY <1>2, <2>1, <2>3, CountOne DEF Cleanup
        <3>2. PICK d \in Clients : held[d] # None /\ held[d] = contexts[PidOf[c]]
            BY <2>3 DEF Users
        <3>3. PidOf[d] = PidOf[c] /\ pc[d] = "serve" /\ d # c
            BY <1>2, <2>1, <3>2 DEF InUseKept, Accounted
        <3> QED
            BY <2>1, <3>1, <3>3 DEF InUseKept, Accounted
    <2> QED
        BY <2>2, <2>3
<1> QED
    BY <1>1, <1>2

\* Every step of a connection keeps the invariant.
LEMMA InvStep ==
    ASSUME IInv, [Next]_vars
    PROVE  IInv'
<1> USE PidAssumption
<1>1. ASSUME NEW c \in Clients, Connect(c) \/ OpenPipe(c) \/ Serve(c)
      PROVE  IInv'
    <2>1. /\ contexts' = contexts /\ poisoned' = poisoned
          /\ \A d \in Clients \ {c} : pc'[d] = pc[d] /\ held'[d] = held[d]
          /\ pc' \in [Clients -> PCs] /\ held' \in [Clients -> Clients \cup {None}]
          /\ held'[c] = None /\ pc'[c] \in PCs \ {"serve"}
          /\ pc[c] = "serve" => pc'[c] \in {"cleanup", "failed"}
          /\ pc[c] \in {"new", "open", "serve"}
        BY <1>1 DEF IInv, TypeOK, PCs, HeldInv, Connect, OpenPipe, Serve, Goto
    <2>2. TypeOK' /\ HeldInv' /\ InUseKept'
        BY <2>1 DEF IInv, TypeOK, HeldInv, InUseKept
    <2>3. \A d \in Clients : pc[d] \in {"serve", "cleanup", "failed", "panicked"} =>
                pc'[d] \in {"serve", "cleanup", "failed", "panicked"}
        BY <2>1
    <2>4. Accounted'
        BY <2>1, <2>3 DEF IInv, Accounted
    <2> QED
        BY <2>2, <2>4 DEF IInv
<1>2. CASE UNCHANGED vars
    BY <1>2 DEF vars, IInv, TypeOK, HeldInv, InUseKept, Accounted
<1> QED
    BY <1>1, <1>2, GetContextStep, CleanupStep DEF Next, Connection

\* Connections of one process share one context, and it stays in the map for
\* as long as one of them is served.
THEOREM InUseTheorem == Spec => []InUseKept
BY InvInit, InvStep, PTL DEF Spec, IInv

\* No context is left behind by connections that all reached the cleanup.
THEOREM CollectedTheorem == Spec => []Collected
<1>1. IInv => Collected
    BY DEF IInv, Accounted, Collected
<1> QED
    BY <1>1, InvInit, InvStep, PTL DEF Spec
=============================================================================
