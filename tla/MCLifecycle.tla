---------------------------- MODULE MCLifecycle ----------------------------
(* Two threads of a process, and a child forked by the first of them. *)
EXTENDS Lifecycle

CONSTANTS c1, c2, d1, p, r

MCPidOf == [c \in Clients |-> IF c = d1 THEN r ELSE p]
MCForkOf == [c \in Clients |-> IF c = d1 THEN c1 ELSE None]
=============================================================================
