--------------------------- MODULE MCPidContexts ---------------------------
(* Three threads of one process and one of another. *)
EXTENDS PidContexts

CONSTANTS c1, c2, c3, d1, p, q

MCPidOf == [c \in Clients |-> IF c = d1 THEN q ELSE p]
=============================================================================
