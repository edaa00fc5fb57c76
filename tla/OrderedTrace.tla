---------------------------- MODULE OrderedTrace ----------------------------
(***************************************************************************)
(* What the Cannoli server promises the user's trace() callback: one call  *)
(* per chunk of the target thread, in the order the thread sent them, with *)
(* the events of that chunk and no others.  A chunk that does not parse    *)
(* ends the trace.                                                         *)
(***************************************************************************)
EXTENDS Naturals, Sequences

CONSTANTS Payload,    \* the chunks
          Bad         \* those that parse_payload rejects

VARIABLES sent,       \* the chunks of the target thread, in order
          reported    \* the arguments of the calls of trace(), in order

vars == <<sent, reported>>

Init == sent = <<>> /\ reported = <<>>

Send == /\ \E p \in Payload : sent' = Append(sent, p)
        /\ UNCHANGED reported

Report == LET n == Len(reported) + 1
          IN  /\ n <= Len(sent)
              /\ sent[n] \notin Bad
              /\ reported' = Append(reported, <<sent[n]>>)
              /\ UNCHANGED sent

Next == Send \/ Report

Spec == Init /\ [][Next]_vars
=============================================================================
