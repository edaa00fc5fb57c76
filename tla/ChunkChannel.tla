---------------------------- MODULE ChunkChannel ----------------------------
(***************************************************************************)
(* What a memory pipe promises to its two ends, with no buffers in sight:  *)
(* the sender hands over payloads one after the other, the i-th of them    *)
(* (from zero) has sequence number i, and every payload is processed at    *)
(* most once, under its own number and with its own bytes.  At most        *)
(* Capacity payloads are handed over and not yet processed.                *)
(***************************************************************************)
EXTENDS Naturals, Sequences, FiniteSets

CONSTANTS Payload,    \* what one chunk can carry
          Capacity    \* chunks in flight

VARIABLES sent,       \* the payloads handed over, in order
          delivered   \* the processed ones, in order: [seq, data]

vars == <<sent, delivered>>

\* The sequence numbers processed so far.
Delivered == {delivered[i].seq : i \in DOMAIN delivered}

\* The sequence numbers handed over and not yet processed.
InFlight == (0 .. Len(sent) - 1) \ Delivered

Init == sent = <<>> /\ delivered = <<>>

Send == /\ Cardinality(InFlight) < Capacity
        /\ \E data \in Payload : sent' = Append(sent, data)
        /\ UNCHANGED delivered

Deliver == \E n \in InFlight :
              /\ delivered' = Append(delivered, [seq |-> n, data |-> sent[n + 1]])
              /\ UNCHANGED sent

Next == Send \/ Deliver

Spec == Init /\ [][Next]_vars
=============================================================================
