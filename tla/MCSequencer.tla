---------------------------- MODULE MCSequencer ----------------------------
(* A small instance of Sequencer for TLC.  The threads never look at a chunk *)
(* but for whether it parses, so a few orders of chunks stand for all: two   *)
(* that are alike around one that is not, and a bad one between good ones.   *)
EXTENDS Sequencer, SequencesExt

CONSTANTS p, q, bad

Orders == {<<p, q, p>>, <<p, bad, q>>}

MCNext == Next /\ \E order \in Orders : IsPrefix(sent', order)

MCSpec == Init /\ [][MCNext]_vars /\ \A t \in Threads : WF_vars(Thread(t))
=============================================================================
