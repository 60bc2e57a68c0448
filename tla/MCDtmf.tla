------------------------------- MODULE MCDtmf -------------------------------
(* The two ways in which the decoder is used in its run. *)
EXTENDS Dtmf

(* Keys spaced as the decoder's timing makes them; both threads read.       *)
Orderly == [spaced |-> TRUE, handlerReads |-> TRUE, clientReads |-> TRUE]
(* Keys at any time, also while open() runs; only handlers read.            *)
Burst   == [spaced |-> FALSE, handlerReads |-> TRUE, clientReads |-> FALSE]

BothUsages == {Orderly, Burst}
=============================================================================
