-------------------------- MODULE OrderedDelivery --------------------------
(***************************************************************************)
(* What a stage of the voice server promises to the one before it: items   *)
(* are delivered once each, unchanged, in the order they were handed over. *)
(* When the stage is shut down it may forget the newest ones.              *)
(*                                                                         *)
(* Dtmf is such a stage for the keys of the caller, Tts for the texts of   *)
(* the application.                                                        *)
(***************************************************************************)
EXTENDS Naturals, Sequences

CONSTANTS Item,     (* what is handed over          *)
          Nothing   (* stands for no item delivered *)

VARIABLES queue,    (* items handed over, not yet delivered *)
          last      (* the last item delivered              *)

Init == queue = <<>> /\ last = Nothing

Accept(i) == queue' = Append(queue, i) /\ UNCHANGED last

Deliver ==
  /\ queue # <<>>
  /\ last' = Head(queue)
  /\ queue' = Tail(queue)

Forget ==
  /\ \E n \in 0 .. Len(queue) : queue' = SubSeq(queue, 1, n)
  /\ UNCHANGED last

(* Item may be infinite: an item accepted is found at the end of queue'.   *)
AcceptItem ==
  /\ queue' # <<>>
  /\ LET i == queue'[Len(queue')] IN i \in Item /\ Accept(i)

Next == AcceptItem \/ Deliver \/ Forget

Spec == Init /\ [][Next]_<<queue, last>>
=============================================================================
