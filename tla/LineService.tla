---------------------------- MODULE LineService ----------------------------
(***************************************************************************)
(* What the line interface promises to an application: while it is live,   *)
(* that is from the call of open() to the return of close(), the line may  *)
(* be seized and released, and two handlers may run.  The one of an answer *)
(* begins when a ring seizes the line, the one of a busy tone when it      *)
(* releases the line; close() waits for both.  Otherwise nothing moves.    *)
(*                                                                         *)
(* Daa is shown to implement it, and VoiceServer is built on it.           *)
(***************************************************************************)

VARIABLES live, seized,
          answering,    (* does the handler of the answer run?    *)
          hanging       (* does the handler of the busy tone run? *)

Init == ~live /\ seized \in BOOLEAN /\ ~answering /\ ~hanging

Open ==
  /\ ~live /\ live' = TRUE
  /\ seized' = FALSE
  /\ UNCHANGED <<answering, hanging>>

(* A ring, the application or one of its handlers moves the hook. *)
Hook(v) == live /\ seized' = v /\ UNCHANGED <<live, answering, hanging>>

Answer ==
  /\ live
  /\ ~answering /\ answering' = TRUE
  /\ seized' = TRUE
  /\ UNCHANGED <<live, hanging>>

(* The handler may move the hook before it returns. *)
Answered ==
  /\ answering /\ answering' = FALSE
  /\ seized' \in BOOLEAN
  /\ UNCHANGED <<live, hanging>>

HangUp ==
  /\ live
  /\ ~hanging /\ hanging' = TRUE
  /\ seized' = FALSE
  /\ UNCHANGED <<live, answering>>

HungUp ==
  /\ hanging /\ hanging' = FALSE
  /\ seized' \in BOOLEAN
  /\ UNCHANGED <<live, answering>>

Close ==
  /\ live /\ live' = FALSE
  /\ ~answering /\ ~hanging
  /\ UNCHANGED <<seized, answering, hanging>>

Next == \/ Open \/ \E v \in BOOLEAN : Hook(v)
        \/ Answer \/ Answered \/ HangUp \/ HungUp \/ Close

Spec == Init /\ [][Next]_<<live, seized, answering, hanging>>
=============================================================================
