--------------------------- MODULE EngineService ---------------------------
(***************************************************************************)
(* What the speech engine, class Piphons::Tts::Engine (src/tts_engine.cpp), *)
(* promises to whoever has it speak: open() and play() say whether they    *)
(* succeed, only open() opens and only close(), which the destructor calls *)
(* too, closes the engine, and no play() succeeds on an engine that is not *)
(* open, unless the length of the text, kept in 16 bits, has wrapped to 0. *)
(* The text is the caller's: nothing is said of how "wrapped" changes.     *)
(*                                                                         *)
(* Engine is shown to implement it, and the parser of Tts, which plays     *)
(* with an open engine only, to keep to it.                                *)
(***************************************************************************)

VARIABLES
  open,     (* what isOpen() returns between two calls  *)
  success,  (* has the last open() or play() succeeded? *)
  wrapped   (* is the length of the text kept as 0?     *)

Init == ~open /\ success = FALSE

Open ==
  /\ ~open
  /\ open' \in BOOLEAN
  /\ success' = open'

(* open() on an engine that is open. *)
Refuse == open /\ success' = FALSE /\ UNCHANGED open

(* play() may fail at any time. *)
Play ==
  /\ success' \in BOOLEAN
  /\ success' => open \/ wrapped
  /\ UNCHANGED open

Close == open /\ open' = FALSE /\ UNCHANGED success

Next == Open \/ Refuse \/ Play \/ Close

Spec == Init /\ [][Next]_<<open, success>>
=============================================================================
