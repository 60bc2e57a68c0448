-------------------------------- MODULE MCTts --------------------------------
(* Scripts for the model-checking runs of the speech service. *)
EXTENDS Tts, TLC

CONSTANTS main, keys, rings, p1, p2, p3

Write(p) == [op |-> "write", phrase |-> p]
Add(p)   == [op |-> "append", phrase |-> p]
Say      == [op |-> "say"]

(* tts-demo has one thread; piphons-demo says texts from two handlers. *)
OneScript == main :> <<Write(p1), Say, Add(p2), Say, Write(p3), Say>>
TwoScript == (rings :> <<Write(p1), Say>>) @@ (keys :> <<Write(p2), Say>>)
(* The client and a handler, which composes its text in two parts. *)
MixScript == (main :> <<Write(p1), Say, Write(p3), Say>>)
             @@ (keys :> <<Write(p2), Add(p3), Say>>)
=============================================================================
