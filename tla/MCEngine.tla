------------------------------ MODULE MCEngine ------------------------------
(* What the disk and the application may offer to the speech engine. *)
EXTENDS Engine

Paths   == <<"home", "local", "system">>
First   == Head(IsoCodes)
French  == <<"fr", "FR">>
Asked   == {First, French, <<"xx", "XX">>}

Missing == [d \in Range(Paths) |-> {}]
SomeDisks == {Missing,
  [Missing EXCEPT !["system"] = Files],
  (* The user has the first voice only. *)
  [Missing EXCEPT !["home"] = {Ta(First), Sg(First)}, !["system"] = Files],
  (* Half of a voice is missing. *)
  [Missing EXCEPT !["local"] = Files \ {Sg(French)}],
  [Missing EXCEPT !["local"] = Files \ {Sg(First)}, !["system"] = Files]}

(* Both sides of every limit of formatText(). *)
Limits == {-1, 0, 19, 20, 49, 50, 100, 200, 201, 500, 501}
=============================================================================
