-------------------------------- MODULE MCDaa --------------------------------
(* Constants of the model-checking runs of the line interface. *)
EXTENDS Daa

(* daa-demo: setHangupToneDetect(true, 6, 450, 650), with 3 pulses for 6. *)
Busy    == [enable |-> TRUE, pwMin |-> 450, pwMax |-> 650, pulses |-> 3]
BusyOff == [Busy EXCEPT !.enable = FALSE]
(* Another tone, which shares no field but "enable" with the first. *)
Other   == [enable |-> TRUE, pwMin |-> 200, pwMax |-> 300, pulses |-> 2]

DemoTones == {Busy, BusyOff}
TwoTones  == {Busy, Other}
NoTones   == {}
BusyOnly  == {Busy}

(* Both sides of the two thresholds of ringIsr. *)
AllGaps   == {7000, 7001, 60000, 60001}
(* Both sides of the window of each tone. *)
AllPulses == {300, 301, 449, 450, 650, 651}
TwoPulses == {450, 651}
=============================================================================
