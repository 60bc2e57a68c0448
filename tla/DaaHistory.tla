----------------------------- MODULE DaaHistory -----------------------------
(***************************************************************************)
(* The line interface with what its counters are supposed to stand for:    *)
(* histories of the rings and tone pulses the ISRs have really handled.    *)
(* They are written in the steps that handle them and read by properties   *)
(* only.                                                                   *)
(***************************************************************************)
EXTENDS Daa

VARIABLES
  train,     (* rings handled since the line last stayed silent           *)
  flashed,   (* did the last ring end the silence of a hook flash?        *)
  rung,      (* rings handled since the line was last put on hook         *)
  pulses     (* intervals in the window since the tone last hung up       *)

history == <<train, flashed, rung, pulses>>
hvars   == <<vars, history>>

HInit == Init /\ train = 0 /\ flashed = FALSE /\ rung = 0 /\ pulses = 0

HandlesRing == pc["ring"] = "snapshot" /\ pc'["ring"] = "store"
PutsOnHook  == IsOffhook /\ ~IsOffhook'
CountsPulse == pc["tone"] = "decide" /\ pc'["tone"] = "count"
EndsPulses  == pc["tone"] = "hung" /\ pc'["tone"] = "finish"

(* A silence is that of a hook flash if it follows up to three rings of the *)
(* count that ringIsr has read, and lasts a minute at most.                *)
Flash   == hookFlash /\ ringIsr.count \in 1 .. 3 /\ ringIsr.gap <= 60000
Silence == ringIsr.gap > 7000

Record ==
  /\ train' = CASE HandlesRing /\ Silence /\ ~Flash -> 1
                [] HandlesRing /\ (~Silence \/ Flash) -> Saturate(train + 1)
                [] OTHER -> train
  /\ flashed' = IF HandlesRing THEN Silence /\ Flash ELSE flashed
  /\ rung' = IF PutsOnHook THEN 0
             ELSE IF HandlesRing THEN Saturate(rung + 1) ELSE rung
  /\ pulses' = IF CountsPulse THEN Saturate(pulses + 1)
               ELSE IF EndsPulses THEN 0 ELSE pulses

HNext == Next /\ Record
HSpec == HInit /\ [][HNext]_hvars

-----------------------------------------------------------------------------
(* The histories are recorded up to RingCap. *)
ASSUME PulseAssumption == \A s \in ToneSettings : s.pulses <= RingCap

(* The line is seized by a call that rang as often as the application      *)
(* asked for when the ring was handled, rings of earlier calls left out,   *)
(* or by the ring that follows the pause of a hook flash, which is never   *)
(* longer than a minute and never follows a fourth ring.                   *)
AnswerEarned ==
  pc["ring"] = "answer" => train >= ringIsr.before \/ flashed

(* Detection hangs up after at least tonePulseBeforeHanghup edges that     *)
(* came in the window, none of them counted for an earlier hang-up.        *)
HangupEarned ==
  pc["tone"] = "hang" => pulses >= toneIsr.set.pulses

(* While nothing runs, ringingSinceHangup() counts no ring from before the *)
(* line was last put on hook.                                              *)
RingsCountedSinceHangup ==
  (\A t \in Threads : Idle(t)) => ringingSinceHangup <= rung
=============================================================================
