-------------------------- MODULE DaaHistoryProofs --------------------------
(***************************************************************************)
(* Theorems that tie the counters of the line interface to the rings and   *)
(* the tone pulses it has handled, for every value of the constants.       *)
(***************************************************************************)
EXTENDS DaaHistory, DaaProofs

LEMMA HistoryStep == [HNext]_hvars => [Next]_vars
BY DEF HNext, hvars, vars

LEMMA HistoryInvariants == HSpec => [](TypeOK /\ ToneInv)
<1>1. HInit => Init
  BY DEF HInit
<1>2. HInit => TypeOK /\ ToneInv
  BY <1>1, InitType, ToneInit
<1>3. TypeOK /\ ToneInv /\ [HNext]_hvars => (TypeOK /\ ToneInv)'
  BY HistoryStep, NextType, ToneStep
<1> QED
  BY <1>2, <1>3, PTL DEF HSpec

-----------------------------------------------------------------------------
(* Rings: no counter is ahead of the rings of this call, except the shared  *)
(* one while a new count waits to be stored.                                *)

RingInv ==
  /\ train \in 0 .. RingCap
  /\ pc["ring"] # "store" => ringingSinceHangup <= train
  /\ ringIsr.count <= train
  /\ ringIsr.quick => flashed
  /\ pc["ring"] = "answer" => ringIsr.count >= ringIsr.before \/ ringIsr.quick

LEMMA RingInvInit == HInit => RingInv
BY DaaAssumption, RingCapAssumption DEF HInit, Init, RingInv, NoRing, Threads

(* Steps that neither handle a ring nor touch the locals of ringIsr. *)
LEMMA RingUntouched ==
  ASSUME RingInv, Record, UNCHANGED <<ringIsr, ringingSinceHangup>>,
         pc'["ring"] = pc["ring"]
  PROVE  RingInv'
BY DEF RingInv, Record, HandlesRing

LEMMA RingInvStep == TypeOK /\ RingInv /\ [HNext]_hvars => RingInv'
<1> SUFFICES ASSUME TypeOK, RingInv, [HNext]_hvars PROVE RingInv'
  OBVIOUS
<1> USE DEF TypeOK, settings, hook, tones, counts, locals
<1>1. CASE UNCHANGED hvars
  BY <1>1 DEF hvars, vars, history, RingInv
<1>2. CASE HNext /\ RingSnapshot
  <2> DEFINE r == ringIsr
  <2>1. HandlesRing
    BY <1>2 DEF RingSnapshot, HandlesRing, Go, At, Threads, Read
  <2>2. /\ r.count \in 0 .. RingCap /\ r.gap \in Nat
        /\ RingCap \in Nat /\ RingCap >= 8
        /\ train \in 0 .. RingCap /\ r.count <= train
    BY DaaAssumption, RingCapAssumption DEF RingRecord, RingInv
  <2>3. train' = IF Silence /\ ~Flash THEN 1 ELSE Saturate(train + 1)
    BY <1>2, <2>1 DEF HNext, Record
  <2>4. NextCount(r) <= train' /\ train' \in 0 .. RingCap
    BY <2>2, <2>3
    DEF NextCount, EndsSilence, IsFlash, Silence, Flash, Saturate
  <2>5. IsFlash(r) => flashed'
    <3>1. IsFlash(r) => Silence /\ Flash
      BY <2>2 DEF IsFlash, EndsSilence, Silence, Flash
    <3>2. flashed' = (Silence /\ Flash)
      BY <1>2, <2>1 DEF HNext, Record
    <3> QED
      BY <3>1, <3>2, Zenon
  <2>6. ringIsr'.count = NextCount(r) /\ ringIsr'.quick = IsFlash(r)
    BY <1>2 DEF RingSnapshot, Read
  <2>7. pc'["ring"] = "store"
    BY <2>1 DEF HandlesRing
  <2> QED
    BY <2>4, <2>5, <2>6, <2>7 DEF RingInv
<1>3. CASE HNext /\ ~RingSnapshot /\ (RingThread \/ RingStore)
  <2> USE DEF Go, At, Threads
  <2>1. ~HandlesRing => train' = train /\ flashed' = flashed
    BY <1>3 DEF HNext, Record
  <2>2. CASE \E g \in RingGaps : RingDispatch(g)
    BY <2>1, <2>2 DEF RingDispatch, NoRing, HandlesRing, RingInv
  <2>3. CASE RingStore
    BY <2>1, <2>3 DEF RingStore, HandlesRing, RingInv
  <2>4. CASE RingHandler \/ RingAnswer
    <3>1. /\ UNCHANGED <<ringIsr, ringingSinceHangup>>
          /\ pc["ring"] \in {"ringing", "answer"} /\ pc'["ring"] \in {"test", "answered"}
      BY <2>4 DEF RingHandler, RingAnswer
    <3> QED
      BY <2>1, <3>1 DEF HandlesRing, RingInv
  <2>5. CASE RingTest
    <3>1. /\ AfterTest = "answer" => ringIsr.count >= ringIsr.before \/ ringIsr.quick
          /\ AfterTest # "store"
      BY DEF AfterTest
    <3> QED
      BY <2>1, <2>5, <3>1, DaaAssumption DEF RingTest, NoRing, HandlesRing, RingInv
  <2>6. CASE RingAnswered \/ RingHang
    <3>1. /\ ringIsr' = NoRing /\ UNCHANGED ringingSinceHangup
          /\ pc["ring"] \in {"answered", "hang"} /\ pc'["ring"] = "idle"
      BY <2>6 DEF RingAnswered, RingHang, RingReturn
    <3>2. UNCHANGED <<train, flashed>>
      BY <2>1, <3>1 DEF HandlesRing
    <3> QED
      BY <3>1, <3>2, DaaAssumption DEF NoRing, RingInv
  <2> QED
    BY <1>3, <2>2, <2>3, <2>4, <2>5, <2>6 DEF RingThread
<1>4. CASE HNext /\ (ToneThread \/ ToneCount \/ ToneFinish)
  <2>1. UNCHANGED <<ringIsr, ringingSinceHangup>>
    BY <1>4
    DEF ToneThread, ToneDispatch, ToneSnapshot, ToneIgnore, ToneFirstEdge, TonePulse,
        ToneCount, ToneHang, ToneHung, ToneFinish, ToneReturn, Read, NextPulses, AfterHangup
  <2> QED
    BY <1>4, <2>1, ToneFrame, RingUntouched DEF HNext
<1>5. CASE HNext /\ Client
  <2>1. UNCHANGED <<ringIsr, ringingSinceHangup>> /\ pc'["ring"] = pc["ring"]
    <3>1. CASE Open \/ Close \/ Finishing
      BY <3>1
      DEF Open, Close, Finishing, AttachRing, AttachTone, Attach, Opened, DetachRing,
          JoinRing, DetachTone, JoinTone, Detach, Join, Closed, Go, Threads
    <3>2. CASE Configure \/ Hook
      BY <3>2
      DEF Configure, SetRingingBeforeOffhook, SetHookFlash, SetHandler,
          SetHangupToneDetect, Hook, ClientHook
    <3> QED
      BY <1>5, <3>1, <3>2 DEF Client
  <2> QED
    BY <1>5, <2>1, RingUntouched DEF HNext
<1>6. CASE HNext /\ \E t \in Threads : ResetCount(t)
  <2>1. ringingSinceHangup' = 0 /\ UNCHANGED <<ringIsr, pc>>
    BY <1>6 DEF ResetCount
  <2>2. UNCHANGED <<train, flashed>>
    BY <1>6, <2>1 DEF HNext, Record, HandlesRing
  <2> QED
    BY <2>1, <2>2, DaaAssumption DEF RingInv
<1>7. CASE HNext /\ \E p \in {"ring", "tone"} : Edge(p)
  <2>1. UNCHANGED <<ringIsr, ringingSinceHangup, pc>>
    BY <1>7 DEF Edge
  <2> QED
    BY <1>7, <2>1, RingUntouched DEF HNext
<1> QED
  BY <1>1, <1>2, <1>3, <1>4, <1>5, <1>6, <1>7 DEF HNext, Next, Store

(* No call is answered before it has rung as often as the application      *)
(* asked for, whatever hang-ups of the client and of the handlers          *)
(* interleave with the rings, but for the ring that ends a hook flash.     *)
THEOREM AnswersEarned == HSpec => []AnswerEarned
<1>1. TypeOK /\ RingInv => AnswerEarned
  <2> SUFFICES ASSUME TypeOK, RingInv, pc["ring"] = "answer"
               PROVE  train >= ringIsr.before \/ flashed
    BY DEF AnswerEarned
  <2>1. ringIsr.count \in Nat /\ ringIsr.before \in Nat /\ train \in Nat
    BY DaaAssumption DEF TypeOK, RingRecord, RingInv
  <2> QED
    BY <2>1 DEF RingInv
<1> QED
  BY <1>1, RingInvInit, RingInvStep, HistoryInvariants, PTL DEF HSpec

-----------------------------------------------------------------------------
(* Tone pulses.  The history stops at RingCap, which no limit exceeds.      *)

Covered(n) == n <= pulses \/ pulses = RingCap

(* The shared count is behind the history from the end of a hang-up, which *)
(* restarts the history, to the store that restarts the count.             *)
PulseInv ==
  /\ pulses \in 0 .. RingCap
  /\ pc["tone"] # "finish" => Covered(tonePulseCount)
  /\ Covered(toneIsr.count)
  /\ pc["tone"] = "hang" => toneIsr.count >= toneIsr.set.pulses

LEMMA PulseInvInit == HInit => PulseInv
BY DaaAssumption DEF HInit, Init, PulseInv, Covered, NoPulse, Threads

LEMMA PulseUntouched ==
  ASSUME PulseInv, Record, UNCHANGED <<toneIsr, tonePulseCount>>,
         pc'["tone"] = pc["tone"]
  PROVE  PulseInv'
BY DEF PulseInv, Covered, Record, CountsPulse, EndsPulses

LEMMA PulseInvStep == TypeOK /\ PulseInv /\ [HNext]_hvars => PulseInv'
<1> SUFFICES ASSUME TypeOK, PulseInv, [HNext]_hvars PROVE PulseInv'
  OBVIOUS
<1> USE DEF TypeOK, settings, hook, tones, counts, locals
<1>1. CASE UNCHANGED hvars
  BY <1>1 DEF hvars, vars, history, PulseInv, Covered
<1>2. CASE HNext /\ (ToneThread \/ ToneCount \/ ToneFinish)
  <2> USE DEF Go, At, Threads
  <2>1. ~CountsPulse /\ ~EndsPulses => pulses' = pulses
    BY <1>2 DEF HNext, Record
  <2>2. /\ RingCap \in Nat /\ pulses \in 0 .. RingCap
        /\ toneIsr.count \in Nat /\ tonePulseCount \in Nat
    BY DaaAssumption DEF PulseRecord, PulseInv
  <2>3. CASE ToneDispatch \/ ToneSnapshot
    <3>1. /\ toneIsr'.count \in {0, tonePulseCount} /\ UNCHANGED tonePulseCount
          /\ pc["tone"] \in {"idle", "snapshot"}
          /\ pc'["tone"] \in {"snapshot", "decide"}
      BY <2>3 DEF ToneDispatch, ToneSnapshot, NoPulse
    <3> QED
      BY <2>1, <2>2, <3>1 DEF PulseInv, Covered, CountsPulse, EndsPulses
  <2>4. CASE ToneIgnore \/ ToneFirstEdge
    <3>1. /\ toneIsr' = NoPulse /\ UNCHANGED tonePulseCount
          /\ pc["tone"] = "decide" /\ pc'["tone"] = "idle"
      BY <2>4 DEF ToneIgnore, ToneFirstEdge, ToneReturn, Read
    <3> QED
      BY <2>1, <2>2, <3>1 DEF PulseInv, Covered, CountsPulse, EndsPulses, NoPulse
  <2>5. CASE \E g \in PulseGaps : TonePulse(g)
    <3>1. /\ UNCHANGED tonePulseCount /\ pc["tone"] = "decide"
          /\ \/ toneIsr'.count = toneIsr.count + 1 /\ pc'["tone"] = "count"
             \/ UNCHANGED toneIsr /\ pc'["tone"] = "finish"
      BY <2>5 DEF TonePulse, PulseRecord, NextPulses
    <3>2. CASE pc'["tone"] = "count"
      <4>1. pulses' = Saturate(pulses + 1)
        BY <1>2, <3>1, <3>2 DEF HNext, Record, CountsPulse, EndsPulses
      <4> QED
        BY <2>2, <3>1, <3>2, <4>1 DEF PulseInv, Covered, Saturate
    <3>3. CASE pc'["tone"] = "finish"
      BY <2>1, <2>2, <3>1, <3>3 DEF PulseInv, Covered, CountsPulse, EndsPulses
    <3> QED
      BY <3>1, <3>2, <3>3
  <2>6. CASE ToneCount \/ ToneHang
    <3>1. /\ UNCHANGED toneIsr /\ tonePulseCount' \in {tonePulseCount, toneIsr.count}
          /\ pc["tone"] \in {"count", "hang"} /\ pc'["tone"] \in {"hang", "finish", "hung"}
          /\ pc'["tone"] = "hang" => toneIsr.count >= toneIsr.set.pulses
      <4>1. CASE ToneCount
        BY <4>1 DEF ToneCount
      <4>2. CASE ToneHang
        BY <4>2 DEF ToneHang
      <4> QED
        BY <2>6, <4>1, <4>2
    <3> QED
      BY <2>1, <2>2, <3>1 DEF PulseInv, Covered, CountsPulse, EndsPulses
  <2>7. CASE ToneHung
    <3>1. toneIsr'.count = 0 /\ pc["tone"] = "hung" /\ pc'["tone"] = "finish"
      BY <2>7 DEF ToneHung, PulseRecord, AfterHangup
    <3>2. pulses' = 0
      BY <1>2, <3>1 DEF HNext, Record, CountsPulse, EndsPulses
    <3> QED
      BY <2>2, <3>1, <3>2 DEF PulseInv, Covered
  <2>8. CASE ToneFinish
    <3>1. /\ toneIsr' = NoPulse /\ tonePulseCount' = toneIsr.count
          /\ pc["tone"] = "finish" /\ pc'["tone"] = "idle"
      BY <2>8 DEF ToneFinish, ToneReturn, Read
    <3> QED
      BY <2>1, <2>2, <3>1 DEF PulseInv, Covered, CountsPulse, EndsPulses, NoPulse
  <2> QED
    BY <1>2, <2>3, <2>4, <2>5, <2>6, <2>7, <2>8 DEF ToneThread
<1>3. CASE HNext /\ \E s \in ToneSettings : SetHangupToneDetect(s)
  <2>1. tonePulseCount' = 0 /\ UNCHANGED <<toneIsr, pc>>
    BY <1>3 DEF SetHangupToneDetect
  <2>2. pulses' = pulses
    BY <1>3, <2>1 DEF HNext, Record, CountsPulse, EndsPulses
  <2> QED
    BY <2>1, <2>2, DaaAssumption DEF PulseInv, Covered
<1>4. CASE HNext /\ (RingThread \/ RingStore)
  <2>1. UNCHANGED <<toneIsr, tonePulseCount>>
    BY <1>4
    DEF RingThread, RingDispatch, RingSnapshot, RingStore, RingHandler, RingTest,
        RingAnswer, RingAnswered, RingHang, RingReturn, Read
  <2> QED
    BY <1>4, <2>1, RingFrame, PulseUntouched DEF HNext
<1>5. CASE HNext /\ (Open \/ Close \/ Finishing)
  <2>1. UNCHANGED <<toneIsr, tonePulseCount>> /\ pc'["tone"] = pc["tone"]
    BY <1>5
    DEF Open, Close, Finishing, AttachRing, AttachTone, Attach, Opened, DetachRing,
        JoinRing, DetachTone, JoinTone, Detach, Join, Closed, Go, Threads
  <2> QED
    BY <1>5, <2>1, PulseUntouched DEF HNext
<1>6. CASE /\ HNext
           /\ \/ \E n \in RingLimits : SetRingingBeforeOffhook(n)
              \/ \E v \in BOOLEAN : SetHookFlash(v)
              \/ \E h \in UserHandlers, on \in BOOLEAN : SetHandler(h, on)
              \/ Hook
              \/ \E t \in Threads : ResetCount(t)
              \/ \E p \in {"ring", "tone"} : Edge(p)
  <2>1. UNCHANGED <<toneIsr, tonePulseCount, pc>>
    BY <1>6
    DEF SetRingingBeforeOffhook, SetHookFlash, SetHandler, Hook, ClientHook,
        ResetCount, Edge
  <2> QED
    BY <1>6, <2>1, PulseUntouched DEF HNext
<1> QED
  BY <1>1, <1>2, <1>3, <1>4, <1>5, <1>6 DEF HNext, Next, Client, Store, Configure

(* The tone detection hangs up only after at least as many edges in the    *)
(* window as the configuration asks for, none of them counted for an       *)
(* earlier hang-up, however often it is configured meanwhile.              *)
THEOREM HangupsEarned == HSpec => []HangupEarned
<1>1. TypeOK /\ PulseInv /\ ToneInv => HangupEarned
  <2> SUFFICES ASSUME TypeOK, PulseInv, ToneInv, pc["tone"] = "hang"
               PROVE  pulses >= toneIsr.set.pulses
    BY DEF HangupEarned
  <2>1. /\ toneIsr.count \in Nat /\ toneIsr.set.pulses \in Nat
        /\ RingCap \in Nat /\ pulses \in Nat
    BY DaaAssumption DEF TypeOK, PulseRecord, ToneRecord, PulseInv
  <2>2. toneIsr.set.pulses <= RingCap
    <3>1. toneIsr.set \in ToneSettings \cup {NoTone}
      BY DEF ToneInv, ToneSnapshotConsistent
    <3> QED
      BY <2>1, <3>1, PulseAssumption DEF NoTone
  <2> QED
    BY <2>1, <2>2 DEF PulseInv, Covered
<1> QED
  BY <1>1, PulseInvInit, PulseInvStep, HistoryInvariants, PTL DEF HSpec
=============================================================================
