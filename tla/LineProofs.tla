----------------------------- MODULE LineProofs -----------------------------
(***************************************************************************)
(* The line interface implements LineService, for every value of its       *)
(* constants: the initial states map to initial states, and every step to  *)
(* a step or a stutter.                                                    *)
(***************************************************************************)
EXTENDS DaaProofs

(* The state of the line as the application sees it. *)
Live      == isOpen \/ pc["client"] # "idle"
Answering == pc["ring"] = "answered"
Hanging   == pc["tone"] = "hung"

LineMoves == Line!Next \/ UNCHANGED <<Live, IsOffhook, Answering, Hanging>>

(* A hook call on a line that is live is a step of the service, and so is  *)
(* a step that leaves all of it alone.                                     *)
LEMMA HookMoves ==
  ASSUME Live, Live', (Answering' <=> Answering), (Hanging' <=> Hanging)
  PROVE  LineMoves
<1>1. CASE IsOffhook'
  <2>1. Line!Hook(TRUE)
    BY <1>1 DEF Line!Hook, Live, Answering, Hanging, IsOffhook
  <2> QED
    BY <2>1 DEF LineMoves, Line!Next
<1>2. CASE ~IsOffhook'
  <2>1. Line!Hook(FALSE)
    BY <1>2 DEF Line!Hook, Live, Answering, Hanging, IsOffhook
  <2> QED
    BY <2>1 DEF LineMoves, Line!Next
<1> QED
  BY <1>1, <1>2

(* An ISR that takes a step runs on a line that is live. *)
LEMMA ServedLive ==
  ASSUME TypeOK, CloseInv, ~Quiet("ring") \/ ~Quiet("tone")
  PROVE  Live
BY DEF CloseInv, RingStopped, ToneStopped, IsClosed, Live

LEMMA LineInit == Init => Line!Init
BY DEF Init, Line!Init, Live, Answering, Hanging, IsOffhook, Threads

LEMMA RingMoves == ASSUME TypeOK, CloseInv, RingThread \/ RingStore PROVE LineMoves
<1>1. Live /\ Live' /\ (Hanging' <=> Hanging)
  BY RingFrame, ServedLive DEF Live, Hanging
<1> USE DEF TypeOK, Go, At, Threads, pins, settings, counts, locals, tones, hook
<1>2. CASE RingAnswer
  <2>1. IsOffhook' /\ Answering' /\ ~Answering
    BY <1>2, DaaAssumption DEF RingAnswer, SetOffhook, IsOffhook, Answering
  <2>2. Line!Answer
    BY <1>1, <2>1 DEF Line!Answer, Live, Answering, Hanging, IsOffhook
  <2> QED
    BY <2>2 DEF LineMoves, Line!Next
<1>3. CASE RingAnswered
  <2>1. Answering /\ ~Answering'
    BY <1>3 DEF RingAnswered, RingReturn, Answering
  <2>2. Line!Answered
    BY <1>1, <2>1 DEF Line!Answered, Live, Answering, Hanging, IsOffhook
  <2> QED
    BY <2>2 DEF LineMoves, Line!Next
<1>4. CASE \/ \E g \in RingGaps : RingDispatch(g)
           \/ RingSnapshot \/ RingStore \/ RingHandler \/ RingTest \/ RingHang
  <2>1. ~Answering
    BY <1>4
    DEF RingDispatch, RingSnapshot, RingStore, RingHandler, RingTest, RingHang, Answering
  <2>2. ~Answering'
    BY <1>4
    DEF RingDispatch, RingSnapshot, RingStore, RingHandler, RingTest, AfterTest, RingHang,
        RingReturn, Answering
  <2> QED
    BY <1>1, <2>1, <2>2, HookMoves
<1> QED
  BY <1>2, <1>3, <1>4 DEF RingThread

LEMMA ToneMoves ==
  ASSUME TypeOK, CloseInv, ToneThread \/ ToneCount \/ ToneFinish
  PROVE  LineMoves
<1>1. Live /\ Live' /\ (Answering' <=> Answering)
  BY ToneFrame, ServedLive DEF Live, Answering
<1> USE DEF TypeOK, Go, At, Threads, pins, settings, counts, locals, tones, hook
<1>2. CASE ToneHang
  <2>1. ~IsOffhook' /\ Hanging' /\ ~Hanging
    BY <1>2, DaaAssumption DEF ToneHang, SetOffhook, IsOffhook, Hanging
  <2>2. Line!HangUp
    BY <1>1, <2>1 DEF Line!HangUp, Live, Answering, Hanging, IsOffhook
  <2> QED
    BY <2>2 DEF LineMoves, Line!Next
<1>3. CASE ToneHung
  <2>1. Hanging /\ ~Hanging'
    BY <1>3 DEF ToneHung, Hanging
  <2>2. Line!HungUp
    BY <1>1, <2>1 DEF Line!HungUp, Live, Answering, Hanging, IsOffhook
  <2> QED
    BY <2>2 DEF LineMoves, Line!Next
<1>4. CASE \/ ToneDispatch \/ ToneSnapshot \/ ToneIgnore \/ ToneFirstEdge
           \/ \E g \in PulseGaps : TonePulse(g)
           \/ ToneCount \/ ToneFinish
  <2>1. ~Hanging
    BY <1>4
    DEF ToneDispatch, ToneSnapshot, ToneIgnore, ToneFirstEdge, TonePulse, ToneCount,
        ToneFinish, Hanging
  <2>2. ~Hanging'
    BY <1>4
    DEF ToneDispatch, ToneSnapshot, ToneIgnore, ToneFirstEdge, TonePulse, ToneCount,
        ToneFinish, ToneReturn, Hanging
  <2> QED
    BY <1>1, <2>1, <2>2, HookMoves
<1> QED
  BY <1>2, <1>3, <1>4 DEF ToneThread

(* The client moves neither ISR, and moves the hook of an open line only.  *)
LEMMA ClientMoves == ASSUME TypeOK, CloseInv, Client PROVE LineMoves
<1> USE DEF TypeOK, Go, At, Threads, pins, settings, counts, locals, tones, hook
<1>1. (Answering' <=> Answering) /\ (Hanging' <=> Hanging)
  BY DEF Client, Open, Close, Configure, SetRingingBeforeOffhook, SetHookFlash, SetHandler,
         SetHangupToneDetect, Hook, ClientHook, Finishing, AttachRing, AttachTone, Attach,
         Opened, DetachRing, JoinRing, DetachTone, JoinTone, Detach, Join, Closed,
         Answering, Hanging
<1>2. CASE Open
  <2>1. ~Live /\ Live' /\ ~IsOffhook'
    BY <1>2, DaaAssumption DEF Open, Live, SetOffhook, IsOffhook
  <2>2. Line!Open
    BY <1>1, <2>1 DEF Line!Open, Live, Answering, Hanging, IsOffhook
  <2> QED
    BY <2>2 DEF LineMoves, Line!Next
<1>3. CASE Close
  BY <1>1, <1>3, HookMoves DEF Close, Live
<1>4. CASE Closed
  <2>1. Live /\ ~Live'
    BY <1>4 DEF Closed, Live
  <2>2. ~Answering /\ ~Hanging
    BY <1>4 DEF Closed, CloseInv, RingStopped, ToneStopped, Quiet, Idle, Answering, Hanging
  <2>3. (IsOffhook' <=> IsOffhook)
    BY <1>4 DEF Closed, IsOffhook
  <2>4. Line!Close
    BY <1>1, <2>1, <2>2, <2>3 DEF Line!Close, Live, Answering, Hanging, IsOffhook
  <2> QED
    BY <2>4 DEF LineMoves, Line!Next
<1>5. CASE Configure \/ Hook
  <2>1. UNCHANGED <<isOpen, pc>>
    BY <1>5
    DEF Configure, SetRingingBeforeOffhook, SetHookFlash, SetHandler,
        SetHangupToneDetect, Hook, ClientHook
  <2>2. CASE Live
    BY <1>1, <2>1, <2>2, HookMoves DEF Live
  <2>3. CASE ~Live
    <3>1. UNCHANGED offhookPin
      BY <1>5, <2>3
      DEF Configure, SetRingingBeforeOffhook, SetHookFlash, SetHandler,
          SetHangupToneDetect, Hook, ClientHook, Offhook, Live
    <3> QED
      BY <2>1, <3>1 DEF LineMoves, IsOffhook, Live, Answering, Hanging
  <2> QED
    BY <2>2, <2>3
<1>6. CASE Finishing /\ ~Closed
  <2>1. Live /\ Live'
    BY <1>6
    DEF Finishing, AttachRing, AttachTone, Attach, Opened, DetachRing, JoinRing,
        DetachTone, JoinTone, Detach, Join, Live
  <2> QED
    BY <1>1, <2>1, HookMoves
<1> QED
  BY <1>2, <1>3, <1>4, <1>5, <1>6 DEF Client, Finishing

LEMMA LineStep == TypeOK /\ CloseInv /\ [Next]_vars => LineMoves
<1> SUFFICES ASSUME TypeOK, CloseInv, [Next]_vars PROVE LineMoves
  OBVIOUS
<1>1. CASE Client
  BY <1>1, ClientMoves
<1>2. CASE RingThread \/ RingStore
  BY <1>2, RingMoves
<1>3. CASE ToneThread \/ ToneCount \/ ToneFinish
  BY <1>3, ToneMoves
<1>4. CASE \/ \E t \in Threads : ResetCount(t)
           \/ \E p \in {"ring", "tone"} : Edge(p)
           \/ UNCHANGED vars
  BY <1>4 DEF ResetCount, Edge, vars, hook, LineMoves, Live, Answering, Hanging, IsOffhook
<1> QED
  BY <1>1, <1>2, <1>3, <1>4 DEF Next, Store

(* The line keeps what it promises to the application: a handler of an     *)
(* answer runs only after a ring has seized the line, one of a busy tone   *)
(* only after toneIsr has released it, and nothing moves once close() has  *)
(* returned.                                                               *)
THEOREM LineKept == Spec => KeepsLine
<1>1. TypeOK /\ CloseInv /\ [Next]_vars
        => [Line!Next]_<<isOpen \/ pc["client"] # "idle", IsOffhook,
                         pc["ring"] = "answered", pc["tone"] = "hung">>
  BY LineStep DEF LineMoves, Live, Answering, Hanging
<1> QED
  BY <1>1, LineInit, TypeCorrect, CloseInvariant, PTL DEF Spec, KeepsLine, Line!Spec
=============================================================================
