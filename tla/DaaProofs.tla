----------------------------- MODULE DaaProofs -----------------------------
(***************************************************************************)
(* Theorems about the line interface, for every value of its constants.    *)
(***************************************************************************)
EXTENDS Daa, TLAPS

(* A program counter that moves stays a function on the threads. *)
LEMMA GoType ==
  ASSUME NEW t \in Threads, NEW l, Go(t, l),
         pc \in [Threads -> ClientPc \cup RingPc \cup TonePc],
         l \in ClientPc \cup RingPc \cup TonePc
  PROVE  /\ pc' \in [Threads -> ClientPc \cup RingPc \cup TonePc]
         /\ pc'[t] = l
         /\ \A u \in Threads : u # t => pc'[u] = pc[u]
BY DEF Go

(* Levels of the pin are Boolean, and a hook call leaves them so. *)
LEMMA OffhookType ==
  ASSUME NEW t \in Threads, NEW v \in BOOLEAN, Offhook(t, v),
         offhookPin \in BOOLEAN, resetting \subseteq Threads
  PROVE  offhookPin' \in BOOLEAN /\ resetting' \subseteq Threads
BY DEF Offhook, SetOffhook

LEMMA HandlerType ==
  ASSUME NEW t \in Threads, NEW set, RunHandler(t, set),
         offhookPin \in BOOLEAN, resetting \subseteq Threads
  PROVE  offhookPin' \in BOOLEAN /\ resetting' \subseteq Threads
<1>1. CASE UNCHANGED <<offhookPin, resetting>>
  BY <1>1
<1>2. CASE \E v \in HandlerHook : Offhook(t, v)
  <2>1. PICK v \in HandlerHook : Offhook(t, v)
    BY <1>2
  <2>2. v \in BOOLEAN
    BY DaaAssumption
  <2> QED
    BY <2>1, <2>2, OffhookType
<1> QED
  BY <1>1, <1>2 DEF RunHandler, hook

(* The count a ring leads to is again one of the counts told apart. *)
LEMMA NextCountType ==
  ASSUME NEW r \in RingRecord
  PROVE  NextCount(r) \in 0 .. RingCap
BY DaaAssumption, RingCapAssumption DEF NextCount, Saturate, RingRecord

LEMMA LocalsType == NoTone \in ToneRecord /\ NoRing \in RingRecord /\ NoPulse \in PulseRecord
<1>1. NoTone \in ToneRecord
  BY DEF NoTone, ToneRecord
<1>2. NoRing \in RingRecord
  BY DaaAssumption DEF NoRing, RingRecord
<1>3. NoPulse \in PulseRecord
  BY <1>1 DEF NoPulse, PulseRecord
<1> QED
  BY <1>1, <1>2, <1>3

LEMMA InitType == Init => TypeOK
<1> SUFFICES ASSUME Init PROVE TypeOK
  OBVIOUS
<1>1. pc = [t \in Threads |-> "idle"]
  BY DEF Init
<1>2. "idle" \in ClientPc /\ "idle" \in RingPc /\ "idle" \in TonePc
  BY DEF ClientPc, RingPc, TonePc
<1>3. /\ pc \in [Threads -> ClientPc \cup RingPc \cup TonePc]
      /\ pc["client"] = "idle" /\ pc["ring"] = "idle" /\ pc["tone"] = "idle"
  BY <1>1, <1>2 DEF Threads
<1>4. /\ ringingSinceHangup \in 0 .. RingCap
      /\ ringingBeforeOffhook \in Nat
      /\ tonePulseCount \in Nat
  BY DaaAssumption DEF Init
<1>5. toneSet \in ToneRecord /\ ringIsr \in RingRecord /\ toneIsr \in PulseRecord
  BY LocalsType DEF Init
<1>6. /\ isOpen \in BOOLEAN /\ hookFlash \in BOOLEAN /\ lastTone \in BOOLEAN
      /\ offhookPin \in BOOLEAN
  BY DEF Init
<1>7. /\ handlers \subseteq Handlers /\ attached \subseteq {"ring", "tone"}
      /\ irq \subseteq attached /\ resetting \subseteq Threads
  BY DEF Init
<1> QED
  BY <1>2, <1>3, <1>4, <1>5, <1>6, <1>7 DEF TypeOK

-----------------------------------------------------------------------------
(* A step of each thread keeps the types.                                   *)

LEMMA ClientType == ASSUME TypeOK, Client PROVE TypeOK'
<1> USE DEF TypeOK, settings, hook, tones, counts, pins, locals, Threads
<1>1. CASE Open
  BY <1>1, GoType DEF Open, SetOffhook, ClientPc
<1>2. CASE AttachRing \/ AttachTone
  BY <1>2, GoType DEF AttachRing, AttachTone, Attach, ClientPc
<1>3. CASE Opened \/ Closed
  BY <1>3, GoType DEF Opened, Closed, ClientPc
<1>4. CASE Close
  BY <1>4, GoType, OffhookType DEF Close, ClientPc
<1>5. CASE DetachRing \/ DetachTone
  BY <1>5, GoType DEF DetachRing, DetachTone, Detach, ClientPc
<1>6. CASE JoinRing \/ JoinTone
  BY <1>6, GoType DEF JoinRing, JoinTone, Join, ClientPc
<1>7. CASE Hook
  BY <1>7, OffhookType DEF Hook, ClientHook
<1>8. CASE Configure
  <2>1. CASE \E n \in RingLimits : SetRingingBeforeOffhook(n)
    BY <2>1, DaaAssumption DEF SetRingingBeforeOffhook
  <2>2. CASE \E v \in BOOLEAN : SetHookFlash(v)
    BY <2>2 DEF SetHookFlash
  <2>3. CASE \E h \in UserHandlers, on \in BOOLEAN : SetHandler(h, on)
    BY <2>3, DaaAssumption DEF SetHandler
  <2>4. CASE \E s \in ToneSettings : SetHangupToneDetect(s)
    BY <2>4, DaaAssumption DEF SetHangupToneDetect
  <2> QED
    BY <1>8, <2>1, <2>2, <2>3, <2>4 DEF Configure
<1> QED
  BY <1>1, <1>2, <1>3, <1>4, <1>5, <1>6, <1>7, <1>8 DEF Client, Finishing

LEMMA RingType == ASSUME TypeOK, RingThread \/ RingStore PROVE TypeOK'
<1> USE DEF TypeOK, settings, hook, tones, counts, pins, locals, Threads
<1>1. CASE \E g \in RingGaps : RingDispatch(g)
  <2>1. PICK g \in RingGaps : RingDispatch(g)
    BY <1>1
  <2>2. ringIsr' \in RingRecord
    BY <2>1, DaaAssumption DEF RingDispatch, NoRing, RingRecord
  <2> QED
    BY <2>1, <2>2, GoType DEF RingDispatch, RingPc
<1>2. CASE RingSnapshot
  <2>1. ringIsr' \in RingRecord
    <3>1. NextCount(ringIsr) \in 0 .. RingCap
      BY NextCountType
    <3>2. IsFlash(ringIsr) \in BOOLEAN
      BY DEF IsFlash, EndsSilence, RingRecord
    <3> QED
      BY <1>2, <3>1, <3>2 DEF RingSnapshot, RingRecord, Read
  <2> QED
    BY <1>2, <2>1, GoType DEF RingSnapshot, RingPc, Read
<1>3. CASE RingStore
  <2>1. ringIsr.count \in 0 .. RingCap
    BY DEF RingRecord
  <2> QED
    BY <1>3, <2>1, GoType DEF RingStore, RingPc
<1>4. CASE RingHandler
  BY <1>4, GoType, HandlerType DEF RingHandler, RingPc
<1>5. CASE RingTest
  <2>1. AfterTest \in {"hang", "answer", "idle"}
    BY DEF AfterTest
  <2> QED
    BY <1>5, <2>1, GoType, LocalsType DEF RingTest, RingPc
<1>6. CASE RingAnswer
  BY <1>6, GoType DEF RingAnswer, SetOffhook, RingPc
<1>7. CASE RingAnswered
  BY <1>7, GoType, HandlerType, LocalsType
  DEF RingAnswered, RingReturn, RingPc
<1>8. CASE RingHang
  BY <1>8, GoType, LocalsType
  DEF RingHang, RingReturn, SetOffhook, RingPc
<1> QED
  BY <1>1, <1>2, <1>3, <1>4, <1>5, <1>6, <1>7, <1>8 DEF RingThread

LEMMA ToneType == ASSUME TypeOK, ToneThread \/ ToneCount \/ ToneFinish PROVE TypeOK'
<1> USE DEF TypeOK, settings, hook, tones, counts, pins, locals, Threads
<1>1. CASE ToneDispatch
  <2>1. toneIsr' \in PulseRecord
    BY <1>1, LocalsType DEF ToneDispatch, PulseRecord, ToneRecord
  <2> QED
    BY <1>1, <2>1, GoType DEF ToneDispatch, TonePc
<1>2. CASE ToneSnapshot
  <2>1. toneIsr' \in PulseRecord
    BY <1>2 DEF ToneSnapshot, PulseRecord, ToneRecord
  <2> QED
    BY <1>2, <2>1, GoType DEF ToneSnapshot, TonePc
<1>3. CASE ToneIgnore
  BY <1>3, GoType, LocalsType DEF ToneIgnore, ToneReturn, TonePc
<1>4. CASE ToneFirstEdge
  BY <1>4, GoType, LocalsType
  DEF ToneFirstEdge, ToneReturn, Now, TonePc, Read
<1>5. CASE \E g \in PulseGaps : TonePulse(g)
  <2>1. PICK g \in PulseGaps : TonePulse(g)
    BY <1>5
  <2>2. toneIsr' \in PulseRecord
    BY <2>1 DEF TonePulse, PulseRecord, NextPulses
  <2> QED
    BY <2>1, <2>2, GoType DEF TonePulse, Now, TonePc, NextPulses
<1>6. CASE ToneHang
  BY <1>6, GoType DEF ToneHang, SetOffhook, TonePc
<1>7. CASE ToneHung
  <2>1. toneIsr' \in PulseRecord
    BY <1>7 DEF ToneHung, PulseRecord, AfterHangup
  <2> QED
    BY <1>7, <2>1, GoType, HandlerType DEF ToneHung, TonePc, AfterHangup
<1>8. CASE ToneCount
  <2>1. toneIsr.count \in Nat
    BY DEF PulseRecord
  <2> QED
    BY <1>8, <2>1, GoType DEF ToneCount, TonePc
<1>9. CASE ToneFinish
  <2>1. toneIsr.count \in Nat
    BY DEF PulseRecord
  <2> QED
    BY <1>9, <2>1, GoType, LocalsType DEF ToneFinish, ToneReturn, TonePc, Read
<1> QED
  BY <1>1, <1>2, <1>3, <1>4, <1>5, <1>6, <1>7, <1>8, <1>9 DEF ToneThread

LEMMA NextType == TypeOK /\ [Next]_vars => TypeOK'
<1> SUFFICES ASSUME TypeOK, [Next]_vars PROVE TypeOK'
  OBVIOUS
<1>1. CASE Client
  BY <1>1, ClientType
<1>2. CASE RingThread \/ RingStore
  BY <1>2, RingType
<1>3. CASE ToneThread \/ ToneCount \/ ToneFinish
  BY <1>3, ToneType
<1>4. CASE \E t \in Threads : ResetCount(t)
  BY <1>4, DaaAssumption DEF ResetCount, TypeOK, settings, hook, tones, pins, locals
<1>5. CASE \E p \in {"ring", "tone"} : Edge(p)
  BY <1>5 DEF Edge, TypeOK, settings, hook, tones, counts, locals
<1>6. CASE UNCHANGED vars
  BY <1>6 DEF TypeOK, vars, settings, hook, tones, counts, pins, locals
<1> QED
  BY <1>1, <1>2, <1>3, <1>4, <1>5, <1>6 DEF Next, Store

(* The state stays well-typed: in particular no interrupt is pending on a  *)
(* pin that close() has detached, and the ring counter never leaves the    *)
(* values the handlers tell apart.                                         *)
THEOREM TypeCorrect == Spec => []TypeOK
BY InitType, NextType, PTL DEF Spec

-----------------------------------------------------------------------------
(* Closing the line.  The invariant follows close() from label to label:    *)
(* the thread of a pin is at rest from the end of its join to the moment    *)
(* open() attaches the interrupt again.                                     *)

Quiet(t) == Idle(t) /\ t \notin attached

IsClosed    == pc["client"] = "idle" /\ ~isOpen
RingStopped == IsClosed \/ pc["client"] \in {"attachRing", "detachTone", "joinTone", "closed"}
ToneStopped == \/ ~HasTonePin
               \/ IsClosed
               \/ pc["client"] \in {"attachRing", "attachTone", "closed"}

Opening == {"attachRing", "attachTone", "opened"}
Closing == {"detachRing", "joinRing", "detachTone", "joinTone", "closed"}

CloseInv ==
  /\ pc["client"] \in Opening => ~isOpen
  /\ pc["client"] \in Closing => isOpen
  /\ pc["client"] \in {"attachTone", "detachTone", "joinTone"} => HasTonePin
  /\ pc["client"] = "joinRing" => "ring" \notin attached
  /\ pc["client"] = "joinTone" => "tone" \notin attached
  /\ RingStopped => Quiet("ring")
  /\ ToneStopped => Quiet("tone")

LEMMA CloseInit == Init => CloseInv
BY DEF Init, CloseInv, Quiet, Idle, Opening, Closing, Threads

(* A step of ringIsr needs a ring thread that is not quiet, and leaves     *)
(* alone what the invariant says of the others.                            *)
LEMMA RingFrame ==
  ASSUME TypeOK, RingThread \/ RingStore
  PROVE  /\ ~Quiet("ring")
         /\ UNCHANGED <<isOpen, attached>>
         /\ pc'["client"] = pc["client"] /\ pc'["tone"] = pc["tone"]
         /\ "tone" \in resetting' <=> "tone" \in resetting
<1> USE DEF TypeOK, Go, At, Quiet, Idle, settings, hook, tones, counts, pins, locals, Threads
<1>1. CASE \E g \in RingGaps : RingDispatch(g)
  BY <1>1 DEF RingDispatch
<1>2. CASE RingSnapshot \/ RingStore \/ RingAnswer
  BY <1>2 DEF RingSnapshot, RingStore, RingAnswer, Read
<1>3. CASE RingTest
  BY <1>3 DEF RingTest
<1>4. CASE RingHandler \/ RingAnswered
  BY <1>4 DEF RingHandler, RingAnswered, RingReturn, RunHandler, Offhook, hook
<1>5. CASE RingHang
  BY <1>5 DEF RingHang, RingReturn
<1> QED
  BY <1>1, <1>2, <1>3, <1>4, <1>5 DEF RingThread

LEMMA ToneFrame ==
  ASSUME TypeOK, ToneThread \/ ToneCount \/ ToneFinish
  PROVE  /\ ~Quiet("tone")
         /\ UNCHANGED <<isOpen, attached>>
         /\ pc'["client"] = pc["client"] /\ pc'["ring"] = pc["ring"]
         /\ "ring" \in resetting' <=> "ring" \in resetting
<1> USE DEF TypeOK, Go, At, Quiet, Idle, settings, hook, tones, counts, pins, locals, Threads
<1>1. CASE ToneDispatch
  BY <1>1 DEF ToneDispatch
<1>2. CASE ToneSnapshot \/ ToneCount \/ ToneHang
  BY <1>2 DEF ToneSnapshot, ToneCount, ToneHang
<1>3. CASE \E g \in PulseGaps : TonePulse(g)
  BY <1>3 DEF TonePulse, NextPulses
<1>4. CASE ToneHung
  BY <1>4 DEF ToneHung, RunHandler, Offhook, AfterHangup, hook
<1>5. CASE ToneIgnore \/ ToneFirstEdge \/ ToneFinish
  BY <1>5 DEF ToneIgnore, ToneFirstEdge, ToneFinish, ToneReturn, Read
<1> QED
  BY <1>1, <1>2, <1>3, <1>4, <1>5 DEF ToneThread

LEMMA CloseStep == TypeOK /\ CloseInv /\ [Next]_vars => CloseInv'
<1> SUFFICES ASSUME TypeOK, CloseInv, [Next]_vars PROVE CloseInv'
  OBVIOUS
<1> USE DEF CloseInv, RingStopped, ToneStopped, IsClosed
<1>1. CASE RingThread \/ RingStore
  BY <1>1, RingFrame DEF Quiet, Idle
<1>2. CASE ToneThread \/ ToneCount \/ ToneFinish
  BY <1>2, ToneFrame DEF Quiet, Idle
<1>3. CASE Client
  <2> USE DEF TypeOK, Go, At, Quiet, Idle, settings, hook, tones, counts, pins, locals, Threads,
              Opening, Closing
  <2>1. CASE Open
    BY <2>1 DEF Open
  <2>2. CASE Close
    BY <2>2 DEF Close, Offhook
  <2>3. CASE Configure
    BY <2>3 DEF Configure, SetRingingBeforeOffhook, SetHookFlash, SetHandler, SetHangupToneDetect
  <2>4. CASE Hook
    <3>1. UNCHANGED <<isOpen, attached, pc>>
      BY <2>4 DEF Hook, ClientHook
    <3>2. \A t \in {"ring", "tone"} : t \in resetting' <=> t \in resetting
      BY <2>4 DEF Hook, ClientHook, Offhook
    <3> QED
      BY <3>1, <3>2
  <2>5. CASE AttachRing
    BY <2>5 DEF AttachRing, Attach
  <2>6. CASE AttachTone
    BY <2>6 DEF AttachTone, Attach
  <2>7. CASE Opened \/ Closed
    BY <2>7 DEF Opened, Closed
  <2>8. CASE DetachRing \/ DetachTone
    BY <2>8 DEF DetachRing, DetachTone, Detach
  <2>9. CASE JoinRing
    BY <2>9 DEF JoinRing, Join
  <2>10. CASE JoinTone
    BY <2>10 DEF JoinTone, Join
  <2> QED
    BY <1>3, <2>1, <2>2, <2>3, <2>4, <2>5, <2>6, <2>7, <2>8, <2>9, <2>10
    DEF Client, Finishing
<1>4. CASE \E t \in Threads : ResetCount(t)
  BY <1>4 DEF ResetCount, Quiet, Idle, pins
<1>5. CASE \E p \in {"ring", "tone"} : Edge(p)
  BY <1>5 DEF Edge, Quiet, Idle, hook
<1>6. CASE UNCHANGED vars
  BY <1>6 DEF vars, hook, pins, Quiet, Idle
<1> QED
  BY <1>1, <1>2, <1>3, <1>4, <1>5, <1>6 DEF Next, Store

LEMMA CloseInvariant == Spec => []CloseInv
BY CloseInit, CloseStep, TypeCorrect, PTL DEF Spec

(* Once close() has returned no ISR and no user handler runs, and none can *)
(* start, until open() is called again, however the steps of the three     *)
(* threads interleave.                                                     *)
THEOREM ClosedQuiet == Spec => []ClosedIsQuiet
<1>1. TypeOK /\ CloseInv => ClosedIsQuiet
  BY DEF TypeOK, CloseInv, ClosedIsQuiet, RingStopped, ToneStopped, IsClosed, Quiet
<1> QED
  BY <1>1, TypeCorrect, CloseInvariant, PTL

(* The relay moves only while the line is open, or in open() and close().  *)
THEOREM PinSilent == Spec => PinSilentWhenClosed
<1> DEFINE Served == isOpen \/ pc["client"] # "idle" \/ pc'["client"] # "idle"
<1>1. ASSUME TypeOK, CloseInv, [Next]_vars, offhookPin' # offhookPin
      PROVE  Served
  <2> USE DEF CloseInv, RingStopped, ToneStopped, IsClosed
  <2>1. CASE RingThread \/ RingStore
    BY <1>1, <2>1, RingFrame
  <2>2. CASE ToneThread \/ ToneCount \/ ToneFinish
    BY <1>1, <2>2, ToneFrame
  <2>3. CASE Open
    BY <1>1, <2>3 DEF Open, Go, TypeOK, Threads
  <2>4. CASE Close \/ Hook
    BY <1>1, <2>4 DEF Close, Hook, ClientHook, Offhook
  <2>5. CASE Finishing
    BY <1>1, <2>5
    DEF Finishing, AttachRing, AttachTone, Attach, Opened, DetachRing, JoinRing,
        DetachTone, JoinTone, Detach, Join, Closed, At
  <2>6. CASE Configure
    BY <1>1, <2>6
    DEF Configure, SetRingingBeforeOffhook, SetHookFlash, SetHandler, SetHangupToneDetect, hook
  <2>7. CASE \E t \in Threads : ResetCount(t)
    BY <1>1, <2>7 DEF ResetCount
  <2>8. CASE \E p \in {"ring", "tone"} : Edge(p)
    BY <1>1, <2>8 DEF Edge, hook
  <2>9. CASE UNCHANGED vars
    BY <1>1, <2>9 DEF vars, hook
  <2> QED
    BY <1>1, <2>1, <2>2, <2>3, <2>4, <2>5, <2>6, <2>7, <2>8, <2>9
    DEF Next, Client, Store
<1>2. TypeOK /\ CloseInv /\ [Next]_vars => [offhookPin' # offhookPin => Served]_vars
  BY <1>1
<1> QED
  BY <1>2, TypeCorrect, CloseInvariant, PTL DEF Spec, PinSilentWhenClosed

-----------------------------------------------------------------------------
(* How far each thread is from its end, when it may begin nothing new: the  *)
(* client inside open() or close(), an ISR whose interrupt is detached.     *)

Bound(t) == IF t = "client" THEN pc[t] # "idle" ELSE t \notin attached

Remaining ==
  [attachRing |-> 6, attachTone |-> 4, opened |-> 2,
   detachRing |-> 10, joinRing |-> 8, detachTone |-> 6, joinTone |-> 4, closed |-> 2,
   snapshot |-> 14, store |-> 12, ringing |-> 10, test |-> 8, answer |-> 6, answered |-> 4,
   decide |-> 12, count |-> 8, hang |-> 6, hung |-> 4, finish |-> 2,
   idle |-> 0]

StepsLeft(t) == Remaining[pc[t]] + (IF t \in resetting THEN 1 ELSE 0)

StepOf(t) ==
  \/ t = "client" /\ Client
  \/ t = "ring" /\ (RingThread \/ RingStore)
  \/ t = "tone" /\ (ToneThread \/ ToneCount \/ ToneFinish)
  \/ ResetCount(t)

NearerToEnd ==
  [][\A t \in Threads : Bound(t) =>
       IF StepOf(t) THEN StepsLeft(t)' < StepsLeft(t) ELSE StepsLeft(t)' = StepsLeft(t)]_vars

(* A step of one thread leaves the others where they are. *)
LEMMA OthersStay ==
  ASSUME TypeOK, NEW t \in Threads, StepOf(t), NEW u \in Threads, u # t
  PROVE  pc'[u] = pc[u] /\ (u \in resetting' <=> u \in resetting)
<1> USE DEF TypeOK, Go, hook, pins, Threads
<1>1. CASE ResetCount(t)
  BY <1>1 DEF ResetCount
<1>2. CASE t = "client" /\ Client
  BY <1>2
  DEF Client, Open, Close, Configure, SetRingingBeforeOffhook, SetHookFlash, SetHandler,
      SetHangupToneDetect, Hook, ClientHook, Offhook, Finishing, AttachRing, AttachTone, Attach,
      Opened, DetachRing, JoinRing, DetachTone, JoinTone, Detach, Join, Closed
<1>3. CASE t = "ring" /\ (RingThread \/ RingStore)
  BY <1>3
  DEF RingThread, RingDispatch, RingSnapshot, RingStore, RingHandler, RingTest, RingAnswer,
      RingAnswered, RingHang, RingReturn, RunHandler, Offhook
<1>4. CASE t = "tone" /\ (ToneThread \/ ToneCount \/ ToneFinish)
  BY <1>4
  DEF ToneThread, ToneDispatch, ToneSnapshot, ToneIgnore, ToneFirstEdge, TonePulse, ToneCount,
      ToneHang, ToneHung, ToneFinish, ToneReturn, RunHandler, Offhook
<1> QED
  BY <1>1, <1>2, <1>3, <1>4 DEF StepOf

LEMMA RemainingNat ==
  ASSUME TypeOK, NEW t \in Threads
  PROVE  Remaining[pc[t]] \in Nat
<1>1. pc[t] \in ClientPc \cup RingPc \cup TonePc
  BY DEF TypeOK
<1> QED
  BY <1>1 DEF Remaining, ClientPc, RingPc, TonePc

LEMMA ClientNearer ==
  ASSUME TypeOK, Client, pc["client"] # "idle"
  PROVE  StepsLeft("client")' < StepsLeft("client")
<1>1. Finishing /\ "client" \notin resetting
  BY DEF Client, Open, Close, Configure, SetRingingBeforeOffhook, SetHookFlash, SetHandler,
         SetHangupToneDetect, Hook, ClientHook, MayCall, Finishing, AttachRing, AttachTone,
         Opened, DetachRing, JoinRing, DetachTone, JoinTone, Closed, At
<1> USE DEF TypeOK, At, Go, Threads, hook, StepsLeft, Remaining
<1>2. CASE AttachRing \/ AttachTone \/ Opened
  BY <1>1, <1>2 DEF AttachRing, AttachTone, Attach, Opened
<1>3. CASE DetachRing \/ DetachTone
  BY <1>1, <1>3 DEF DetachRing, DetachTone, Detach
<1>4. CASE JoinRing
  BY <1>1, <1>4 DEF JoinRing, Join
<1>5. CASE JoinTone
  BY <1>1, <1>5 DEF JoinTone, Join
<1>6. CASE Closed
  BY <1>1, <1>6 DEF Closed
<1> QED
  BY <1>1, <1>2, <1>3, <1>4, <1>5, <1>6 DEF Finishing

LEMMA RingNearer ==
  ASSUME TypeOK, RingThread \/ RingStore, "ring" \notin attached
  PROVE  StepsLeft("ring")' < StepsLeft("ring")
<1> USE DEF TypeOK, At, Go, Threads, hook, StepsLeft, Remaining
<1>1. ~(\E g \in RingGaps : RingDispatch(g))
  BY DEF RingDispatch
<1>2. CASE RingSnapshot \/ RingAnswer
  <2>1. CASE RingSnapshot
    BY <2>1 DEF RingSnapshot
  <2>2. CASE RingAnswer
    BY <2>2 DEF RingAnswer
  <2> QED
    BY <1>2, <2>1, <2>2
<1>3. CASE RingStore
  BY <1>3 DEF RingStore
<1>4. CASE RingHandler
  BY <1>4 DEF RingHandler
<1>5. CASE RingTest
  <2>1. AfterTest \in {"hang", "answer", "idle"}
    BY DEF AfterTest
  <2> QED
    BY <1>5, <2>1 DEF RingTest
<1>6. CASE RingAnswered
  BY <1>6 DEF RingAnswered, RingReturn
<1>7. CASE RingHang
  BY <1>7 DEF RingHang, RingReturn
<1> QED
  BY <1>1, <1>2, <1>3, <1>4, <1>5, <1>6, <1>7 DEF RingThread

LEMMA ToneNearer ==
  ASSUME TypeOK, ToneThread \/ ToneCount \/ ToneFinish, "tone" \notin attached
  PROVE  StepsLeft("tone")' < StepsLeft("tone")
<1> USE DEF TypeOK, At, Go, Threads, hook, StepsLeft, Remaining
<1>1. ~ToneDispatch
  BY DEF ToneDispatch
<1>2. CASE ToneSnapshot
  BY <1>2 DEF ToneSnapshot
<1>3. CASE ToneHang
  BY <1>3 DEF ToneHang
<1>4. CASE ToneCount
  BY <1>4 DEF ToneCount
<1>5. CASE \E g \in PulseGaps : TonePulse(g)
  BY <1>5 DEF TonePulse
<1>6. CASE ToneHung
  BY <1>6 DEF ToneHung
<1>7. CASE ToneIgnore \/ ToneFirstEdge \/ ToneFinish
  BY <1>7 DEF ToneIgnore, ToneFirstEdge, ToneFinish, ToneReturn
<1> QED
  BY <1>1, <1>2, <1>3, <1>4, <1>5, <1>6, <1>7 DEF ToneThread

LEMMA EachNearer ==
  ASSUME TypeOK, TypeOK', [Next]_vars, NEW t \in Threads, Bound(t)
  PROVE  IF StepOf(t) THEN StepsLeft(t)' < StepsLeft(t) ELSE StepsLeft(t)' = StepsLeft(t)
<1>1. CASE StepOf(t)
  <2>1. CASE ResetCount(t)
    <3>1. /\ pc' = pc /\ t \in resetting /\ t \notin resetting'
          /\ Remaining[pc[t]] \in Nat
      BY <2>1, RemainingNat DEF ResetCount
    <3>2. /\ StepsLeft(t) = Remaining[pc[t]] + 1
          /\ StepsLeft(t)' = Remaining[pc[t]] + 0
      BY <3>1 DEF StepsLeft
    <3> QED
      BY <1>1, <3>1, <3>2
  <2>2. CASE ~ResetCount(t)
    BY <1>1, <2>2, ClientNearer, RingNearer, ToneNearer DEF StepOf, Bound, Threads
  <2> QED
    BY <1>1, <2>1, <2>2
<1>2. CASE ~StepOf(t)
  <2>1. pc'[t] = pc[t] /\ (t \in resetting' <=> t \in resetting)
    <3>1. CASE \E u \in Threads : StepOf(u)
      BY <1>2, <3>1, OthersStay
    <3>2. CASE UNCHANGED vars \/ \E p \in {"ring", "tone"} : Edge(p)
      BY <3>2 DEF vars, hook, Edge
    <3> QED
      BY <3>1, <3>2 DEF Next, Store, StepOf, Threads
  <2> QED
    BY <1>2, <2>1 DEF StepsLeft
<1> QED
  BY <1>1, <1>2

(* Why open() and close() return: inside them every step of the client,    *)
(* and once its interrupt is detached every step of an ISR with the user   *)
(* handlers it runs, brings the thread nearer to its end, and no step of   *)
(* another thread sets it back.                                            *)
THEOREM ThreadsRunDown == Spec => NearerToEnd
<1>1. TypeOK /\ TypeOK' /\ [Next]_vars =>
        \A t \in Threads : Bound(t) =>
          IF StepOf(t) THEN StepsLeft(t)' < StepsLeft(t) ELSE StepsLeft(t)' = StepsLeft(t)
  BY EachNearer
<1> QED
  BY <1>1, TypeCorrect, PTL DEF Spec, NearerToEnd

-----------------------------------------------------------------------------
(* The tone configuration.                                                  *)

ToneInv ==
  /\ toneSet \in ToneSettings \cup {NoTone}
  /\ pc["tone"] = "snapshot" => toneIsr.set = [toneSet EXCEPT !.pulses = 0]
  /\ ToneSnapshotConsistent

LEMMA ToneInit == Init => ToneInv
BY DEF Init, ToneInv, ToneSnapshotConsistent, Threads

(* Steps that leave the tone thread and its configuration alone. *)
LEMMA ToneUntouched ==
  ASSUME ToneInv, UNCHANGED <<toneSet, toneIsr>>, pc'["tone"] = pc["tone"]
  PROVE  ToneInv'
BY DEF ToneInv, ToneSnapshotConsistent

LEMMA ToneStep == TypeOK /\ ToneInv /\ [Next]_vars => ToneInv'
<1> SUFFICES ASSUME TypeOK, ToneInv, [Next]_vars PROVE ToneInv'
  OBVIOUS
<1> USE DEF TypeOK, settings, hook, tones, locals
<1>1. CASE RingThread \/ RingStore
  <2>1. UNCHANGED <<toneSet, toneIsr>>
    BY <1>1
    DEF RingThread, RingDispatch, RingSnapshot, RingStore, RingHandler, RingTest,
        RingAnswer, RingAnswered, RingHang, RingReturn, Read
  <2> QED
    BY <1>1, <2>1, RingFrame, ToneUntouched
<1>2. CASE ToneThread \/ ToneCount \/ ToneFinish
  <2> USE DEF ToneInv, ToneSnapshotConsistent, Go, At, Threads
  <2>1. CASE ToneDispatch
    BY <2>1, LocalsType DEF ToneDispatch, NoPulse, PulseRecord
  <2>2. CASE ToneSnapshot
    <3>1. toneIsr'.set = [[toneSet EXCEPT !.pulses = 0] EXCEPT !.pulses = toneSet.pulses]
      BY <2>2 DEF ToneSnapshot
    <3>2. toneIsr'.set = toneSet
      BY <3>1 DEF ToneRecord
    <3> QED
      BY <2>2, <3>2 DEF ToneSnapshot
  <2>3. CASE ToneIgnore \/ ToneFirstEdge \/ ToneFinish
    BY <2>3 DEF ToneIgnore, ToneFirstEdge, ToneFinish, ToneReturn, Read
  <2>4. CASE \E g \in PulseGaps : TonePulse(g)
    BY <2>4 DEF TonePulse, PulseRecord, NextPulses
  <2>5. CASE ToneCount \/ ToneHang
    BY <2>5 DEF ToneCount, ToneHang
  <2>6. CASE ToneHung
    BY <2>6 DEF ToneHung, AfterHangup
  <2> QED
    BY <1>2, <2>1, <2>2, <2>3, <2>4, <2>5, <2>6 DEF ToneThread
<1>3. CASE \E s \in ToneSettings : SetHangupToneDetect(s)
  BY <1>3 DEF SetHangupToneDetect, Writable, ToneInv, ToneSnapshotConsistent
<1>4. CASE \/ \E n \in RingLimits : SetRingingBeforeOffhook(n)
           \/ \E v \in BOOLEAN : SetHookFlash(v)
           \/ \E h \in UserHandlers, on \in BOOLEAN : SetHandler(h, on)
           \/ Hook
           \/ \E t \in Threads : ResetCount(t)
           \/ \E p \in {"ring", "tone"} : Edge(p)
           \/ UNCHANGED vars
  <2>1. UNCHANGED <<toneSet, toneIsr, pc>>
    BY <1>4
    DEF SetRingingBeforeOffhook, SetHookFlash, SetHandler, Hook, ClientHook,
        ResetCount, Edge, vars
  <2> QED
    BY <2>1, ToneUntouched
<1>5. CASE Open \/ Close \/ Finishing
  <2>1. UNCHANGED <<toneSet, toneIsr>> /\ pc'["tone"] = pc["tone"]
    BY <1>5
    DEF Open, Close, Finishing, AttachRing, AttachTone, Attach, Opened, DetachRing,
        JoinRing, DetachTone, JoinTone, Detach, Join, Closed, Go, Threads
  <2> QED
    BY <2>1, ToneUntouched
<1> QED
  BY <1>1, <1>2, <1>3, <1>4, <1>5 DEF Next, Client, Store, Configure

(* toneIsr never acts on a half-written configuration: what it reads in    *)
(* two halves under the shared lock is what one call of                    *)
(* setHangupToneDetect wrote.                                              *)
THEOREM ToneConsistent == Spec => []ToneSnapshotConsistent
<1>1. ToneInv => ToneSnapshotConsistent
  BY DEF ToneInv
<1> QED
  BY <1>1, ToneInit, ToneStep, TypeCorrect, PTL DEF Spec

-----------------------------------------------------------------------------
(* The pulses on the books.                                                 *)

Below(n) == n = 0 \/ n < toneSet.pulses

(* toneIsr works on the configuration and the count as they are, since     *)
(* nobody changes them while it runs.                                      *)
LimitInv ==
  /\ toneSet.enable /\ pc["tone"] \in {"idle", "snapshot", "decide"} => Below(tonePulseCount)
  /\ toneSet.enable /\ pc["tone"] = "finish" => Below(toneIsr.count)
  /\ pc["tone"] \in {"snapshot", "decide", "count"} => toneIsr.set.enable = toneSet.enable
  /\ pc["tone"] \in {"decide", "count"} => toneIsr.set.pulses = toneSet.pulses
  /\ pc["tone"] = "decide" => toneIsr.count = tonePulseCount
  /\ pc["tone"] = "count" => toneIsr.set.enable

(* Steps that leave the tone thread, its configuration and its count alone. *)
LEMMA LimitUntouched ==
  ASSUME LimitInv, toneSet' = toneSet, toneIsr' = toneIsr, tonePulseCount' = tonePulseCount,
         pc'["tone"] = pc["tone"]
  PROVE  LimitInv'
BY DEF LimitInv, Below

LEMMA LimitStep ==
  ASSUME "setHangupToneDetect" \notin OpenCalls
  PROVE  TypeOK /\ CloseInv /\ LimitInv /\ [Next]_vars => LimitInv'
<1> SUFFICES ASSUME TypeOK, CloseInv, LimitInv, [Next]_vars PROVE LimitInv'
  OBVIOUS
<1>1. CASE RingThread \/ RingStore
  <2>1. toneSet' = toneSet /\ toneIsr' = toneIsr /\ tonePulseCount' = tonePulseCount
    BY <1>1
    DEF RingThread, RingDispatch, RingSnapshot, RingStore, RingHandler, RingTest, RingAnswer,
        RingAnswered, RingHang, RingReturn, Read, settings, counts, tones, locals
  <2> QED
    BY <1>1, <2>1, RingFrame, LimitUntouched
<1>2. CASE ToneThread \/ ToneCount \/ ToneFinish
  <2>1. /\ toneSet' = toneSet /\ pc \in [Threads -> ClientPc \cup RingPc \cup TonePc]
        /\ toneSet \in ToneRecord /\ toneIsr \in PulseRecord /\ tonePulseCount \in Nat
    BY <1>2
    DEF TypeOK, ToneThread, ToneDispatch, ToneSnapshot, ToneIgnore, ToneFirstEdge, TonePulse,
        ToneCount, ToneHang, ToneHung, ToneFinish, ToneReturn, settings
  <2> USE DEF Go, At, Threads
  <2>2. CASE ToneDispatch
    <3>1. toneIsr' = [NoPulse EXCEPT !.set = [toneSet EXCEPT !.pulses = 0]]
      BY <2>2 DEF ToneDispatch
    <3>2. toneIsr'.set = [toneSet EXCEPT !.pulses = 0]
      BY <3>1 DEF NoPulse
    <3>3. toneIsr'.set.enable = toneSet.enable
      BY <2>1, <3>2 DEF ToneRecord
    <3>4. pc["tone"] = "idle" /\ pc'["tone"] = "snapshot" /\ tonePulseCount' = tonePulseCount
      BY <2>1, <2>2 DEF ToneDispatch, counts, tones
    <3> QED
      BY <2>1, <3>3, <3>4 DEF LimitInv, Below
  <2>3. CASE ToneSnapshot
    <3>1. /\ toneIsr'.set = [toneIsr.set EXCEPT !.pulses = toneSet.pulses]
          /\ toneIsr'.count = tonePulseCount
      BY <2>3 DEF ToneSnapshot
    <3>2. toneIsr'.set.enable = toneIsr.set.enable /\ toneIsr'.set.pulses = toneSet.pulses
      BY <2>1, <3>1 DEF ToneRecord, PulseRecord
    <3>3. pc["tone"] = "snapshot" /\ pc'["tone"] = "decide" /\ tonePulseCount' = tonePulseCount
      BY <2>1, <2>3 DEF ToneSnapshot, counts, tones
    <3> QED
      BY <2>1, <3>1, <3>2, <3>3 DEF LimitInv, Below
  <2>4. CASE ToneIgnore \/ ToneFirstEdge
    <3>1. pc["tone"] = "decide" /\ pc'["tone"] = "idle" /\ tonePulseCount' = tonePulseCount
      BY <2>1, <2>4 DEF ToneIgnore, ToneFirstEdge, ToneReturn, tones
    <3> QED
      BY <2>1, <3>1 DEF LimitInv, Below
  <2>5. CASE \E g \in PulseGaps : TonePulse(g)
    <3>1. PICK g \in PulseGaps : TonePulse(g)
      BY <2>5
    <3>2. /\ pc["tone"] = "decide" /\ tonePulseCount' = tonePulseCount
          /\ pc'["tone"] = IF InWindow(g, toneIsr.set) THEN "count" ELSE "finish"
          /\ toneIsr' = [toneIsr EXCEPT !.count = NextPulses(@, g, toneIsr.set)]
          /\ toneIsr.set.enable
      BY <2>1, <3>1 DEF TonePulse
    <3>3. toneIsr'.set = toneIsr.set /\ toneIsr'.count = NextPulses(toneIsr.count, g, toneIsr.set)
      BY <2>1, <3>2 DEF PulseRecord
    <3> QED
      BY <2>1, <3>2, <3>3 DEF LimitInv, Below, NextPulses
  <2>6. CASE ToneCount
    <3>1. /\ pc["tone"] = "count" /\ toneIsr' = toneIsr
          /\ pc'["tone"] = IF toneIsr.count >= toneIsr.set.pulses THEN "hang" ELSE "finish"
      BY <2>1, <2>6 DEF ToneCount, locals
    <3>2. toneIsr.count \in Nat /\ toneSet.pulses \in Nat
      BY <2>1 DEF PulseRecord, ToneRecord
    <3> QED
      BY <2>1, <3>1, <3>2 DEF LimitInv, Below
  <2>7. CASE ToneHang
    <3>1. pc'["tone"] = "hung"
      BY <2>1, <2>7 DEF ToneHang
    <3> QED
      BY <3>1 DEF LimitInv
  <2>8. CASE ToneHung
    <3>1. pc'["tone"] = "finish" /\ toneIsr' = [toneIsr EXCEPT !.count = 0]
      BY <2>1, <2>8 DEF ToneHung, AfterHangup
    <3>2. toneIsr'.count = 0
      BY <2>1, <3>1 DEF PulseRecord
    <3> QED
      BY <3>1, <3>2 DEF LimitInv, Below
  <2>9. CASE ToneFinish
    <3>1. pc["tone"] = "finish" /\ pc'["tone"] = "idle" /\ tonePulseCount' = toneIsr.count
      BY <2>1, <2>9 DEF ToneFinish, ToneReturn
    <3> QED
      BY <2>1, <3>1 DEF LimitInv, Below
  <2> QED
    BY <1>2, <2>2, <2>3, <2>4, <2>5, <2>6, <2>7, <2>8, <2>9 DEF ToneThread
<1>3. CASE \E s \in ToneSettings : SetHangupToneDetect(s)
  <2>1. /\ tonePulseCount' = 0 /\ pc' = pc /\ ~isOpen /\ pc["client"] = "idle"
    BY <1>3 DEF SetHangupToneDetect, MayCall, At
  <2>2. pc["tone"] = "idle"
    BY <2>1 DEF TypeOK, CloseInv, ToneStopped, IsClosed, Quiet, Idle
  <2> QED
    BY <2>1, <2>2 DEF LimitInv, Below
<1>4. CASE \/ \E n \in RingLimits : SetRingingBeforeOffhook(n)
           \/ \E v \in BOOLEAN : SetHookFlash(v)
           \/ \E h \in UserHandlers, on \in BOOLEAN : SetHandler(h, on)
           \/ Hook
           \/ \E t \in Threads : ResetCount(t)
           \/ \E p \in {"ring", "tone"} : Edge(p)
           \/ UNCHANGED vars
  <2>1. /\ toneSet' = toneSet /\ toneIsr' = toneIsr /\ tonePulseCount' = tonePulseCount
        /\ pc' = pc
    BY <1>4
    DEF SetRingingBeforeOffhook, SetHookFlash, SetHandler, Hook, ClientHook, ResetCount, Edge,
        vars, settings, counts, tones, locals
  <2> QED
    BY <2>1, LimitUntouched
<1>5. CASE Open \/ Close \/ Finishing
  <2>1. /\ toneSet' = toneSet /\ toneIsr' = toneIsr /\ tonePulseCount' = tonePulseCount
        /\ pc'["tone"] = pc["tone"]
    BY <1>5
    DEF Open, Close, Finishing, AttachRing, AttachTone, Attach, Opened, DetachRing, JoinRing,
        DetachTone, JoinTone, Detach, Join, Closed, Go, Threads, TypeOK, settings, counts, tones,
        locals
  <2> QED
    BY <2>1, LimitUntouched
<1> QED
  BY <1>1, <1>2, <1>3, <1>4, <1>5 DEF Next, Client, Store, Configure

(* While the application configures the tone before open(), as the         *)
(* demonstrations do, no hang-up is overdue between two edges of the tone  *)
(* pin, for any configuration and any intervals.                           *)
THEOREM NoHangupOverdue ==
  ASSUME "setHangupToneDetect" \notin OpenCalls
  PROVE  Spec => []PulsesBelowLimit
<1>1. Init => LimitInv
  BY DEF Init, LimitInv, Below, Threads, NoTone
<1>2. TypeOK /\ CloseInv /\ LimitInv /\ [Next]_vars => LimitInv'
  BY LimitStep
<1>3. LimitInv => PulsesBelowLimit
  BY DEF LimitInv, PulsesBelowLimit, Idle, Below
<1> QED
  BY <1>1, <1>2, <1>3, TypeCorrect, CloseInvariant, PTL DEF Spec
=============================================================================
