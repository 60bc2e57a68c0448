-------------------------------- MODULE Daa --------------------------------
(***************************************************************************)
(* The telephone line interface, class Piphons::Daa (src/daa.cpp).         *)
(*                                                                         *)
(* Three threads share one Daa::Private object: the application ("client") *)
(* calls the public API, and each input pin with an interrupt attached has *)
(* a thread of its own that runs ringIsr ("ring") or toneIsr ("tone").     *)
(* User handlers run in the thread of the interrupt that calls them.       *)
(*                                                                         *)
(* An action is the code between two points where another thread can see   *)
(* or change what it uses.  The exclusive sections of the shared mutex,    *)
(* and the shared ones that read unrelated fields, are one action each.    *)
(* The section in which toneIsr reads the tone configuration is two: the   *)
(* shared lock is held while pc["tone"] = "snapshot", and that is the only *)
(* state in which a writer has to wait.                                    *)
(*                                                                         *)
(* Time appears only as the millisecond intervals the handlers compute.    *)
(*                                                                         *)
(* A definition whose comment begins with "Mistake:" is used by no action. *)
(* It is the definition after it as a plausible bug would make it, for the *)
(* mutation checks of the properties.                                      *)
(***************************************************************************)
EXTENDS Naturals

CONSTANTS
  OffhookEnabledLevel,  (* the pin level that seizes the line             *)
  HasTonePin,           (* was the object built with a tone pin?          *)
  ClockWraps,           (* may clk.millis() return 0?                     *)
  RingLimits,           (* arguments of setRingingBeforeOffhook           *)
  ToneSettings,         (* arguments of setHangupToneDetect               *)
  UserHandlers,         (* the handlers the application sets              *)
  RingGaps,             (* intervals between two rings, in ms             *)
  PulseGaps,            (* intervals between two edges of the tone pin    *)
  OpenCalls,            (* API calls the client makes while open          *)
  HandlerHook,          (* arguments of offhook() a user handler may pass *)
  RingCap               (* ring counts from here on behave alike          *)

ToneRecord == [enable : BOOLEAN, pwMin : Nat, pwMax : Nat, pulses : Nat]

(* "offhook" and "hangup" are Daa::offhook(true) and Daa::offhook(false).  *)
Calls == {"offhook", "hangup", "setRingingBeforeOffhook", "setHookFlash",
          "setHandler", "setHangupToneDetect"}

Handlers == {"ringing", "offhook", "hangupTone"}

ASSUME DaaAssumption ==
  /\ OffhookEnabledLevel \in BOOLEAN
  /\ HasTonePin \in BOOLEAN
  /\ ClockWraps \in BOOLEAN
  /\ RingLimits \subseteq Nat
  /\ ToneSettings \subseteq ToneRecord
  /\ UserHandlers \subseteq Handlers
  /\ RingGaps \subseteq Nat
  /\ PulseGaps \subseteq Nat
  /\ OpenCalls \subseteq Calls
  /\ HandlerHook \subseteq BOOLEAN
  /\ RingCap \in Nat

(* A count is compared with 0, with 3 and with a ring limit only (8 unless *)
(* it is set), so that saturating it at RingCap changes no outcome.        *)
ASSUME RingCapAssumption == RingCap >= 8 /\ \A n \in RingLimits : n <= RingCap

VARIABLES
  isOpen,               (* fields of Daa::Private                         *)
  ringingSinceHangup,
  ringingBeforeOffhook,
  hookFlash,
  handlers,             (* which user handlers are set                    *)
  toneSet,              (* toneHangupEnable, tonePwMin, tonePwMax and     *)
                        (* tonePulseBeforeHanghup                         *)
  tonePulseCount,
  lastTone,             (* is the field lastTone other than 0?            *)
  offhookPin,           (* the level of the output pin                    *)
  attached,             (* pins with an interrupt attached                *)
  irq,                  (* pins with an interrupt pending                 *)
  resetting,            (* threads between the two halves of offhook()    *)
  pc,
  ringIsr,              (* locals of the running ringIsr                  *)
  toneIsr               (* locals of the running toneIsr                  *)

settings == <<ringingBeforeOffhook, hookFlash, handlers, toneSet>>
tones    == <<tonePulseCount, lastTone>>
counts   == <<ringingSinceHangup, tones>>
hook     == <<offhookPin, resetting>>
pins     == <<attached, irq>>
locals   == <<ringIsr, toneIsr>>
vars     == <<isOpen, settings, counts, hook, pins, pc, locals>>

Threads  == {"client", "ring", "tone"}
ClientPc == {"idle", "attachRing", "attachTone", "opened", "detachRing",
             "joinRing", "detachTone", "joinTone", "closed"}
RingPc   == {"idle", "snapshot", "store", "ringing", "test", "answer",
             "answered", "hang"}
TonePc   == {"idle", "snapshot", "decide", "count", "hang", "hung", "finish"}

(* The locals of ringIsr and of toneIsr. *)
RingRecord  == [count : 0 .. RingCap, gap : Nat, quick : BOOLEAN, before : Nat,
                call : SUBSET Handlers]
PulseRecord == [set : ToneRecord, count : Nat, call : BOOLEAN]

NoTone  == [enable |-> FALSE, pwMin |-> 0, pwMax |-> 0, pulses |-> 0]
NoRing  == [count |-> 0, gap |-> 0, quick |-> FALSE, before |-> 0, call |-> {}]
NoPulse == [set |-> NoTone, count |-> 0, call |-> FALSE]

Init ==
  /\ isOpen = FALSE
  /\ ringingSinceHangup = 0
  /\ ringingBeforeOffhook = 8
  /\ hookFlash = FALSE
  /\ handlers = {}
  /\ toneSet = NoTone
  /\ tonePulseCount = 0
  /\ lastTone = FALSE
  /\ offhookPin \in BOOLEAN
  /\ attached = {}
  /\ irq = {}
  /\ resetting = {}
  /\ pc = [t \in Threads |-> "idle"]
  /\ ringIsr = NoRing
  /\ toneIsr = NoPulse

-----------------------------------------------------------------------------
(* The mutex, the output pin and the calls every thread can make.          *)

(* Mistake: a setter or an ISR writes without taking the mutex. *)
UnguardedWrite == TRUE
Writable == pc["tone"] # "snapshot"

(* Thread t is at label l, outside any call of Daa::offhook. *)
At(t, l) == pc[t] = l /\ t \notin resetting
Go(t, l) == pc' = [pc EXCEPT ![t] = l]

(* The phony reading of an input pin, which erases its interrupt. *)
Read(p) == irq' = irq \ {p}

IsOffhook     == offhookPin = OffhookEnabledLevel
SetOffhook(v) == offhookPin' = (v = OffhookEnabledLevel)

(* Mistake: the pin is written whether or not the line is open. *)
UncheckedOffhook(t, v) ==
  /\ SetOffhook(v)
  /\ resetting' = IF v THEN resetting ELSE resetting \cup {t}

(* Daa::offhook(v): the pin if the line is open, then, when hanging up, the *)
(* ring counter, which is written without the mutex.                        *)
Offhook(t, v) ==
  /\ IF isOpen THEN SetOffhook(v) ELSE UNCHANGED offhookPin
  /\ resetting' = IF v THEN resetting ELSE resetting \cup {t}

ResetCount(t) ==
  /\ t \in resetting
  /\ resetting' = resetting \ {t}
  /\ ringingSinceHangup' = 0
  /\ UNCHANGED <<isOpen, settings, tones, offhookPin, pins, pc, locals>>

(* A user handler that is set: at most one hook call each time it runs. *)
RunHandler(t, set) ==
  \/ UNCHANGED hook
  \/ set /\ \E v \in HandlerHook : Offhook(t, v)

-----------------------------------------------------------------------------
(* The client: open() and close().                                         *)

Open ==
  /\ At("client", "idle")
  /\ ~isOpen
  /\ SetOffhook(FALSE)
  /\ Go("client", "attachRing")
  /\ UNCHANGED <<isOpen, settings, counts, pins, resetting, locals>>

Attach(p, l) ==
  /\ attached' = attached \cup {p}
  /\ Go("client", l)
  /\ UNCHANGED <<isOpen, settings, counts, hook, irq, locals>>

AttachRing == /\ At("client", "attachRing")
              /\ Attach("ring", IF HasTonePin THEN "attachTone" ELSE "opened")
AttachTone == At("client", "attachTone") /\ Attach("tone", "opened")

Opened ==
  /\ At("client", "opened")
  /\ isOpen' = TRUE
  /\ Go("client", "idle")
  /\ UNCHANGED <<settings, counts, hook, pins, locals>>

Close ==
  /\ At("client", "idle")
  /\ isOpen
  /\ Offhook("client", FALSE)
  /\ Go("client", "detachRing")
  /\ UNCHANGED <<isOpen, settings, counts, pins, locals>>

(* Pin::detachInterrupt stops the thread of the pin, then waits for it. *)
Detach(p, l) ==
  /\ attached' = attached \ {p}
  /\ irq' = irq \ {p}
  /\ Go("client", l)
  /\ UNCHANGED <<isOpen, settings, counts, hook, locals>>

Join(p, l) ==
  /\ At(p, "idle")
  /\ Go("client", l)
  /\ UNCHANGED <<isOpen, settings, counts, hook, pins, locals>>

(* Mistake: close() waits for the ISR with its interrupt still attached. *)
StayAttached ==
  /\ At("client", "detachRing")
  /\ Go("client", "joinRing")
  /\ UNCHANGED <<isOpen, settings, counts, hook, pins, locals>>

(* Mistake: close() leaves the tone pin as it is. *)
ForgetTone == At("client", "joinRing") /\ Join("ring", "closed")

DetachRing == At("client", "detachRing") /\ Detach("ring", "joinRing")
JoinRing   == /\ At("client", "joinRing")
              /\ Join("ring", IF HasTonePin THEN "detachTone" ELSE "closed")
DetachTone == At("client", "detachTone") /\ Detach("tone", "joinTone")
JoinTone   == At("client", "joinTone") /\ Join("tone", "closed")

Closed ==
  /\ At("client", "closed")
  /\ isOpen' = FALSE
  /\ Go("client", "idle")
  /\ UNCHANGED <<settings, counts, hook, pins, locals>>

-----------------------------------------------------------------------------
(* The client: hook calls and setters.                                     *)

MayCall(c) == At("client", "idle") /\ (isOpen => c \in OpenCalls)

ClientHook(c, v) ==
  /\ MayCall(c)
  /\ Offhook("client", v)
  /\ UNCHANGED <<isOpen, settings, counts, pins, pc, locals>>

SetRingingBeforeOffhook(n) ==
  /\ MayCall("setRingingBeforeOffhook")
  /\ Writable
  /\ ringingBeforeOffhook' = n
  /\ UNCHANGED <<isOpen, hookFlash, handlers, toneSet, counts, hook, pins, pc,
                 locals>>

SetHookFlash(v) ==
  /\ MayCall("setHookFlash")
  /\ Writable
  /\ hookFlash' = v
  /\ UNCHANGED <<isOpen, ringingBeforeOffhook, handlers, toneSet, counts, hook,
                 pins, pc, locals>>

(* setRingingHandler, setOffhookHandler, setHangupToneHandler *)
SetHandler(h, on) ==
  /\ MayCall("setHandler")
  /\ Writable
  /\ handlers' = IF on THEN handlers \cup {h} ELSE handlers \ {h}
  /\ UNCHANGED <<isOpen, ringingBeforeOffhook, hookFlash, toneSet, counts,
                 hook, pins, pc, locals>>

SetHangupToneDetect(s) ==
  /\ HasTonePin
  /\ MayCall("setHangupToneDetect")
  /\ Writable
  /\ toneSet' = s
  /\ tonePulseCount' = 0
  /\ UNCHANGED <<isOpen, ringingBeforeOffhook, hookFlash, handlers,
                 ringingSinceHangup, lastTone, hook, pins, pc, locals>>

-----------------------------------------------------------------------------
(* ringIsr                                                                  *)

Saturate(n) == IF n < RingCap THEN n ELSE RingCap

(* Mistake: the rings of one call, 5 s apart, are taken for several calls. *)
EndsLull(r) == r.count > 0 /\ r.gap >= 5000

(* A ring more than 7 s after the last one belongs to another call, unless *)
(* it ends a hook flash.                                                    *)
EndsSilence(r) == r.count > 0 /\ r.gap > 7000
IsFlash(r)     == EndsSilence(r) /\ hookFlash /\ r.count <= 3 /\ r.gap <= 60000

(* Mistake: the count of an earlier call is carried on. *)
NeverRestarted(r) == Saturate(r.count + 1)
NextCount(r) ==
  IF EndsSilence(r) /\ ~IsFlash(r) THEN 1 ELSE Saturate(r.count + 1)

(* The interrupt of the ring pin is taken: the counter is read unlocked.   *)
RingDispatch(g) ==
  /\ At("ring", "idle")
  /\ "ring" \in attached \cap irq
  /\ ringIsr' = [NoRing EXCEPT !.count = ringingSinceHangup, !.gap = g]
  /\ Go("ring", "snapshot")
  /\ UNCHANGED <<isOpen, settings, counts, hook, pins, toneIsr>>

(* The settings are read, the new count computed and the pin read. *)
RingSnapshot ==
  /\ At("ring", "snapshot")
  /\ ringIsr' = [count |-> NextCount(ringIsr), gap |-> 0,
                 quick |-> IsFlash(ringIsr), before |-> ringingBeforeOffhook,
                 call |-> handlers]
  /\ Read("ring")
  /\ Go("ring", "store")
  /\ UNCHANGED <<isOpen, settings, counts, hook, attached, toneIsr>>

(* Mistake: the new count is added to the old one. *)
RingStoreAdds ==
  /\ At("ring", "store")
  /\ Writable
  /\ ringingSinceHangup' = ringingSinceHangup + ringIsr.count
  /\ Go("ring", "ringing")
  /\ UNCHANGED <<isOpen, settings, tones, hook, pins, locals>>

RingStore ==
  /\ At("ring", "store")
  /\ Writable
  /\ ringingSinceHangup' = ringIsr.count
  /\ Go("ring", "ringing")
  /\ UNCHANGED <<isOpen, settings, tones, hook, pins, locals>>

RingHandler ==
  /\ At("ring", "ringing")
  /\ RunHandler("ring", "ringing" \in ringIsr.call)
  /\ Go("ring", "test")
  /\ UNCHANGED <<isOpen, settings, counts, pins, locals>>

RingReturn ==
  /\ Go("ring", "idle")
  /\ ringIsr' = NoRing
  /\ UNCHANGED <<isOpen, settings, counts, pins, toneIsr>>

AfterTest ==
  CASE IsOffhook -> "hang"
    [] ~IsOffhook /\ (ringIsr.count >= ringIsr.before \/ ringIsr.quick) -> "answer"
    [] OTHER -> "idle"

RingTest ==
  /\ At("ring", "test")
  /\ Go("ring", AfterTest)
  /\ ringIsr' = IF AfterTest = "idle" THEN NoRing ELSE ringIsr
  /\ UNCHANGED <<isOpen, settings, counts, hook, pins, toneIsr>>

RingAnswer ==
  /\ At("ring", "answer")
  /\ SetOffhook(TRUE)
  /\ Go("ring", "answered")
  /\ UNCHANGED <<isOpen, settings, counts, pins, resetting, locals>>

RingAnswered ==
  /\ At("ring", "answered")
  /\ RunHandler("ring", "offhook" \in ringIsr.call)
  /\ RingReturn

RingHang ==
  /\ At("ring", "hang")
  /\ SetOffhook(FALSE)
  /\ UNCHANGED resetting
  /\ RingReturn

-----------------------------------------------------------------------------
(* toneIsr                                                                  *)

InWindow(g, s) == g >= s.pwMin /\ g <= s.pwMax

(* Mistake: the pulses must be consecutive. *)
PulsesInARow(n, g, s) == IF InWindow(g, s) THEN n + 1 ELSE 0

(* An interval outside the window leaves the count as it is. *)
NextPulses(n, g, s) == IF InWindow(g, s) THEN n + 1 ELSE n

(* Mistake: the count goes on after a hang-up. *)
CarriedOn(n) == n

(* The count after a hang-up on n pulses. *)
AfterHangup(n) == 0

(* The time now, as lastTone sees it. *)
Now == IF ClockWraps THEN BOOLEAN ELSE {TRUE}

ToneDispatch ==
  /\ At("tone", "idle")
  /\ "tone" \in attached \cap irq
  /\ toneIsr' = [NoPulse EXCEPT !.set = [toneSet EXCEPT !.pulses = 0]]
  /\ Go("tone", "snapshot")
  /\ UNCHANGED <<isOpen, settings, counts, hook, pins, ringIsr>>

ToneSnapshot ==
  /\ At("tone", "snapshot")
  /\ toneIsr' = [set   |-> [toneIsr.set EXCEPT !.pulses = toneSet.pulses],
                 count |-> tonePulseCount,
                 call  |-> "hangupTone" \in handlers]
  /\ Go("tone", "decide")
  /\ UNCHANGED <<isOpen, settings, counts, hook, pins, ringIsr>>

ToneReturn ==
  /\ Go("tone", "idle")
  /\ toneIsr' = NoPulse
  /\ UNCHANGED <<isOpen, settings, ringingSinceHangup, hook, attached,
                 ringIsr>>

(* Detection is off: the pin is not read and its interrupt stays pending. *)
ToneIgnore ==
  /\ At("tone", "decide")
  /\ ~toneIsr.set.enable
  /\ UNCHANGED <<irq, tones>>
  /\ ToneReturn

ToneFirstEdge ==
  /\ At("tone", "decide")
  /\ toneIsr.set.enable
  /\ ~lastTone
  /\ lastTone' \in Now
  /\ Read("tone")
  /\ UNCHANGED tonePulseCount
  /\ ToneReturn

TonePulse(g) ==
  /\ At("tone", "decide")
  /\ toneIsr.set.enable
  /\ lastTone
  /\ lastTone' \in Now
  /\ toneIsr' = [toneIsr EXCEPT !.count = NextPulses(@, g, toneIsr.set)]
  /\ Go("tone", IF InWindow(g, toneIsr.set) THEN "count" ELSE "finish")
  /\ UNCHANGED <<isOpen, settings, ringingSinceHangup, tonePulseCount, hook,
                 pins, ringIsr>>

ToneCount ==
  /\ At("tone", "count")
  /\ Writable
  /\ tonePulseCount' = toneIsr.count
  /\ Go("tone", IF toneIsr.count >= toneIsr.set.pulses THEN "hang" ELSE "finish")
  /\ UNCHANGED <<isOpen, settings, ringingSinceHangup, lastTone, hook, pins,
                 locals>>

ToneHang ==
  /\ At("tone", "hang")
  /\ SetOffhook(FALSE)
  /\ Go("tone", "hung")
  /\ UNCHANGED <<isOpen, settings, counts, pins, resetting, locals>>

(* The handler runs, then the count and the time of the last edge restart. *)
ToneHung ==
  /\ At("tone", "hung")
  /\ RunHandler("tone", toneIsr.call)
  /\ toneIsr' = [toneIsr EXCEPT !.count = AfterHangup(@)]
  /\ lastTone' = FALSE
  /\ Go("tone", "finish")
  /\ UNCHANGED <<isOpen, settings, ringingSinceHangup, tonePulseCount, pins,
                 ringIsr>>

ToneFinish ==
  /\ At("tone", "finish")
  /\ Writable
  /\ tonePulseCount' = toneIsr.count
  /\ Read("tone")
  /\ UNCHANGED lastTone
  /\ ToneReturn

-----------------------------------------------------------------------------
(* The line moves an input pin.                                             *)

Edge(p) ==
  /\ p \in attached \ irq
  /\ irq' = irq \cup {p}
  /\ UNCHANGED <<isOpen, settings, counts, hook, attached, pc, locals>>

-----------------------------------------------------------------------------
Configure ==
  \/ \E n \in RingLimits : SetRingingBeforeOffhook(n)
  \/ \E v \in BOOLEAN : SetHookFlash(v)
  \/ \E h \in UserHandlers, on \in BOOLEAN : SetHandler(h, on)
  \/ \E s \in ToneSettings : SetHangupToneDetect(s)

Hook == ClientHook("offhook", TRUE) \/ ClientHook("hangup", FALSE)

(* What the client does once a call of open() or close() has begun. *)
Finishing == \/ AttachRing \/ AttachTone \/ Opened
             \/ DetachRing \/ JoinRing \/ DetachTone \/ JoinTone \/ Closed

Client == Open \/ Close \/ Configure \/ Hook \/ Finishing

RingThread == \/ \E g \in RingGaps : RingDispatch(g)
              \/ RingSnapshot \/ RingHandler \/ RingTest
              \/ RingAnswer \/ RingAnswered \/ RingHang

ToneThread == \/ ToneDispatch \/ ToneSnapshot \/ ToneIgnore \/ ToneFirstEdge
              \/ \E g \in PulseGaps : TonePulse(g)
              \/ ToneHang \/ ToneHung

(* The ISR steps that wait for the mutex. *)
Store == RingStore \/ ToneCount \/ ToneFinish

Next == \/ Client \/ RingThread \/ ToneThread \/ Store
        \/ \E t \in Threads : ResetCount(t)
        \/ \E p \in {"ring", "tone"} : Edge(p)

Spec == Init /\ [][Next]_vars

(* Every thread that can run keeps running, and the mutex starves no       *)
(* writer.  Nothing obliges the client to start a call, or a line to ring. *)
Fairness ==
  /\ WF_vars(Finishing)
  /\ \A t \in Threads : WF_vars(ResetCount(t))
  /\ WF_vars(RingThread)
  /\ WF_vars(ToneThread)
  /\ SF_vars(RingStore)
  /\ SF_vars(ToneCount)
  /\ SF_vars(ToneFinish)

FairSpec == Spec /\ Fairness

-----------------------------------------------------------------------------
(* Properties.                                                              *)

TypeOK ==
  /\ isOpen \in BOOLEAN
  /\ ringingSinceHangup \in 0 .. RingCap
  /\ ringingBeforeOffhook \in Nat
  /\ hookFlash \in BOOLEAN
  /\ handlers \subseteq Handlers
  /\ toneSet \in ToneRecord
  /\ tonePulseCount \in Nat
  /\ lastTone \in BOOLEAN
  /\ offhookPin \in BOOLEAN
  /\ attached \subseteq {"ring", "tone"}
  /\ irq \subseteq attached
  /\ resetting \subseteq Threads
  /\ pc \in [Threads -> ClientPc \cup RingPc \cup TonePc]
  /\ pc["client"] \in ClientPc
  /\ pc["ring"] \in RingPc
  /\ pc["tone"] \in TonePc
  /\ ringIsr \in RingRecord
  /\ toneIsr \in PulseRecord

Idle(t) == pc[t] = "idle" /\ t \notin resetting

(* Once close() has returned, and until open() is called again, neither    *)
(* interrupt thread is inside an ISR or a user handler and no interrupt is *)
(* attached: the object may be destroyed, as ~Daa() does after close().    *)
ClosedIsQuiet ==
  ~isOpen /\ pc["client"] = "idle" => Idle("ring") /\ Idle("tone") /\ attached = {}

(* The hook relay only moves while the line is open, or under a call of    *)
(* open() or close(): Daa::offhook on a closed line writes nothing, and no *)
(* ISR outlives close() to move it.                                        *)
PinSilentWhenClosed ==
  [][offhookPin' # offhookPin =>
       isOpen \/ pc["client"] # "idle" \/ pc'["client"] # "idle"]_vars

Line == INSTANCE LineService
          WITH live      <- isOpen \/ pc["client"] # "idle",
               seized    <- IsOffhook,
               answering <- pc["ring"] = "answered",
               hanging   <- pc["tone"] = "hung"

(* The line is what an application is promised.  The handler of an answer  *)
(* runs only after a ring has seized the line, that of the busy tone after *)
(* toneIsr has released it, and both between open() and the end of close().*)
KeepsLine == Line!Spec

(* toneIsr acts on a configuration that one call of setHangupToneDetect    *)
(* (or the constructor) wrote, never on half of one and half of another.   *)
ToneSnapshotConsistent ==
  pc["tone"] \in {"decide", "count", "hang"} =>
    toneIsr.set \in ToneSettings \cup {NoTone}

(* Between two edges, while only the demos' calls are made (the tone is    *)
(* configured before open), fewer pulses are on the books than it takes:   *)
(* the next single edge never finds a hang-up that should already have     *)
(* happened.                                                               *)
PulsesBelowLimit ==
  isOpen /\ Idle("tone") /\ toneSet.enable =>
    tonePulseCount = 0 \/ tonePulseCount < toneSet.pulses

(* The line is on hook when close() has finished, as the demo says.        *)
CloseLeavesLineOnHook == pc["client"] = "closed" => ~IsOffhook

(* close() returns, whatever the ISRs are doing. *)
CloseReturns == pc["client"] = "detachRing" ~> pc["client"] = "idle"

(* A caller who keeps ringing an open line is answered. *)
CallerAnswered ==
  <>[](isOpen /\ pc["client"] = "idle") /\ []<>("ring" \in irq) => []<>IsOffhook

(* A busy tone that keeps coming on an open line with detection enabled    *)
(* hangs it up, also when noise comes between its pulses.                  *)
BusyToneHangsUp ==
  <>[](isOpen /\ toneSet.enable) /\ []<>(pc["tone"] = "count")
    => []<>(pc["tone"] = "hang")
=============================================================================
