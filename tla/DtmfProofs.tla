----------------------------- MODULE DtmfProofs -----------------------------
(***************************************************************************)
(* The DTMF decoder, for any number of data pins, any usages and a queue   *)
(* of any length: its type, what the end of close() and the user handler   *)
(* rely on, and that it implements OrderedDelivery.                        *)
(***************************************************************************)
EXTENDS Dtmf, SequenceTheorems, TLAPS

(* A running keyIsr reads a pin that exists. *)
ReadsPin == pc["key"] = "read" => keyIsr.next \in Pins

TypeInv == TypeOK /\ ReadsPin

CodeRead == [next : 0 .. PinCount, high : Keys]

LEMMA NoCodeType == NoCode \in CodeRead /\ NoCode.next \in Pins
<1>1. 0 \in 0 .. PinCount /\ 0 \in Pins
  BY DtmfAssumption DEF Pins
<1>2. {} \in Keys
  BY DEF Keys
<1> QED
  BY <1>1, <1>2 DEF NoCode, CodeRead

LEMMA TypeInit == Init => TypeInv
<1> SUFFICES ASSUME Init PROVE TypeInv
  OBVIOUS
<1>1. usage \in Usage
  BY DtmfAssumption DEF Init
<1>2. ready \in BOOLEAN
  BY <1>1 DEF Init, Usage
<1>3. pc \in [{"client", "key"} -> ClientPc \cup KeyPc]
  BY DEF Init, ClientPc, KeyPc
<1>4. fifo \in Seq(Keys)
  BY EmptySeq DEF Init
<1> QED
  BY <1>2, <1>3, <1>4, NoCodeType
  DEF Init, TypeInv, TypeOK, ReadsPin, CodeRead, ClientPc, KeyPc

(* What a read() does to the queue. *)
LEMMA TakeType ==
  ASSUME fifo \in Seq(Keys), Take
  PROVE  fifo' \in Seq(Keys) /\ got' \in Keys
BY HeadTailProperties DEF Take

LEMMA ClientType == ASSUME TypeInv, Client PROVE TypeInv'
<1> USE DEF TypeInv, TypeOK, ReadsPin, ClientPc, KeyPc, Go
<1>1. CASE Open \/ Opened \/ Close \/ Closed
  BY <1>1 DEF Open, Opened, Close, Closed, Detach
<1>2. CASE ClientRead
  BY <1>2, TakeType DEF ClientRead
<1>3. CASE \E v \in BOOLEAN : SetKeyHandler(v)
  BY <1>3 DEF SetKeyHandler
<1> QED
  BY <1>1, <1>2, <1>3 DEF Client

LEMMA KeyThreadType == ASSUME TypeInv, KeyThread PROVE TypeInv'
<1> USE DtmfAssumption DEF TypeInv, TypeOK, ReadsPin, ClientPc, KeyPc, Go
<1>1. CASE Dispatch
  BY <1>1, NoCodeType DEF Dispatch, CodeRead
<1>2. CASE ReadPin
  <2>1. keyIsr' \in [next : 0 .. PinCount, high : Keys]
    BY <1>2 DEF ReadPin, Keys, Pins
  <2>2. pc'["key"] = "read" => keyIsr'.next \in Pins
    BY <1>2 DEF ReadPin, LastPin, Pins
  <2> QED
    BY <1>2, <2>1, <2>2 DEF ReadPin
<1>3. CASE Push
  <2>1. fifo' \in Seq(Keys)
    BY <1>3, AppendProperties DEF Push, Queued
  <2>2. keyIsr' \in [next : 0 .. PinCount, high : Keys]
    BY <1>3, NoCodeType DEF Push, CodeRead
  <2> QED
    BY <1>3, <2>1, <2>2 DEF Push
<1>4. CASE Call
  BY <1>4 DEF Call
<1>5. CASE RunHandler
  BY <1>5, TakeType DEF RunHandler
<1> QED
  BY <1>1, <1>2, <1>3, <1>4, <1>5 DEF KeyThread

LEMMA PressType == ASSUME TypeInv, NEW k \in Keys, Press(k) PROVE TypeInv'
BY DEF Press, TypeInv, TypeOK, ReadsPin

LEMMA NextType == TypeInv /\ [Next]_vars => TypeInv'
<1> SUFFICES ASSUME TypeInv, [Next]_vars PROVE TypeInv'
  OBVIOUS
<1>1. CASE UNCHANGED vars
  BY <1>1 DEF vars, TypeInv, TypeOK, ReadsPin
<1> QED
  BY <1>1, ClientType, KeyThreadType, PressType DEF Next

(* The queue holds keys, and every other variable its type. *)
THEOREM DtmfTypes == Spec => []TypeOK
<1>1. Spec => []TypeInv
  BY TypeInit, NextType, PTL DEF Spec
<1> QED
  BY <1>1, PTL DEF TypeInv

-----------------------------------------------------------------------------
(* The interrupt is attached from the first step of open() to the first of *)
(* close(), is pending only while it is attached, and keyIsr runs only     *)
(* until close() has waited for it.                                        *)
AttachInv ==
  /\ pc["client"] = "idle" => (attached <=> isOpen)
  /\ pc["client"] = "attached" => attached
  /\ pc["client"] = "detached" => ~attached
  /\ irq => attached
  /\ pc["key"] = "idle" \/ attached \/ pc["client"] = "detached"

LEMMA AttachStep == TypeOK /\ AttachInv /\ [Next]_vars => AttachInv'
<1> SUFFICES ASSUME TypeOK, AttachInv, [Next]_vars PROVE AttachInv'
  OBVIOUS
<1> USE DEF TypeOK, AttachInv, ClientPc, KeyPc, Go
<1>1. CASE Open \/ Opened
  BY <1>1 DEF Open, Opened
<1>2. CASE Close \/ Closed
  BY <1>2 DEF Close, Closed, Detach, IsrEnded
<1>3. CASE ClientRead \/ \E v \in BOOLEAN : SetKeyHandler(v)
  BY <1>3 DEF ClientRead, SetKeyHandler
<1>4. CASE KeyThread
  BY <1>4 DEF KeyThread, Dispatch, Due, ReadPin, Push, Call, RunHandler
<1>5. CASE \E k \in Keys : Press(k)
  BY <1>5 DEF Press
<1>6. CASE UNCHANGED vars
  BY <1>6 DEF vars
<1> QED
  BY <1>1, <1>2, <1>3, <1>4, <1>5, <1>6 DEF Next, Client

(* Once close() has returned keyIsr is not running and cannot start.       *)
THEOREM QuietWhenClosed == Spec => []ClosedIsQuiet
<1>1. Init => AttachInv
  BY DEF Init, AttachInv
<1>2. AttachInv => ClosedIsQuiet
  BY DEF AttachInv, ClosedIsQuiet
<1> QED
  BY <1>1, <1>2, AttachStep, DtmfTypes, PTL DEF Spec

-----------------------------------------------------------------------------
(* How far keyIsr is from its end. *)

StepsLeft ==
  [idle |-> 0, handler |-> 1, call |-> 2, push |-> 3, read |-> 3][pc["key"]]
    + (IF pc["key"] = "read" THEN PinCount - keyIsr.next ELSE 0)

NearerToEnd ==
  [][~attached => IF KeyThread THEN StepsLeft' < StepsLeft ELSE StepsLeft' = StepsLeft]_vars

LEMMA KeyNearer ==
  ASSUME TypeInv, TypeInv', ~attached, KeyThread
  PROVE  StepsLeft' < StepsLeft
<1> USE DtmfAssumption DEF TypeInv, TypeOK, StepsLeft, Go
<1>1. ~Dispatch
  BY DEF Dispatch, Due
<1>2. CASE ReadPin
  <2>1. /\ pc["key"] = "read" /\ keyIsr.next \in Nat
        /\ keyIsr'.next = keyIsr.next + 1 /\ keyIsr.next < PinCount
    BY <1>2 DEF ReadPin, ReadsPin, Pins
  <2>2. CASE LastPin(keyIsr.next)
    <3>1. pc'["key"] = "push"
      BY <1>2, <2>2 DEF ReadPin
    <3> QED
      BY <2>1, <3>1
  <2>3. CASE ~LastPin(keyIsr.next)
    <3>1. pc'["key"] = "read"
      BY <1>2, <2>3 DEF ReadPin
    <3> QED
      BY <2>1, <3>1
  <2> QED
    BY <2>2, <2>3
<1>3. CASE Push
  BY <1>3 DEF Push
<1>4. CASE Call
  BY <1>4 DEF Call
<1>5. CASE RunHandler
  BY <1>5 DEF RunHandler
<1> QED
  BY <1>1, <1>2, <1>3, <1>4, <1>5 DEF KeyThread

(* Why close() returns: once the interrupt is detached every step of       *)
(* keyIsr, its user handler included, brings it nearer to its end, and no  *)
(* call, no key and no further interrupt sets it back.                     *)
THEOREM KeyIsrRunsDown == Spec => NearerToEnd
<1>1. Spec => []TypeInv
  BY TypeInit, NextType, PTL DEF Spec
<1>2. TypeInv /\ TypeInv' /\ [Next]_vars =>
        [~attached => IF KeyThread THEN StepsLeft' < StepsLeft ELSE StepsLeft' = StepsLeft]_vars
  <2> SUFFICES ASSUME TypeInv, TypeInv', ~attached, Next, ~KeyThread
               PROVE  StepsLeft' = StepsLeft
    BY KeyNearer
  <2>1. pc'["key"] = pc["key"] /\ keyIsr' = keyIsr
    <3>1. CASE Client
      BY <3>1
      DEF Client, Open, Opened, Close, Closed, ClientRead, SetKeyHandler, Go, TypeInv, TypeOK
    <3>2. CASE \E k \in Keys : Press(k)
      BY <3>2 DEF Press
    <3> QED
      BY <3>1, <3>2 DEF Next
  <2> QED
    BY <2>1 DEF StepsLeft
<1> QED
  BY <1>1, <1>2, PTL DEF Spec, NearerToEnd

-----------------------------------------------------------------------------
(* From the push of a key to the end of the handler, where no other thread *)
(* reads, the queue holds a key.                                           *)
HeldForHandler ==
  pc["key"] \in {"call", "handler"} /\ ~usage.clientReads => fifo # <<>>

LEMMA HandlerStep == TypeOK /\ HeldForHandler /\ [Next]_vars => HeldForHandler'
<1> SUFFICES ASSUME TypeOK, HeldForHandler, [Next]_vars PROVE HeldForHandler'
  OBVIOUS
<1> USE DEF TypeOK, HeldForHandler, ClientPc, KeyPc, Go
<1>1. CASE Client
  BY <1>1 DEF Client, Open, Opened, Close, Closed, ClientRead, SetKeyHandler
<1>2. CASE Push
  BY <1>2, AppendProperties DEF Push, Queued
<1>3. CASE Dispatch \/ ReadPin \/ Call \/ RunHandler
  BY <1>3 DEF Dispatch, ReadPin, Call, RunHandler
<1>4. CASE \E k \in Keys : Press(k)
  BY <1>4 DEF Press
<1>5. CASE UNCHANGED vars
  BY <1>5 DEF vars
<1> QED
  BY <1>1, <1>2, <1>3, <1>4, <1>5 DEF Next, KeyThread

(* As long as only handlers read, each finds a key, also when keys come    *)
(* faster than they are read.                                              *)
THEOREM KeyForEveryHandler == Spec => []HandlerFindsKey
<1>1. Init => HeldForHandler
  BY DEF Init, HeldForHandler
<1>2. HeldForHandler => HandlerFindsKey
  BY DEF HeldForHandler, HandlerFindsKey
<1> QED
  BY <1>1, <1>2, HandlerStep, DtmfTypes, PTL DEF Spec

-----------------------------------------------------------------------------
(* As long as a key is read before the next is presented, keyIsr finds the *)
(* pins inputs, no other key takes the place of the one it is reading, and *)
(* what it has read is the part of the key below the next pin.             *)
ReadsWhole ==
  usage.spaced =>
    /\ ready
    /\ pc["key"] = "read" =>
         ~irq /\ keyIsr.high = {p \in code : p < keyIsr.next}

ReadInv == TypeInv /\ ReadsWhole

LEMMA PinOfKey ==
  ASSUME TypeOK
  PROVE  PinCount \in Nat /\ \A p \in code : p \in Nat /\ p < PinCount
<1>1. PinCount \in Nat
  BY DtmfAssumption
<1>2. \A p \in Pins : p \in Nat /\ p < PinCount
  BY <1>1 DEF Pins
<1> QED
  BY <1>1, <1>2 DEF TypeOK, Keys

(* One more pin read, and the key whole when it was the last.              *)
LEMMA PinRead ==
  ASSUME ReadInv, ReadPin, usage.spaced
  PROVE  /\ keyIsr'.high = {p \in code : p < keyIsr'.next}
         /\ pc'["key"] = "push" => keyIsr'.high = code
<1>1. /\ keyIsr.next \in Nat
      /\ keyIsr.high = {p \in code : p < keyIsr.next}
  BY DEF ReadInv, TypeInv, TypeOK, ReadsWhole, ReadPin
<1>2. /\ keyIsr'.next = keyIsr.next + 1
      /\ keyIsr'.high = keyIsr.high \cup (IF keyIsr.next \in code THEN {keyIsr.next} ELSE {})
  BY DEF ReadInv, TypeInv, TypeOK, ReadsWhole, ReadPin, Level
<1>3. pc'["key"] = "push" => keyIsr.next + 1 = PinCount
  BY DEF ReadInv, TypeInv, TypeOK, ReadPin, Go, LastPin
<1>4. \A p \in code : p < keyIsr.next + 1 <=> p < keyIsr.next \/ p = keyIsr.next
  BY <1>1, PinOfKey DEF ReadInv, TypeInv
<1>5. keyIsr'.high = {p \in code : p < keyIsr'.next}
  BY <1>1, <1>2, <1>4
<1>6. {p \in code : p < PinCount} = code
  BY PinOfKey DEF ReadInv, TypeInv
<1> QED
  BY <1>2, <1>3, <1>5, <1>6

LEMMA ReadStep == ReadInv /\ [Next]_vars => ReadInv'
<1> SUFFICES ASSUME ReadInv, [Next]_vars PROVE ReadsWhole'
  BY NextType DEF ReadInv
<1> USE DEF ReadInv, TypeInv, TypeOK, ReadsWhole, ClientPc, KeyPc, Go
<1>1. CASE Client
  BY <1>1 DEF Client, Open, Opened, Close, Closed, Detach, ClientRead, SetKeyHandler
<1>2. CASE Dispatch
  <2>1. {p \in code : p < 0} = {}
    BY PinOfKey
  <2> QED
    BY <1>2, <2>1 DEF Dispatch, NoCode
<1>3. CASE ReadPin
  BY <1>3, PinRead DEF ReadPin
<1>4. CASE Push \/ Call \/ RunHandler
  BY <1>4 DEF Push, Call, RunHandler
<1>5. CASE \E k \in Keys : Press(k)
  BY <1>5 DEF Press
<1>6. CASE UNCHANGED vars
  BY <1>6 DEF vars
<1> QED
  BY <1>1, <1>2, <1>3, <1>4, <1>5, <1>6 DEF Next, KeyThread

LEMMA ReadsAlways == Spec => []ReadInv
<1>1. Init => ReadInv
  BY TypeInit DEF Init, ReadInv, ReadsWhole
<1> QED
  BY <1>1, ReadStep, PTL DEF Spec

-----------------------------------------------------------------------------
(* The decoder as a stage of the voice server.                             *)

Presented == IF irq \/ pc["key"] = "read" THEN <<code>> ELSE <<>>
Read      == IF pc["key"] = "push" THEN <<keyIsr.high>> ELSE <<>>

LEMMA PendingType ==
  ASSUME TypeOK
  PROVE  /\ Presented \in Seq(Keys) /\ Read \in Seq(Keys)
         /\ Pending = (fifo \o Read) \o Presented
         /\ Pending \in Seq(Keys)
<1>1. Presented \in Seq(Keys) /\ Read \in Seq(Keys)
  BY DEF TypeOK, Presented, Read
<1>2. Pending = (fifo \o Read) \o Presented
  BY DEF Pending, Read, Presented
<1>3. fifo \o Read \in Seq(Keys)
  BY <1>1, ConcatProperties DEF TypeOK
<1>4. (fifo \o Read) \o Presented \in Seq(Keys)
  BY <1>1, <1>3, ConcatProperties
<1> QED
  BY <1>1, <1>2, <1>4

(* Taking the head of a sequence leaves what follows it alone. *)
LEMMA HeadOfConcat ==
  ASSUME NEW S, NEW s \in Seq(S), NEW t \in Seq(S), s # <<>>
  PROVE  /\ s \o t # <<>>
         /\ Head(s \o t) = Head(s)
         /\ Tail(s \o t) = Tail(s) \o t
BY HeadTailProperties, ConcatProperties

Queue == IF usage.spaced THEN Pending ELSE <<>>
Last  == IF usage.spaced THEN got ELSE NoKey

StreamMoves == Stream!Next \/ UNCHANGED <<Queue, Last>>

LEMMA StreamInit == Init => Stream!Init
<1> SUFFICES ASSUME Init PROVE Queue = <<>> /\ Last = NoKey
  BY DEF Stream!Init, Queue, Last
<1>1. Pending = <<>> \o <<>> \o <<>>
  BY DEF Init, Pending
<1> QED
  BY <1>1 DEF Init, Queue, Last

(* A step that changes nothing on the way to the application. *)
LEMMA NoMove ==
  ASSUME UNCHANGED <<usage, fifo, got, Read, Presented>>, TypeOK, TypeOK'
  PROVE  StreamMoves
<1>1. Pending' = Pending
  BY PendingType DEF Pending, Read, Presented
<1> QED
  BY <1>1 DEF StreamMoves, Queue, Last

(* A read() delivers the oldest key, whatever follows it. *)
LEMMA TakeMoves ==
  ASSUME Take, UNCHANGED <<usage, Read, Presented>>, TypeOK, TypeOK'
  PROVE  StreamMoves
<1>1. CASE usage.spaced
  <2>1. /\ Pending = fifo \o (Read \o Presented)
        /\ Pending' = fifo' \o (Read \o Presented)
        /\ Read \o Presented \in Seq(Keys)
    <3>1. /\ fifo \in Seq(Keys) /\ fifo' \in Seq(Keys)
          /\ Read \in Seq(Keys) /\ Presented \in Seq(Keys)
      BY PendingType DEF TypeOK
    <3>2. Pending = (fifo \o Read) \o Presented
      BY DEF Pending, Read, Presented
    <3>3. Pending' = (fifo' \o Read) \o Presented
      BY DEF Pending, Read, Presented
    <3>4. /\ (fifo \o Read) \o Presented = fifo \o (Read \o Presented)
          /\ (fifo' \o Read) \o Presented = fifo' \o (Read \o Presented)
      BY <3>1, ConcatAssociative
    <3> QED
      BY <3>1, <3>2, <3>3, <3>4, ConcatProperties
  <2>2. Pending # <<>> /\ got' = Head(Pending) /\ Pending' = Tail(Pending)
    <3> DEFINE after == Read \o Presented
    <3>1. /\ Pending = fifo \o after /\ Pending' = fifo' \o after
          /\ after \in Seq(Keys) /\ fifo \in Seq(Keys)
          /\ fifo # <<>> /\ got' = Head(fifo) /\ fifo' = Tail(fifo)
      BY <2>1 DEF Take, TypeOK
    <3> HIDE DEF after
    <3> QED
      BY <3>1, HeadOfConcat
  <2>3. Stream!Deliver
    BY <1>1, <2>2 DEF Stream!Deliver, Queue, Last
  <2> QED
    BY <2>3 DEF StreamMoves, Stream!Next
<1>2. CASE ~usage.spaced
  BY <1>2 DEF StreamMoves, Queue, Last
<1> QED
  BY <1>1, <1>2

(* The client's steps: only close() forgets a key, the one that is pending. *)
LEMMA ClientMoves == ASSUME ReadInv, ReadInv', Client PROVE StreamMoves
<1> USE DEF ReadInv, TypeInv
<1>1. CASE Open \/ Opened \/ Closed \/ \E v \in BOOLEAN : SetKeyHandler(v)
  <2>1. UNCHANGED <<usage, fifo, got, irq, code, keyIsr>> /\ pc'["key"] = pc["key"]
    BY <1>1 DEF Open, Opened, Closed, SetKeyHandler, Go, TypeOK
  <2> QED
    BY <2>1, NoMove DEF Read, Presented
<1>2. CASE ClientRead
  BY <1>2, TakeMoves DEF ClientRead, Read, Presented
<1>3. CASE Close
  <2>1. UNCHANGED <<usage, fifo, got, code, keyIsr>> /\ pc'["key"] = pc["key"] /\ ~irq'
    BY <1>3 DEF Close, Detach, Go, TypeOK
  <2>2. CASE ~irq
    BY <2>1, <2>2, NoMove DEF Read, Presented
  <2>3. CASE irq /\ usage.spaced
    <3> DEFINE rest == fifo \o Read
    <3>1. pc["key"] # "read"
      BY <1>3, <2>3 DEF ReadsWhole
    <3>2. Pending = rest \o <<code>> /\ Pending' = rest \o <<>>
      BY <2>1, <2>3, <3>1 DEF Pending, Read, Presented
    <3>3. rest \in Seq(Keys) /\ code \in Keys
      BY PendingType, ConcatProperties DEF TypeOK
    <3>4. /\ Len(rest) \in 0 .. Len(Pending)
          /\ Pending' = SubSeq(Pending, 1, Len(rest))
      <4> HIDE DEF rest
      <4>1. /\ rest \o <<>> = rest /\ SubSeq(rest \o <<code>>, 1, Len(rest)) = rest
            /\ Len(rest \o <<code>>) = Len(rest) + 1 /\ Len(rest) \in Nat
        BY <3>3
      <4> QED
        BY <3>2, <4>1
    <3>5. Stream!Forget
      BY <2>1, <2>3, <3>4 DEF Stream!Forget, Queue, Last
    <3> QED
      BY <3>5 DEF StreamMoves, Stream!Next
  <2>4. CASE ~usage.spaced
    BY <2>1, <2>4 DEF StreamMoves, Queue, Last
  <2> QED
    BY <2>2, <2>3, <2>4 DEF TypeOK
<1> QED
  BY <1>1, <1>2, <1>3 DEF Client

(* keyIsr moves a key along without changing it; its handler may read one. *)
LEMMA KeyThreadMoves == ASSUME ReadInv, ReadInv', KeyThread PROVE StreamMoves
<1> USE DEF ReadInv, TypeInv
<1>1. CASE Dispatch
  <2>1. /\ UNCHANGED <<usage, fifo, got, code>>
        /\ irq /\ pc["key"] = "idle" /\ pc'["key"] = "read"
    BY <1>1 DEF Dispatch, Due, Go, TypeOK
  <2> QED
    BY <2>1, NoMove DEF Read, Presented
<1>2. CASE ReadPin
  <2>1. /\ UNCHANGED <<usage, fifo, got, code, irq>>
        /\ pc["key"] = "read" /\ pc'["key"] \in {"read", "push"}
    BY <1>2 DEF ReadPin, Go, TypeOK
  <2>2. CASE pc'["key"] = "read"
    BY <2>1, <2>2, NoMove DEF Read, Presented
  <2>3. CASE pc'["key"] = "push" /\ usage.spaced
    <3>1. keyIsr'.high = code /\ ~irq
      BY <1>2, <2>1, <2>3, PinRead DEF ReadsWhole
    <3>2. Pending = (fifo \o <<>>) \o <<code>> /\ Pending' = (fifo \o <<code>>) \o <<>>
      BY <2>1, <2>3, <3>1 DEF Pending
    <3>3. (fifo \o <<>>) \o <<code>> = (fifo \o <<code>>) \o <<>>
      BY DEF TypeOK
    <3> QED
      BY <2>1, <3>2, <3>3 DEF StreamMoves, Queue, Last
  <2>4. CASE ~usage.spaced
    BY <2>1, <2>4 DEF StreamMoves, Queue, Last
  <2> QED
    BY <2>1, <2>2, <2>3, <2>4 DEF TypeOK, StreamMoves
<1>3. CASE Push
  <2>1. /\ UNCHANGED <<usage, got, code, irq>> /\ fifo' = Append(fifo, keyIsr.high)
        /\ pc["key"] = "push" /\ pc'["key"] = "call"
    BY <1>3 DEF Push, Queued, Go, TypeOK
  <2>2. fifo' \o <<>> = fifo \o <<keyIsr.high>>
    BY <2>1, AppendIsConcat, ConcatEmptySeq DEF TypeOK
  <2>3. Pending' = (fifo' \o <<>>) \o Presented' /\ Pending = (fifo \o <<keyIsr.high>>) \o Presented
    BY <2>1 DEF Pending, Presented
  <2>4. Presented' = Presented
    BY <2>1 DEF Presented
  <2> QED
    BY <2>1, <2>2, <2>3, <2>4 DEF StreamMoves, Queue, Last
<1>4. CASE Call
  <2>1. /\ UNCHANGED <<usage, fifo, got, code, irq, keyIsr>>
        /\ pc["key"] = "call" /\ pc'["key"] \in {"idle", "handler"}
    BY <1>4 DEF Call, Go, TypeOK
  <2> QED
    BY <2>1, NoMove DEF Read, Presented
<1>5. CASE RunHandler
  <2>1. /\ UNCHANGED <<usage, code, irq, keyIsr>>
        /\ pc["key"] = "handler" /\ pc'["key"] = "idle"
    BY <1>5 DEF RunHandler, Go, TypeOK
  <2>2. UNCHANGED <<Read, Presented>>
    BY <2>1 DEF Read, Presented
  <2>3. Take \/ UNCHANGED <<fifo, got>>
    BY <1>5 DEF RunHandler
  <2> QED
    BY <2>1, <2>2, <2>3, TakeMoves, NoMove
<1> QED
  BY <1>1, <1>2, <1>3, <1>4, <1>5 DEF KeyThread

(* The decoder hands a key over when its interrupt is attached. *)
LEMMA PressMoves ==
  ASSUME ReadInv, ReadInv', NEW k \in Keys, Press(k)
  PROVE  StreamMoves
<1> USE DEF ReadInv, TypeInv
<1>1. UNCHANGED <<usage, fifo, got, pc, keyIsr>> /\ code' = k /\ irq' = attached
  BY DEF Press
<1>2. CASE usage.spaced
  <2>1. Presented = <<>> /\ Read' = Read /\ ~irq /\ pc["key"] # "read"
    BY <1>1, <1>2 DEF Press, Presented, Read
  <2>2. CASE attached
    <3>1. Pending' = (fifo \o Read) \o <<k>> /\ Pending = (fifo \o Read) \o <<>>
      BY <1>1, <2>1, <2>2 DEF Pending, Presented, Read
    <3>2. fifo \o Read \in Seq(Keys)
      BY PendingType, ConcatProperties DEF TypeOK
    <3>3. Pending' = Append(Pending, k)
      BY <3>1, <3>2, AppendIsConcat, ConcatEmptySeq
    <3>4. Pending' # <<>> /\ Pending'[Len(Pending')] = k
      BY <3>3, PendingType, AppendProperties
    <3>5. Stream!AcceptItem
      BY <1>1, <1>2, <3>3, <3>4 DEF Stream!AcceptItem, Stream!Accept, Queue, Last
    <3> QED
      BY <3>5 DEF StreamMoves, Stream!Next
  <2>3. CASE ~attached
    <3>1. Presented' = Presented
      BY <1>1, <2>1, <2>3 DEF Presented
    <3> QED
      BY <1>1, <2>1, <3>1, NoMove
  <2> QED
    BY <2>2, <2>3
<1>3. CASE ~usage.spaced
  BY <1>1, <1>3 DEF StreamMoves, Queue, Last
<1> QED
  BY <1>2, <1>3

LEMMA StreamStep == ReadInv /\ ReadInv' /\ [Next]_vars => StreamMoves
<1> SUFFICES ASSUME ReadInv, ReadInv', [Next]_vars PROVE StreamMoves
  OBVIOUS
<1>1. CASE UNCHANGED vars
  BY <1>1 DEF vars, StreamMoves, Queue, Last, Pending
<1> QED
  BY <1>1, ClientMoves, KeyThreadMoves, PressMoves DEF Next

(* As long as a key is read before the next is presented, the application  *)
(* reads the keys of the caller whole, once each and in order, whichever   *)
(* thread calls read(), for any number of keys waiting.                    *)
THEOREM KeysDelivered == Spec => DeliversKeys
<1>1. ReadInv /\ ReadInv' /\ [Next]_vars => [Stream!Next]_<<Queue, Last>>
  BY StreamStep DEF StreamMoves
<1> QED
  BY <1>1, StreamInit, ReadsAlways, PTL DEF Spec, DeliversKeys, Stream!Spec, Queue, Last

=============================================================================
