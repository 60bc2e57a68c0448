------------------------------ MODULE TtsProofs ------------------------------
(***************************************************************************)
(* The speech service, for any talkers, any scripts and texts of any       *)
(* length: its type, the life of the parser thread, that it implements     *)
(* OrderedDelivery, and that the mixing up of texts takes two talkers.     *)
(***************************************************************************)
EXTENDS Tts, SequenceTheorems, TLAPS

(* A talker inside write() or append() is at such a call of its script. *)
WritesCall ==
  \A t \in Talkers : talker[t] = "writing" =>
    /\ calls[t] < Len(Script[t])
    /\ NextCall(t).op \in {"write", "append"}

TypeInv == TypeOK /\ WritesCall

LEMMA CallOfScript ==
  ASSUME TypeOK, NEW t \in Talkers, calls[t] < Len(Script[t])
  PROVE  /\ NextCall(t) \in CallRecord
         /\ NextCall(t).op \in {"write", "append"} => NextCall(t).phrase \in Phrases
<1>1. Script[t] \in Seq(CallRecord) /\ calls[t] \in Nat
  BY TtsAssumption DEF TypeOK
<1>2. calls[t] + 1 \in 1 .. Len(Script[t])
  BY <1>1
<1>3. NextCall(t) \in CallRecord
  BY <1>1, <1>2, ElementOfSeq DEF NextCall
<1> QED
  BY <1>3 DEF CallRecord

(* What write() and append() make of a text is a text. *)
LEMMA ComposedText ==
  ASSUME NEW c, c.phrase \in Phrases, NEW x \in Texts
  PROVE  Composed(c, x) \in Texts /\ <<c.phrase>> \in Texts
BY AppendProperties DEF Composed, Texts

LEMMA TypeInit == Init => TypeInv
<1> SUFFICES ASSUME Init PROVE TypeInv
  OBVIOUS
<1>1. /\ <<>> \in Texts /\ <<>> \in Sounds /\ <<>> \in Seq(Texts) /\ <<>> \in Seq(Sounds)
      /\ Len(<<>>) = 0
  BY DEF Texts, Sounds
<1>2. /\ talker \in [Talkers -> {"idle", "writing", "queueing"}]
      /\ calls \in [Talkers -> Nat] /\ mine \in [Talkers -> Texts]
  BY <1>1 DEF Init
<1>3. TypeOK
  <2>1. /\ {joinable, retrieved, stopped, success, engineOpen} \subseteq BOOLEAN
        /\ client = "idle" /\ parser \in ParserPc
    BY DEF Init, ParserPc
  <2>2. /\ text \in Sounds /\ fifo \in Seq(Sounds) /\ promised \in Seq(Texts)
        /\ accepted \in Seq(Sounds) /\ spoken \in Seq(Sounds)
        /\ current \in Seq(Sounds) /\ Len(current) = 0
    BY <1>1 DEF Init
  <2> QED
    BY <1>2, <2>1, <2>2 DEF TypeOK
<1>4. WritesCall
  BY DEF Init, WritesCall
<1> QED
  BY <1>3, <1>4 DEF TypeInv

LEMMA ClientType == ASSUME TypeInv, Client PROVE TypeInv'
BY DEF Client, Open, Close, Join, TypeInv, TypeOK, WritesCall, NextCall, ParserPc,
       service, talk, speech

LEMMA WriteEndType ==
  ASSUME TypeInv, NEW t \in Talkers, WriteEnd(t)
  PROVE  /\ text' \in Sounds /\ mine' \in [Talkers -> Texts]
         /\ mine' = [mine EXCEPT ![t] = Composed(NextCall(t), @)]
<1>1. NextCall(t).phrase \in Phrases
  BY CallOfScript DEF WriteEnd, TypeInv, WritesCall
<1>2. mine[t] \in Texts /\ (text # Garbled => text \in Texts)
  BY DEF TypeInv, TypeOK, Sounds
<1>3. /\ Composed(NextCall(t), mine[t]) \in Texts
      /\ <<NextCall(t).phrase>> \in Texts
      /\ text # Garbled => Composed(NextCall(t), text) \in Texts
  BY <1>1, <1>2, ComposedText
<1>4. text' \in Sounds
  BY <1>3 DEF WriteEnd, Sounds
<1>5. mine' = [mine EXCEPT ![t] = Composed(NextCall(t), @)]
  BY DEF WriteEnd
<1> QED
  BY <1>3, <1>4, <1>5 DEF TypeInv, TypeOK

LEMMA TalkType == ASSUME TypeInv, Talk PROVE TypeInv'
<1> USE DEF TypeInv, service, speech
<1>1. PICK t \in Talkers :
        WriteBegin(t) \/ WriteEnd(t) \/ SayOpen(t) \/ SayClosed(t) \/ Queue(t)
  BY DEF Talk
<1>2. CASE WriteBegin(t) \/ SayOpen(t)
  <2>1. PICK l \in {"writing", "queueing"} : 
          Begin(t, l) /\ About(t, IF l = "writing" THEN {"write", "append"} ELSE {"say"})
    BY <1>2 DEF WriteBegin, SayOpen
  <2>2. TypeOK'
    BY <2>1 DEF Begin, TypeOK
  <2>3. WritesCall'
    BY <2>1 DEF Begin, About, WritesCall, TypeOK, NextCall
  <2> QED
    BY <2>2, <2>3
<1>3. CASE WriteEnd(t) \/ SayClosed(t) \/ Queue(t)
  <2>1. /\ Return(t) /\ UNCHANGED <<service, speech>>
        /\ text' \in Sounds /\ mine' \in [Talkers -> Texts]
    BY <1>3, WriteEndType DEF WriteEnd, SayClosed, Queue, TypeOK, Return
  <2>2. fifo' \in Seq(Sounds) /\ promised' \in Seq(Texts) /\ accepted' \in Seq(Sounds)
    <3>1. CASE Queue(t)
      <4>1. PICK copy \in {text, Garbled} :
              fifo' = Append(fifo, copy) /\ accepted' = Append(accepted, copy)
        BY <3>1 DEF Queue
      <4>2. copy \in Sounds /\ mine[t] \in Texts
        BY DEF TypeOK, Sounds
      <4> QED
        BY <3>1, <4>1, <4>2, AppendProperties DEF Queue, TypeOK
    <3> QED
      BY <1>3, <3>1 DEF WriteEnd, SayClosed, TypeOK
  <2>3. TypeOK'
    BY <2>1, <2>2 DEF Return, TypeOK
  <2>4. WritesCall'
    BY <2>1 DEF Return, WritesCall, TypeOK, NextCall
  <2> QED
    BY <2>3, <2>4
<1> QED
  BY <1>1, <1>2, <1>3

LEMMA ParserType == ASSUME TypeInv, Parser PROVE TypeInv'
<1> USE DEF TypeInv, TypeOK, WritesCall, NextCall, ParserPc, service, talk, Continue
<1>1. Outcomes \subseteq BOOLEAN
  BY DEF Outcomes
<1>2. CASE OpenEngine \/ Warm
  BY <1>1, <1>2 DEF OpenEngine, Warm
<1>3. CASE Read
  <2>1. Head(fifo) \in Sounds /\ Tail(fifo) \in Seq(Sounds)
    BY <1>3, HeadTailProperties DEF Read
  <2> QED
    BY <1>3, <2>1 DEF Read, Take
<1>4. CASE Speak
  <2>1. spoken \o current \in Seq(Sounds)
    BY ConcatProperties
  <2> QED
    BY <1>1, <1>4, <2>1 DEF Speak
<1>5. CASE ReadTimeout \/ Poll \/ CloseEngine
  BY <1>5 DEF ReadTimeout, AfterTimeout, Poll, CloseEngine
<1> QED
  BY <1>2, <1>3, <1>4, <1>5 DEF Parser

LEMMA NextType == TypeInv /\ [Next]_vars => TypeInv'
<1> SUFFICES ASSUME TypeInv, [Next]_vars PROVE TypeInv'
  OBVIOUS
<1>1. CASE UNCHANGED vars
  BY <1>1 DEF vars, service, talk, speech, TypeInv, TypeOK, WritesCall, NextCall
<1> QED
  BY <1>1, ClientType, TalkType, ParserType DEF Next

(* A text is a sequence of the phrases composed or what a race has made of *)
(* one, the parser holds at most one of them, and every other variable has *)
(* its type.                                                               *)
THEOREM TtsTypes == Spec => []TypeOK
<1>1. Spec => []TypeInv
  BY TypeInit, NextType, PTL DEF Spec
<1> QED
  BY <1>1, PTL DEF TypeInv

-----------------------------------------------------------------------------
(* The life of the parser thread: the future is taken when it starts,      *)
(* which happens once; it ends with the engine closed, before close()      *)
(* returns; and it holds a text only while it speaks.                      *)
ParserInv ==
  /\ retrieved <=> parser # "none"
  /\ ~joinable => parser \in {"none", "done"}
  /\ client = "joining" => joinable
  /\ parser \in {"none", "open", "done"} => ~engineOpen
  /\ parser \in {"warm", "read", "speak", "poll"} => engineOpen
  /\ parser = "speak" => current # <<>>
  /\ parser # "speak" => current = <<>>

LEMMA ParserStep == TypeOK /\ ParserInv /\ [Next]_vars => ParserInv'
<1> SUFFICES ASSUME TypeOK, ParserInv, [Next]_vars PROVE ParserInv'
  OBVIOUS
<1> USE DEF ParserInv, service, talk, speech
<1>1. CASE Client
  BY <1>1 DEF Client, Open, Close, Join, ParserEnded, TypeOK
<1>2. CASE Talk
  BY <1>2
  DEF Talk, WriteBegin, SayOpen, Begin, WriteEnd, SayClosed, Queue, Return
<1>3. CASE OpenEngine \/ Warm \/ ReadTimeout \/ Poll \/ CloseEngine
  BY <1>3
  DEF OpenEngine, Warm, ReadTimeout, AfterTimeout, Poll, CloseEngine, Continue, TypeOK
<1>4. CASE Read
  BY <1>4 DEF Read, Take
<1>5. CASE Speak
  BY <1>5 DEF Speak, Continue, TypeOK
<1>6. CASE UNCHANGED vars
  BY <1>6 DEF vars
<1> QED
  BY <1>1, <1>2, <1>3, <1>4, <1>5, <1>6 DEF Next, Parser

LEMMA ParserAlways == Spec => [](TypeOK /\ ParserInv)
<1>1. Init => ParserInv
  BY DEF Init, ParserInv
<1> QED
  BY <1>1, ParserStep, TtsTypes, PTL DEF Spec

(* Once close() has returned, whatever the engine answered, the parser is  *)
(* gone and the engine closed.                                             *)
THEOREM ParserGone == Spec => []ParserGoneWhenClosed
<1>1. ParserInv => ParserGoneWhenClosed
  BY DEF ParserInv, ParserGoneWhenClosed
<1> QED
  BY <1>1, ParserAlways, PTL

-----------------------------------------------------------------------------
(* The service as a stage of the voice server.                             *)

SpeechMoves == Speech!Next \/ UNCHANGED <<Unspoken, LastSpoken>>

LEMMA SpeechInit == Init => Speech!Init
BY DEF Init, Speech!Init, Unspoken, LastSpoken

(* Whenever the parser gives the queue up, all of it is forgotten.         *)
LEMMA GivesUp ==
  ASSUME TypeOK, UNCHANGED spoken, parser' \in {"close", "done"}
  PROVE  SpeechMoves
<1>1. Unspoken' = <<>> /\ LastSpoken' = LastSpoken
  BY DEF Unspoken, LastSpoken
<1>2. Unspoken \in Seq(Sounds)
  BY ConcatProperties DEF Unspoken, TypeOK
<1>3. 0 \in 0 .. Len(Unspoken) /\ SubSeq(Unspoken, 1, 0) = <<>>
  BY <1>2, SubSeqEmpty, LenProperties
<1>4. Speech!Forget
  BY <1>1, <1>3 DEF Speech!Forget
<1> QED
  BY <1>4 DEF SpeechMoves, Speech!Next

(* A step that leaves alone what is on its way to the engine.              *)
LEMMA SpeechStays ==
  ASSUME UNCHANGED <<fifo, current, spoken>>,
         parser \in {"close", "done"} <=> parser' \in {"close", "done"}
  PROVE  SpeechMoves
BY DEF SpeechMoves, Unspoken, LastSpoken

(* say() hands a text over, if the parser still serves the queue.          *)
LEMMA QueueMoves ==
  ASSUME TypeOK, TypeOK', NEW t \in Talkers, Queue(t)
  PROVE  SpeechMoves
<1>1. UNCHANGED <<parser, current, spoken>>
  BY DEF Queue, Return, speech
<1>2. PICK copy : fifo' = Append(fifo, copy) /\ copy \in Sounds
  BY DEF Queue, TypeOK, Sounds
<1>3. CASE parser \notin {"close", "done"}
  <2>1. Unspoken = current \o fifo /\ Unspoken' = current \o Append(fifo, copy)
    BY <1>1, <1>2, <1>3 DEF Unspoken
  <2>2. /\ current \o Append(fifo, copy) = Append(current \o fifo, copy)
        /\ current \o fifo \in Seq(Sounds)
    <3>1. fifo \in Seq(Sounds) /\ current \in Seq(Sounds) /\ <<copy>> \in Seq(Sounds)
      BY <1>2 DEF TypeOK
    <3>2. current \o fifo \in Seq(Sounds)
      BY <3>1, ConcatProperties
    <3>3. /\ Append(fifo, copy) = fifo \o <<copy>>
          /\ Append(current \o fifo, copy) = (current \o fifo) \o <<copy>>
      BY <1>2, <3>1, <3>2, AppendIsConcat
    <3>4. (current \o fifo) \o <<copy>> = current \o (fifo \o <<copy>>)
      BY <3>1, ConcatAssociative
    <3> QED
      BY <3>2, <3>3, <3>4
  <2>3. Unspoken' = Append(Unspoken, copy) /\ Unspoken \in Seq(Sounds)
    BY <2>1, <2>2
  <2>4. Unspoken' # <<>> /\ Unspoken'[Len(Unspoken')] = copy
    BY <1>2, <2>3, AppendProperties
  <2>5. Speech!AcceptItem
    BY <1>1, <1>2, <2>3, <2>4 DEF Speech!AcceptItem, Speech!Accept, LastSpoken
  <2> QED
    BY <2>5 DEF SpeechMoves, Speech!Next
<1>4. CASE parser \in {"close", "done"}
  BY <1>1, <1>4 DEF SpeechMoves, Unspoken, LastSpoken
<1> QED
  BY <1>3, <1>4

LEMMA TalkMoves == ASSUME TypeOK, TypeOK', Talk PROVE SpeechMoves
<1>1. PICK t \in Talkers :
        WriteBegin(t) \/ WriteEnd(t) \/ SayOpen(t) \/ SayClosed(t) \/ Queue(t)
  BY DEF Talk
<1>2. CASE WriteBegin(t) \/ SayOpen(t) \/ WriteEnd(t) \/ SayClosed(t)
  BY <1>2, SpeechStays
  DEF WriteBegin, SayOpen, WriteEnd, SayClosed, Begin, Return, speech
<1> QED
  BY <1>1, <1>2, QueueMoves

(* open() starts a parser only where none has been. *)
LEMMA ClientMoves == ASSUME TypeOK, ParserInv, Client PROVE SpeechMoves
<1>1. CASE Open
  BY <1>1, SpeechStays DEF Open, ParserInv
<1>2. CASE Close \/ Join
  BY <1>2, SpeechStays DEF Close, Join, speech
<1> QED
  BY <1>1, <1>2 DEF Client

LEMMA ParserMoves ==
  ASSUME TypeOK, TypeOK', ParserInv, ParserInv', Parser
  PROVE  SpeechMoves
<1>1. CASE OpenEngine \/ Warm \/ ReadTimeout \/ Poll \/ CloseEngine
  <2>1. UNCHANGED <<fifo, current, spoken>> /\ parser # "done"
    BY <1>1 DEF OpenEngine, Warm, ReadTimeout, Poll, CloseEngine
  <2>2. parser = "close" => parser' = "done"
    BY <1>1 DEF OpenEngine, Warm, ReadTimeout, Poll, CloseEngine
  <2> QED
    BY <2>1, <2>2, GivesUp, SpeechStays
<1>2. CASE Read
  <2>1. /\ parser = "read" /\ parser' = "speak" /\ UNCHANGED spoken
        /\ current = <<>> /\ current' = <<Head(fifo)>>
        /\ fifo # <<>> /\ fifo' = Tail(fifo)
    BY <1>2 DEF Read, Take, ParserInv
  <2>2. Unspoken = <<>> \o fifo /\ Unspoken' = <<Head(fifo)>> \o Tail(fifo)
    BY <2>1 DEF Unspoken
  <2>3. <<>> \o fifo = fifo /\ <<Head(fifo)>> \o Tail(fifo) = fifo
    BY <2>1 DEF TypeOK
  <2> QED
    BY <2>1, <2>2, <2>3 DEF SpeechMoves, LastSpoken
<1>3. CASE Speak
  <2>1. /\ parser = "speak" /\ engineOpen /\ UNCHANGED fifo /\ current' = <<>>
        /\ success' \in BOOLEAN
        /\ spoken' = IF success' THEN spoken \o current ELSE spoken
        /\ parser' = Continue(success', TRUE)
    BY <1>3 DEF Speak, ParserInv, TypeOK
  <2>2. CASE ~success'
    BY <2>1, <2>2, GivesUp DEF Continue
  <2>3. CASE success'
    <3>1. PICK x \in Sounds : current = <<x>>
      <4>1. current \in Seq(Sounds) /\ Len(current) = 1
        <5>1. current \in Seq(Sounds) /\ Len(current) <= 1 /\ current # <<>>
          BY <2>1 DEF TypeOK, ParserInv
        <5> QED
          BY <5>1, EmptySeq
      <4>2. current[1] \in Sounds
        BY <4>1
      <4>3. current = <<current[1]>>
        BY <4>1
      <4> QED
        BY <4>2, <4>3
    <3>2. Unspoken = <<x>> \o fifo /\ Unspoken' = <<>> \o fifo
      BY <2>1, <2>3, <3>1 DEF Unspoken, Continue
    <3>3. /\ <<x>> \o fifo # <<>> /\ Head(<<x>> \o fifo) = x
          /\ Tail(<<x>> \o fifo) = <<>> \o fifo
      BY DEF TypeOK
    <3>4. LastSpoken' = x
      <4>1. spoken' = spoken \o <<x>> /\ spoken \in Seq(Sounds)
        BY <2>1, <2>3, <3>1 DEF TypeOK
      <4>2. spoken' = Append(spoken, x)
        BY <4>1, AppendIsConcat
      <4> QED
        BY <4>1, <4>2, AppendProperties DEF LastSpoken
    <3>5. Speech!Deliver
      BY <3>2, <3>3, <3>4 DEF Speech!Deliver
    <3> QED
      BY <3>5 DEF SpeechMoves, Speech!Next
  <2> QED
    BY <2>1, <2>2, <2>3
<1> QED
  BY <1>1, <1>2, <1>3 DEF Parser

LEMMA SpeechStep ==
  TypeOK /\ TypeOK' /\ ParserInv /\ ParserInv' /\ [Next]_vars => SpeechMoves
<1> SUFFICES ASSUME TypeOK, TypeOK', ParserInv, ParserInv', [Next]_vars
             PROVE  SpeechMoves
  OBVIOUS
<1>1. CASE UNCHANGED vars
  BY <1>1, SpeechStays DEF vars, speech
<1> QED
  BY <1>1, ClientMoves, TalkMoves, ParserMoves DEF Next

(* Whatever the engine answers, texts are spoken once each, in the order   *)
(* say() queued them, until the parser gives up; it then forgets the rest. *)
THEOREM TextsDelivered == Spec => DeliversTexts
<1>1. TypeOK /\ TypeOK' /\ ParserInv /\ ParserInv' /\ [Next]_vars
        => [Speech!Next]_<<Unspoken, LastSpoken>>
  BY SpeechStep DEF SpeechMoves
<1> QED
  BY <1>1, SpeechInit, ParserAlways, PTL DEF Spec, DeliversTexts, Speech!Spec

-----------------------------------------------------------------------------
(* The service as a user of the engine.                                    *)

Engine == INSTANCE EngineService
            WITH open <- engineOpen, success <- success, wrapped <- FALSE

(* The parser takes no answer from the engine that the engine does not     *)
(* give, and the engine opens and closes in the parser's own calls only:   *)
(* what Engine is shown to promise is all that is assumed of it here.      *)
THEOREM EngineUsed == Spec => Engine!Spec
<1>1. Init => Engine!Init
  BY DEF Init, Engine!Init
<1>2. TypeOK /\ ParserInv /\ [Next]_vars => [Engine!Next]_<<engineOpen, success>>
  <2> SUFFICES ASSUME TypeOK, ParserInv, [Next]_vars
               PROVE  Engine!Next \/ UNCHANGED <<engineOpen, success>>
    OBVIOUS
  <2> USE DEF speech, Engine!Next
  <2>1. Outcomes \subseteq BOOLEAN
    BY DEF Outcomes
  <2>2. CASE Client \/ Talk
    BY <2>2
    DEF Client, Open, Close, Join, Talk, WriteBegin, SayOpen, Begin, WriteEnd, SayClosed,
        Queue, Return
  <2>3. CASE OpenEngine
    BY <2>1, <2>3 DEF OpenEngine, ParserInv, Engine!Open
  <2>4. CASE Warm \/ Speak
    BY <2>1, <2>4 DEF Warm, Speak, ParserInv, Engine!Play
  <2>5. CASE CloseEngine
    BY <2>5 DEF CloseEngine, Engine!Close, TypeOK
  <2>6. CASE Read \/ ReadTimeout \/ Poll
    BY <2>6 DEF Read, ReadTimeout, Poll
  <2>7. CASE UNCHANGED vars
    BY <2>7 DEF vars
  <2> QED
    BY <2>2, <2>3, <2>4, <2>5, <2>6, <2>7 DEF Next, Parser
<1> QED
  BY <1>1, <1>2, ParserAlways, PTL DEF Spec, Engine!Spec

-----------------------------------------------------------------------------
(* What is left for the parser to do once it has been told to stop.        *)

(* Each text still queued costs it a Warm, a Read and a Speak. *)
Serving  == parser \in {"open", "warm", "read", "speak"}
OwnSteps ==
  [none |-> 0, open |-> 6, warm |-> 4, read |-> 3, speak |-> 5, poll |-> 2,
   close |-> 1, done |-> 0][parser]
StepsLeft == OwnSteps + (IF Serving THEN 3 * Len(fifo) ELSE 0)

NearerToEnd ==
  [][stopped => /\ Parser => StepsLeft' < StepsLeft
                /\ ~Parser /\ fifo' = fifo => StepsLeft' = StepsLeft
                /\ ~Parser => StepsLeft' <= StepsLeft + 3]_vars

LEMMA StepsLeftNat == ASSUME TypeOK PROVE StepsLeft \in Nat
<1>1. Len(fifo) \in Nat
  BY LenProperties DEF TypeOK
<1> QED
  BY <1>1 DEF TypeOK, ParserPc, StepsLeft, OwnSteps, Serving

(* The service is closed only where it has been opened. *)
OpenedOnce == joinable \/ stopped => retrieved

LEMMA OpenedStep == TypeOK /\ OpenedOnce /\ [Next]_vars => OpenedOnce'
<1> SUFFICES ASSUME TypeOK, OpenedOnce, [Next]_vars PROVE OpenedOnce'
  OBVIOUS
<1> USE DEF OpenedOnce, service, talk, speech
<1>1. CASE Client
  BY <1>1 DEF Client, Open, Close, Join, TypeOK
<1>2. CASE Talk
  BY <1>2 DEF Talk, WriteBegin, SayOpen, Begin, WriteEnd, SayClosed, Queue, Return
<1>3. CASE Parser
  BY <1>3 DEF Parser, OpenEngine, Warm, Read, ReadTimeout, Speak, Poll, CloseEngine
<1>4. CASE UNCHANGED vars
  BY <1>4 DEF vars
<1> QED
  BY <1>1, <1>2, <1>3, <1>4 DEF Next

LEMMA ParserNearer ==
  ASSUME TypeOK, TypeOK', stopped, Parser
  PROVE  StepsLeft' < StepsLeft
<1>1. Len(fifo) \in Nat
  BY LenProperties DEF TypeOK
<1> USE DEF StepsLeft, OwnSteps, Serving, Continue
<1>2. CASE OpenEngine
  BY <1>1, <1>2 DEF OpenEngine
<1>3. CASE Warm
  BY <1>1, <1>3 DEF Warm
<1>4. CASE Read
  <2>1. Len(fifo') = Len(fifo) - 1
    BY <1>4, HeadTailProperties DEF Read, Take, TypeOK
  <2> QED
    BY <1>1, <1>4, <2>1 DEF Read
<1>5. CASE ReadTimeout
  BY <1>1, <1>5 DEF ReadTimeout, AfterTimeout
<1>6. CASE Speak
  BY <1>1, <1>6 DEF Speak
<1>7. CASE Poll
  BY <1>1, <1>7 DEF Poll, MustStop
<1>8. CASE CloseEngine
  BY <1>1, <1>8 DEF CloseEngine
<1> QED
  BY <1>2, <1>3, <1>4, <1>5, <1>6, <1>7, <1>8 DEF Parser

LEMMA OthersAddOneText ==
  ASSUME TypeOK, stopped, retrieved, Client \/ Talk
  PROVE  /\ UNCHANGED parser
         /\ fifo' = fifo \/ Len(fifo') = Len(fifo) + 1
<1> USE DEF service, talk, speech
<1>1. CASE Client
  BY <1>1 DEF Client, Open, Close, Join
<1>2. CASE Talk
  <2>1. PICK t \in Talkers :
          WriteBegin(t) \/ WriteEnd(t) \/ SayOpen(t) \/ SayClosed(t) \/ Queue(t)
    BY <1>2 DEF Talk
  <2>2. CASE Queue(t)
    <3>1. PICK copy \in {text, Garbled} : fifo' = Append(fifo, copy)
      BY <2>2 DEF Queue
    <3>2. Len(fifo') = Len(fifo) + 1
      BY <3>1, AppendProperties DEF TypeOK, Sounds
    <3> QED
      BY <2>2, <3>2 DEF Queue, Return
  <2>3. CASE WriteBegin(t) \/ WriteEnd(t) \/ SayOpen(t) \/ SayClosed(t)
    BY <2>3 DEF WriteBegin, SayOpen, Begin, WriteEnd, SayClosed, Return
  <2> QED
    BY <2>1, <2>2, <2>3
<1> QED
  BY <1>1, <1>2

(* Why close() returns: once the stop flag is set every step of the        *)
(* parser, whether the engine succeeds or fails and however many texts are *)
(* queued, brings it nearer to its end; nothing starts it again, and only  *)
(* another text queued, one at a time, can set it back, by three.         *)
THEOREM ParserRunsDown == Spec => NearerToEnd
<1>1. Init => OpenedOnce
  BY DEF Init, OpenedOnce
<1>2. Spec => [](TypeOK /\ OpenedOnce)
  BY <1>1, OpenedStep, TtsTypes, PTL DEF Spec
<1>3. TypeOK /\ TypeOK' /\ OpenedOnce /\ [Next]_vars =>
        (stopped => /\ Parser => StepsLeft' < StepsLeft
                    /\ ~Parser /\ fifo' = fifo => StepsLeft' = StepsLeft
                    /\ ~Parser => StepsLeft' <= StepsLeft + 3) \/ UNCHANGED vars
  <2> SUFFICES ASSUME TypeOK, TypeOK', OpenedOnce, stopped, Next
               PROVE  /\ Parser => StepsLeft' < StepsLeft
                      /\ ~Parser /\ fifo' = fifo => StepsLeft' = StepsLeft
                      /\ ~Parser => StepsLeft' <= StepsLeft + 3
    OBVIOUS
  <2>1. Parser => StepsLeft' < StepsLeft
    BY ParserNearer
  <2>2. ~Parser => /\ UNCHANGED parser
                   /\ fifo' = fifo \/ Len(fifo') = Len(fifo) + 1
    BY OthersAddOneText DEF Next, OpenedOnce
  <2>3. Len(fifo) \in Nat /\ StepsLeft \in Nat
    BY LenProperties, StepsLeftNat DEF TypeOK
  <2>4. ~Parser /\ fifo' = fifo => StepsLeft' = StepsLeft
    BY <2>2 DEF StepsLeft, OwnSteps, Serving
  <2>5. ~Parser /\ Len(fifo') = Len(fifo) + 1 => StepsLeft' <= StepsLeft + 3
    <3>1. OwnSteps \in Nat
      BY DEF OwnSteps, TypeOK, ParserPc
    <3>2. ~Parser => OwnSteps' = OwnSteps /\ Serving' = Serving
      BY <2>2 DEF OwnSteps, Serving
    <3> QED
      BY <2>3, <3>1, <3>2 DEF StepsLeft
  <2>6. StepsLeft <= StepsLeft + 3
    BY <2>3
  <2> QED
    BY <2>1, <2>2, <2>4, <2>5, <2>6
<1> QED
  BY <1>2, <1>3, PTL DEF Spec, NearerToEnd

-----------------------------------------------------------------------------
(* The texts of one talker.                                                *)

OneTalker == \A t, u \in Talkers : t = u

(* What is in Tts::Private::text is what the talker composed.              *)
OwnText == accepted = promised /\ \A t \in Talkers : text = mine[t]

LEMMA OwnTextStep ==
  ASSUME OneTalker
  PROVE  TypeInv /\ OwnText /\ [Next]_vars => OwnText'
<1> SUFFICES ASSUME TypeInv, OwnText, [Next]_vars PROVE OwnText'
  OBVIOUS
<1> USE DEF OwnText, service, talk, speech
<1>1. CASE Client
  BY <1>1 DEF Client, Open, Close, Join
<1>2. CASE Talk
  <2>1. PICK t \in Talkers :
          WriteBegin(t) \/ WriteEnd(t) \/ SayOpen(t) \/ SayClosed(t) \/ Queue(t)
    BY <1>2 DEF Talk
  <2>2. ~Writing(t) /\ text = mine[t] /\ text # Garbled
    BY TtsAssumption DEF OneTalker, Writing, TypeInv, TypeOK
  <2>3. CASE WriteBegin(t) \/ SayOpen(t) \/ SayClosed(t)
    BY <2>3 DEF WriteBegin, SayOpen, SayClosed, Begin
  <2>4. CASE WriteEnd(t)
    BY <2>2, <2>4 DEF WriteEnd, OneTalker, TypeInv, TypeOK
  <2>5. CASE Queue(t)
    BY <2>2, <2>5 DEF Queue
  <2> QED
    BY <2>1, <2>3, <2>4, <2>5
<1>3. CASE Parser
  BY <1>3 DEF Parser, OpenEngine, Warm, Read, ReadTimeout, Speak, Poll, CloseEngine
<1>4. CASE UNCHANGED vars
  BY <1>4 DEF vars
<1> QED
  BY <1>1, <1>2, <1>3, <1>4 DEF Next

(* With one talker, as in tts-demo, every text queued is the one composed: *)
(* the exchange of texts that piphons-demo shows takes two.                *)
THEOREM OneTalkerSaysOwnText == ASSUME OneTalker PROVE Spec => []SaysOwnText
<1>1. Init => OwnText
  BY DEF Init, OwnText
<1>2. OwnText => SaysOwnText
  BY DEF OwnText, SaysOwnText
<1>3. TypeInv /\ OwnText /\ [Next]_vars => OwnText'
  BY OwnTextStep
<1>4. Spec => []TypeInv
  BY TypeInit, NextType, PTL DEF Spec
<1> QED
  BY <1>1, <1>2, <1>3, <1>4, PTL DEF Spec

=============================================================================
