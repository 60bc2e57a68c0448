-------------------------------- MODULE Tts --------------------------------
(***************************************************************************)
(* The speech service, class Piphons::Tts (src/tts.cpp).                   *)
(*                                                                         *)
(* One client opens and closes the service, which starts and joins the     *)
(* parser thread; talkers (the client itself, the interrupt threads that   *)
(* run user handlers) compose a text in Tts::Private::text with write()    *)
(* and append() and queue a copy of it with say().  The parser takes texts *)
(* from the queue and has the engine speak them.                           *)
(*                                                                         *)
(* Nothing protects the field text.  When an assignment overlaps another   *)
(* one or a copy there is a data race: the string may then be anything,    *)
(* which the value Garbled stands for, or by luck what it should be.       *)
(*                                                                         *)
(* A definition whose comment begins with "Mistake:" is used by no action: *)
(* it is the one after it as a plausible bug would make it.                *)
(***************************************************************************)
EXTENDS Naturals, Sequences

CONSTANTS
  Talkers,    (* the threads that call write(), append() and say()        *)
  Own,        (* those of them that are the client                        *)
  Script,     (* Script[t] is the sequence of calls talker t makes        *)
  Phrases,    (* arguments of write() and append()                        *)
  Bugfix,     (* built with PIPHONS_SUN8I_CODEC_ANALOG_BUGFIX?            *)
  MayFail,    (* may the engine fail?                                     *)
  Garbled,    (* what a text becomes in a data race                       *)
  Silence     (* nothing has been spoken yet                              *)

(* say(text) is write(text) followed by say(). *)
CallRecord == [op : {"write", "append"}, phrase : Phrases] \cup [op : {"say"}]

Texts  == Seq(Phrases)
Sounds == Texts \cup {Garbled}

ASSUME TtsAssumption ==
  /\ Own \subseteq Talkers
  /\ \A t \in Talkers : Script[t] \in Seq(CallRecord)
  /\ Bugfix \in BOOLEAN
  /\ MayFail \in BOOLEAN
  /\ Garbled \notin Texts /\ Silence \notin Sounds

VARIABLES
  text, fifo,   (* fields of Tts::Private                                 *)
  joinable,     (* of parseThread: what isOpen() returns                  *)
  retrieved,    (* has the future of the promise stopParsing been taken?  *)
  stopped,      (* has its value been set?                                *)
  client,       (* where the thread that opens and closes is              *)
  talker,       (* where each talker is                                   *)
  calls,        (* how many calls of its script each talker has finished  *)
  mine,         (* what each talker composed with write() and append()    *)
  promised,     (* for each text queued, what its talker had composed     *)
  accepted,     (* what say() queued for it                               *)
  parser,       (* where the parser is                                    *)
  current,      (* the text in its hands, if any                          *)
  success,      (* its local success                                      *)
  engineOpen,
  spoken        (* what has been spoken                                   *)

service == <<joinable, retrieved, stopped, client>>
talk    == <<text, talker, calls, mine, promised, accepted>>
speech  == <<parser, current, success, engineOpen, spoken>>
vars    == <<fifo, service, talk, speech>>

Init ==
  /\ text = <<>>
  /\ fifo = <<>>
  /\ joinable = FALSE
  /\ retrieved = FALSE
  /\ stopped = FALSE
  /\ client = "idle"
  /\ talker = [t \in Talkers |-> "idle"]
  /\ calls = [t \in Talkers |-> 0]
  /\ mine = [t \in Talkers |-> <<>>]
  /\ promised = <<>>
  /\ accepted = <<>>
  /\ parser = "none"
  /\ current = <<>>
  /\ success = FALSE
  /\ engineOpen = FALSE
  /\ spoken = <<>>

-----------------------------------------------------------------------------
(* open() and close()                                                       *)

(* The client is not inside a call. *)
Free == client = "idle" /\ \A t \in Own : talker[t] = "idle"

Open ==
  /\ Free
  /\ ~joinable
  /\ IF retrieved
       THEN client' = "thrown" /\ UNCHANGED <<joinable, retrieved, parser>>
       ELSE /\ retrieved' = TRUE
            /\ joinable' = TRUE
            /\ parser' = "open"
            /\ UNCHANGED client
  /\ UNCHANGED <<fifo, stopped, talk, current, success, engineOpen, spoken>>

Close ==
  /\ Free
  /\ joinable
  /\ stopped' = TRUE
  /\ client' = "joining"
  /\ UNCHANGED <<fifo, joinable, retrieved, talk, speech>>

(* Mistake: the parser is not waited for. *)
NotAwaited == TRUE
ParserEnded == parser = "done"

Join ==
  /\ client = "joining"
  /\ ParserEnded
  /\ joinable' = FALSE
  /\ client' = "idle"
  /\ UNCHANGED <<fifo, retrieved, stopped, talk, speech>>

-----------------------------------------------------------------------------
(* write(), append() and say()                                              *)

Writing(t) == \E u \in Talkers \ {t} : talker[u] = "writing"

NextCall(t) == Script[t][calls[t] + 1]

(* Talker t is about to make a call of one of the operations in ops. *)
About(t, ops) ==
  /\ talker[t] = "idle"
  /\ t \in Own => client = "idle"
  /\ calls[t] < Len(Script[t])
  /\ NextCall(t).op \in ops

Begin(t, l) ==
  /\ talker' = [talker EXCEPT ![t] = l]
  /\ UNCHANGED <<fifo, service, text, calls, mine, promised, accepted, speech>>

Return(t) ==
  /\ talker' = [talker EXCEPT ![t] = "idle"]
  /\ calls' = [calls EXCEPT ![t] = @ + 1]
  /\ UNCHANGED <<service, speech>>

WriteBegin(t) == About(t, {"write", "append"}) /\ Begin(t, "writing")

(* The string x after write() or append(). *)
Composed(c, x) == IF c.op = "write" THEN <<c.phrase>> ELSE Append(x, c.phrase)

(* A string that a race has spoilt may stay so. *)
WriteEnd(t) ==
  /\ talker[t] = "writing"
  /\ \/ text # Garbled /\ text' = Composed(NextCall(t), text)
     \/ text = Garbled /\ NextCall(t).op = "write" /\ text' = <<NextCall(t).phrase>>
     \/ (Writing(t) \/ text = Garbled) /\ text' = Garbled
  /\ mine' = [mine EXCEPT ![t] = Composed(NextCall(t), @)]
  /\ Return(t)
  /\ UNCHANGED <<fifo, promised, accepted>>

(* say() looks at isOpen() before it queues the text. *)
SayOpen(t) == joinable /\ About(t, {"say"}) /\ Begin(t, "queueing")

SayClosed(t) ==
  /\ ~joinable
  /\ About(t, {"say"})
  /\ Return(t)
  /\ UNCHANGED <<fifo, text, mine, promised, accepted>>

Queue(t) ==
  /\ talker[t] = "queueing"
  /\ \E copy \in {text} \cup (IF Writing(t) THEN {Garbled} ELSE {}) :
       /\ fifo' = Append(fifo, copy)
       /\ accepted' = Append(accepted, copy)
  /\ promised' = Append(promised, mine[t])
  /\ Return(t)
  /\ UNCHANGED <<text, mine>>

-----------------------------------------------------------------------------
(* The parser thread.                                                       *)

Outcomes == IF MayFail THEN BOOLEAN ELSE {TRUE}

(* The next iteration of its loop, if there is one. *)
Continue(ok, open) == IF ok /\ open THEN (IF Bugfix THEN "warm" ELSE "read") ELSE "close"

OpenEngine ==
  /\ parser = "open"
  /\ \E ok \in Outcomes :
       /\ success' = ok
       /\ engineOpen' = ok
       /\ parser' = Continue(ok, ok)
  /\ UNCHANGED <<fifo, service, talk, current, spoken>>

(* The driver swallows the first 700 ms after a pause: an empty text is    *)
(* played for it.                                                          *)
Warm ==
  /\ parser = "warm"
  /\ success' \in Outcomes
  /\ parser' = IF success' THEN "read" ELSE "poll"
  /\ UNCHANGED <<fifo, service, talk, current, engineOpen, spoken>>

(* Mistake: the newest text is spoken first. *)
TakeNewest ==
  current' = <<fifo[Len(fifo)]>> /\ fifo' = SubSeq(fifo, 1, Len(fifo) - 1)

(* Mistake: all that is queued is taken at once. *)
TakeAll == current' = fifo /\ fifo' = <<>>

Take == current' = <<Head(fifo)>> /\ fifo' = Tail(fifo)

Read ==
  /\ parser = "read"
  /\ fifo # <<>>
  /\ Take
  /\ parser' = "speak"
  /\ UNCHANGED <<service, talk, success, engineOpen, spoken>>

(* Mistake: the parser ends when there is nothing to say. *)
EndWhenIdle == "close"
AfterTimeout == "poll"

ReadTimeout ==
  /\ parser = "read"
  /\ fifo = <<>>
  /\ parser' = AfterTimeout
  /\ UNCHANGED <<fifo, service, talk, current, success, engineOpen, spoken>>

Speak ==
  /\ parser = "speak"
  /\ \E ok \in Outcomes :
       /\ success' = ok
       /\ spoken' = IF ok THEN spoken \o current ELSE spoken
       /\ parser' = Continue(ok, engineOpen)
  /\ current' = <<>>
  /\ UNCHANGED <<fifo, service, talk, engineOpen>>

(* Mistake: the promise is not looked at. *)
NeverStops == FALSE
MustStop == stopped

Poll ==
  /\ parser = "poll"
  /\ parser' = IF MustStop THEN "close" ELSE Continue(success, engineOpen)
  /\ UNCHANGED <<fifo, service, talk, current, success, engineOpen, spoken>>

CloseEngine ==
  /\ parser = "close"
  /\ engineOpen' = FALSE
  /\ parser' = "done"
  /\ UNCHANGED <<fifo, service, talk, current, success, spoken>>

-----------------------------------------------------------------------------
Client == Open \/ Close \/ Join
Talk   == \E t \in Talkers :
            WriteBegin(t) \/ WriteEnd(t) \/ SayOpen(t) \/ SayClosed(t) \/ Queue(t)
Parser == \/ OpenEngine \/ Warm \/ Read \/ ReadTimeout \/ Speak \/ Poll \/ CloseEngine

Next == Client \/ Talk \/ Parser

Spec == Init /\ [][Next]_vars

(* The parser thread runs, and close() returns once it can be joined. *)
Fairness == WF_vars(Parser) /\ WF_vars(Join)
FairSpec == Spec /\ Fairness

-----------------------------------------------------------------------------
ParserPc == {"none", "open", "warm", "read", "speak", "poll", "close", "done"}

TypeOK ==
  /\ text \in Sounds
  /\ fifo \in Seq(Sounds)
  /\ {joinable, retrieved, stopped, success, engineOpen} \subseteq BOOLEAN
  /\ client \in {"idle", "joining", "thrown"}
  /\ talker \in [Talkers -> {"idle", "writing", "queueing"}]
  /\ calls \in [Talkers -> Nat]
  /\ mine \in [Talkers -> Texts]
  /\ promised \in Seq(Texts) /\ accepted \in Seq(Sounds)
  /\ parser \in ParserPc
  /\ current \in Seq(Sounds) /\ Len(current) <= 1
  /\ spoken \in Seq(Sounds)

(* Once close() has returned the parser is gone and has closed the engine, *)
(* so that the destructor of Tts does not meet a running thread.           *)
ParserGoneWhenClosed ==
  ~joinable => parser \in {"none", "done"} /\ ~engineOpen

(* What is queued and not spoken, as long as the parser serves the queue. *)
Unspoken == IF parser \in {"close", "done"} THEN <<>> ELSE current \o fifo
LastSpoken == IF spoken = <<>> THEN Silence ELSE spoken[Len(spoken)]

Speech == INSTANCE OrderedDelivery
            WITH Item <- Sounds, Nothing <- Silence,
                 queue <- Unspoken, last <- LastSpoken

(* Texts are spoken once each, in the order say() queued them, until the   *)
(* engine fails or the parser stops; it then forgets what is left.         *)
DeliversTexts == Speech!Spec

(* What say() queues is what its caller composed: no handler's message     *)
(* takes the place of another's.                                           *)
SaysOwnText == accepted = promised

(* When close() has returned and the engine has not failed, every text     *)
(* that say() accepted has been spoken.                                    *)
AllSpokenAtClose == ~joinable => spoken = accepted

(* A text accepted is spoken, unless the engine fails or the service is    *)
(* being closed.                                                           *)
EngineFailed == parser \in {"close", "done"} /\ ~success
EveryTextSpoken ==
  \A n \in 1 .. 3 : Len(accepted) >= n ~> Len(spoken) >= n \/ stopped \/ EngineFailed

(* close() returns, whether or not the engine fails. *)
CloseReturns == client = "joining" ~> client = "idle"
=============================================================================
