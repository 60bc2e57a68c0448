----------------------------- MODULE VoiceServer -----------------------------
(***************************************************************************)
(* The applications of the library: the voice server of                    *)
(* examples/piphons-demo, and the demonstrations of its parts.             *)
(*                                                                         *)
(* main() opens what the program uses, waits until a handler drops the     *)
(* flag "loop" (or the user presses Enter), and closes everything again.   *)
(* The handlers run meanwhile in the threads of the ring, tone and DV      *)
(* pins, and say texts that the parser speaks.                             *)
(*                                                                         *)
(* The components appear by what they promise.  Keys and texts go through  *)
(* stages that keep their order (OrderedDelivery, which Dtmf and Tts are   *)
(* shown to implement), and the line moves as LineService says, which Daa  *)
(* is shown to implement.                                                  *)
(*                                                                         *)
(* A text stands for the call of say() that queued it, whatever characters *)
(* two racing calls have made of it.  The four lines of the welcome are    *)
(* queued one by one.                                                      *)
(*                                                                         *)
(* A definition whose comment begins with "Mistake:" is used by no action: *)
(* it is the one after it as a plausible bug would make it.                *)
(***************************************************************************)
EXTENDS Naturals, Sequences, SequencesExt

CONSTANTS
  Programs,     (* the programs to run                                    *)
  WelcomeLines, (* 4 in piphons-demo                                      *)
  MaxCalls,     (* calls that are answered                                *)
  MaxPresses    (* keys the callers press                                 *)

(* What main() of each program does, in its order. *)
PiphonsDemo == <<"openDaa", "openDtmf", "openTts", "wait",
                 "closeTts", "closeDtmf", "closeDaa">>
DtmfDemo    == <<"openDaa", "openDtmf", "wait", "closeDaa", "closeDtmf">>
DaaDemo     == <<"openDaa", "wait", "closeDaa">>
TtsDemo     == <<"openTts", "say", "closeTts">>

Script == [piphonsDemo |-> PiphonsDemo, dtmfDemo |-> DtmfDemo,
           daaDemo |-> DaaDemo, ttsDemo |-> TtsDemo]

ASSUME ServerAssumption ==
  /\ Programs \subseteq DOMAIN Script
  /\ {WelcomeLines, MaxCalls, MaxPresses} \subseteq Nat

Key  == {"#", "1"}                (* # and any other key                  *)
Text == {"line", "reply", "goodbye"}
None == "none"

VARIABLES
  program,    (* chosen once                                              *)
  todo,       (* what main() has left to do                               *)
  joining,    (* the object whose threads main() is waiting for           *)
  loop,
  opened,     (* the objects that are open                                *)
  seized,     (* is the line off hook?                                    *)
  ring,       (* lines of the welcome that offhookIsr has left to say, 0  *)
              (* when it does not run                                     *)
  tone,       (* does hangupIsr run?                                      *)
  keyPc,      (* where keyIsr is                                          *)
  prev,       (* its static variable                                      *)
  keys, got,  (* the stage of the keys, and the key read last             *)
  texts,      (* the stage of the texts, and                              *)
  spoken,     (* the text spoken last                                     *)
  parser,     (* is there a parser thread, and does it run?               *)
  calls, presses,   (* counters for the bounds                            *)
  reasons,    (* history: why the program may end                         *)
  farewell    (* history: what say() made of the 1st goodbye              *)

keyStage  == <<keys, got>>
textStage == <<texts, spoken>>
mains     == <<program, todo, joining, opened>>
counters  == <<calls, presses>>
histories == <<reasons, farewell>>
keyIsr    == <<keyPc, prev>>
vars == <<mains, loop, seized, ring, tone, keyIsr, keyStage, textStage, parser,
          counters, histories>>

Keys  == INSTANCE OrderedDelivery
           WITH Item <- Key, Nothing <- None, queue <- keys, last <- got
Texts == INSTANCE OrderedDelivery
           WITH Item <- Text, Nothing <- None, queue <- texts, last <- spoken

Line  == INSTANCE LineService
           WITH live <- "daa" \in opened \/ joining = "daa",
                answering <- ring > 0, hanging <- tone

Init ==
  /\ program \in Programs
  /\ todo = Script[program] /\ joining = None /\ opened = {}
  /\ loop = TRUE
  /\ ring = 0 /\ tone = FALSE /\ Line!Init
  /\ keyPc = "idle" /\ prev = None
  /\ Keys!Init /\ Texts!Init
  /\ parser = "none"
  /\ calls = 0 /\ presses = 0
  /\ reasons = {} /\ farewell = None

(* The steps of offhookIsr: the lines of the welcome, and its return. *)
WelcomeSteps == WelcomeLines + 1

Speaks == Contains(Script[program], "openTts")

(* Tts::say() queues the text if the service is open. *)
Say(text) ==
  IF "tts" \in opened THEN Texts!Accept(text) ELSE UNCHANGED textStage

-----------------------------------------------------------------------------
(* main()                                                                   *)

AtStep(s) == todo # <<>> /\ Head(todo) = s /\ joining = None
NextStep  == todo' = Tail(todo)

Opens(s, object) ==
  /\ AtStep(s)
  /\ opened' = opened \cup {object}
  /\ NextStep
  /\ parser' = IF object = "tts" THEN "runs" ELSE parser
  /\ UNCHANGED <<program, joining, loop, ring, tone, keyIsr, keyStage, textStage,
                 counters, histories>>
  /\ IF object = "daa" THEN Line!Open ELSE UNCHANGED seized

MainSays ==
  /\ AtStep("say")
  /\ Say("line")
  /\ NextStep
  /\ UNCHANGED <<program, joining, opened, loop, seized, ring, tone, keyIsr,
                 keyStage, parser, counters, histories>>

(* Until the flag is dropped; daa-demo waits for the Enter key instead. *)
Wait ==
  /\ AtStep("wait")
  /\ \/ ~loop /\ UNCHANGED reasons
     \/ program = "daaDemo" /\ reasons' = reasons \cup {"enter"}
  /\ NextStep
  /\ UNCHANGED <<program, joining, opened, loop, seized, ring, tone, keyIsr,
                 keyStage, textStage, parser, counters, farewell>>

(* Tts::close() tells the parser to stop and stays open until it has.      *)
StopTts ==
  /\ AtStep("closeTts")
  /\ joining' = "tts"
  /\ UNCHANGED <<program, todo, opened, loop, seized, ring, tone, keyIsr,
                 keyStage, textStage, parser, counters, histories>>

(* Dtmf::close() detaches keyIsr; a key not queued yet is forgotten. *)
DetachDtmf ==
  /\ AtStep("closeDtmf")
  /\ joining' = "dtmf"
  /\ opened' = opened \ {"dtmf"}
  /\ Keys!Forget
  /\ UNCHANGED <<program, todo, loop, seized, ring, tone, keyIsr, textStage,
                 parser, counters, histories>>

(* Daa::close() hangs up, but a ringIsr that was past its test of the hook *)
(* may seize the line after that.                                          *)
DetachDaa ==
  /\ AtStep("closeDaa")
  /\ joining' = "daa"
  /\ opened' = opened \ {"daa"}
  /\ UNCHANGED <<program, todo, loop, tone, keyIsr, keyStage, textStage, parser,
                 presses, histories>>
  /\ \/ UNCHANGED <<ring, calls>> /\ Line!Hook(FALSE)
     \/ /\ calls < MaxCalls /\ calls' = calls + 1
        /\ ring' = WelcomeSteps
        /\ Line!Answer

(* Mistake: close() does not wait for the thread of the tone. *)
RingJoined(object) ==
  CASE object = "tts"  -> parser = "ended"
    [] object = "dtmf" -> keyPc = "idle"
    [] object = "daa"  -> ring = 0
    [] OTHER           -> FALSE

(* What close() waits for. *)
Joined(object) ==
  CASE object = "tts"  -> parser = "ended"
    [] object = "dtmf" -> keyPc = "idle"
    [] object = "daa"  -> ring = 0 /\ ~tone
    [] OTHER           -> FALSE

Join ==
  /\ Joined(joining)
  /\ opened' = opened \ {joining}
  /\ joining' = None
  /\ NextStep
  /\ UNCHANGED <<program, loop, seized, ring, tone, keyIsr, keyStage, textStage,
                 parser, counters, histories>>

-----------------------------------------------------------------------------
(* The line, and its handlers                                               *)

(* Three rings take longer than main() takes to open everything. *)
Ready == \A s \in {"openDaa", "openDtmf", "openTts"} : ~Contains(todo, s)

Answer ==
  /\ "daa" \in opened /\ Ready
  /\ ~seized
  /\ calls < MaxCalls
  /\ calls' = calls + 1
  /\ ring' = WelcomeSteps
  /\ UNCHANGED <<mains, loop, tone, keyIsr, keyStage, textStage, parser, presses,
                 histories>>
  /\ Line!Answer

(* offhookIsr says the welcome line by line, if the program speaks. *)
Welcome ==
  /\ ring > 0
  /\ IF Speaks /\ ring > 1 THEN Say("line") ELSE UNCHANGED textStage
  /\ ring' = IF Speaks THEN ring - 1 ELSE 0
  /\ UNCHANGED <<mains, loop, seized, tone, keyIsr, keyStage, parser, counters,
                 histories>>

(* A ring while the line is seized hangs up; no handler is told. *)
RingHangs ==
  /\ "daa" \in opened
  /\ ring = 0 /\ seized
  /\ UNCHANGED <<mains, loop, ring, tone, keyIsr, keyStage, textStage, parser,
                 counters, histories>>
  /\ Line!Hook(FALSE)

(* A busy tone is heard while the line is seized.  dtmf-demo does not      *)
(* detect it.                                                              *)
BusyTone ==
  /\ "daa" \in opened /\ program # "dtmfDemo"
  /\ seized
  /\ tone' = TRUE
  /\ reasons' = reasons \cup {"tone"}
  /\ UNCHANGED <<mains, loop, ring, keyIsr, keyStage, textStage, parser, counters,
                 farewell>>
  /\ Line!HangUp

(* hangupIsr ends the server; that of daa-demo prints. *)
HangupIsr ==
  /\ tone' = FALSE
  /\ loop' = (loop /\ program # "piphonsDemo")
  /\ UNCHANGED <<mains, seized, ring, keyIsr, keyStage, textStage, parser,
                 counters, histories>>
  /\ Line!HungUp

-----------------------------------------------------------------------------
(* keyIsr of the programs                                                   *)

Press(k) ==
  /\ seized /\ "dtmf" \in opened
  /\ presses < MaxPresses
  /\ presses' = presses + 1
  /\ Keys!Accept(k)
  /\ UNCHANGED <<mains, loop, seized, ring, tone, keyIsr, textStage, parser, calls,
                 histories>>

(* Mistake: one # is enough. *)
OneHash(c) == c = "#"
TwoHashes(c) == c = "#" /\ prev = "#"

(* Mistake: the flag is dropped before the goodbye is said. *)
HastyRoute == [reply |-> "drop", drop |-> "goodbye", goodbye |-> "store"]
Route == [reply |-> "goodbye", goodbye |-> "drop", drop |-> "store"]

ReadKey ==
  /\ keyPc = "idle"
  /\ "dtmf" \in opened
  /\ Keys!Deliver
  /\ reasons' = IF <<got, got'>> = <<"#", "#">> THEN reasons \cup {"hashes"}
                                                ELSE reasons
  /\ keyPc' = IF Speaks THEN "reply" ELSE IF TwoHashes(got') THEN "drop" ELSE "store"
  /\ UNCHANGED <<mains, loop, seized, ring, tone, prev, textStage, parser, counters,
                 farewell>>

Reply ==
  /\ keyPc = "reply"
  /\ Say("reply")
  /\ keyPc' = IF TwoHashes(got) THEN Route["reply"] ELSE "store"
  /\ UNCHANGED <<mains, loop, seized, ring, tone, prev, keyStage, parser, counters,
                 histories>>

Goodbye ==
  /\ keyPc = "goodbye"
  /\ Say("goodbye")
  /\ farewell' = IF farewell # None THEN farewell
                 ELSE IF "tts" \in opened THEN "queued" ELSE "refused"
  /\ keyPc' = Route["goodbye"]
  /\ UNCHANGED <<mains, loop, seized, ring, tone, prev, keyStage, parser, counters,
                 reasons>>

DropFlag ==
  /\ keyPc = "drop"
  /\ loop' = FALSE
  /\ keyPc' = Route["drop"]
  /\ UNCHANGED <<mains, seized, ring, tone, prev, keyStage, textStage, parser,
                 counters, histories>>

StoreKey ==
  /\ keyPc = "store"
  /\ prev' = got
  /\ keyPc' = "idle"
  /\ UNCHANGED <<mains, loop, seized, ring, tone, keyStage, textStage, parser,
                 counters, histories>>

-----------------------------------------------------------------------------
(* The parser of the speech service                                         *)

Speak ==
  /\ parser = "runs"
  /\ Texts!Deliver
  /\ UNCHANGED <<mains, loop, seized, ring, tone, keyIsr, keyStage, parser, counters,
                 histories>>

(* It has found nothing to speak, and turns to the stop flag ... *)
FindNothing ==
  /\ parser = "runs"
  /\ texts = <<>>
  /\ parser' = "polls"
  /\ UNCHANGED <<mains, loop, seized, ring, tone, keyIsr, keyStage, textStage,
                 counters, histories>>

(* Mistake: the flag is never seen. *)
NeverStopped == FALSE
Stopped == joining = "tts"

(* ... and leaves, whatever has been queued since, if it is set. *)
PollFlag ==
  /\ parser = "polls"
  /\ parser' = IF Stopped THEN "ended" ELSE "runs"
  /\ UNCHANGED <<mains, loop, seized, ring, tone, keyIsr, keyStage, textStage,
                 counters, histories>>

(* The engine fails. *)
FailEngine ==
  /\ parser = "runs"
  /\ parser' = "ended"
  /\ UNCHANGED <<mains, loop, seized, ring, tone, keyIsr, keyStage, textStage,
                 counters, histories>>

-----------------------------------------------------------------------------
Main == \/ Opens("openDaa", "daa") \/ Opens("openDtmf", "dtmf")
        \/ Opens("openTts", "tts") \/ MainSays \/ Wait
        \/ StopTts \/ DetachDtmf \/ DetachDaa \/ Join
RingHandler == Welcome
KeyHandler  == ReadKey \/ Reply \/ Goodbye \/ DropFlag \/ StoreKey
Parser      == Speak \/ FindNothing \/ PollFlag
Caller      == Answer \/ RingHangs \/ BusyTone \/ \E k \in Key : Press(k)

Next == \/ Main \/ RingHandler \/ HangupIsr \/ KeyHandler
        \/ Parser \/ FailEngine \/ Caller

(* Every thread of the program runs; nothing obliges the caller, nor the   *)
(* user of daa-demo.                                                       *)
Fairness == /\ WF_vars(Main /\ reasons' = reasons)
            /\ WF_vars(RingHandler) /\ WF_vars(HangupIsr)
            /\ WF_vars(KeyHandler) /\ WF_vars(Parser)

Spec == Init /\ [][Next]_vars /\ Fairness

-----------------------------------------------------------------------------
(* The server ends only when the caller has left or keyIsr has read two #  *)
(* one after the other.                                                    *)
EndsOnlyWhenAsked == ~loop => reasons # {}

(* When two # end the server, main() has not closed the speech service     *)
(* before the goodbye is queued.                                           *)
GoodbyeBeforeEnd ==
  Speaks /\ ~loop /\ reasons = {"hashes"} => farewell = "queued"

(* When main() returns, and the global tts is destroyed, no handler runs   *)
(* that could say something and no thread is left that is not joined.      *)
QuietAtReturn ==
  todo = <<>> => /\ opened = {} /\ parser \in {"none", "ended"}
                 /\ ring = 0 /\ ~tone /\ keyPc = "idle"

(* Once a handler has asked for it the program ends, for callers who do    *)
(* not press keys for ever; and tts-demo ends by itself.                   *)
ServerEnds == ~loop \/ program = "ttsDemo" ~> todo = <<>>
=============================================================================
