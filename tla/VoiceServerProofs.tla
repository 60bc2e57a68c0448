-------------------------- MODULE VoiceServerProofs --------------------------
(***************************************************************************)
(* Why the applications of the library end, and that nothing of them is    *)
(* left running: the safety of VoiceServer, for any number of calls, of    *)
(* keys and of lines of the welcome.                                       *)
(***************************************************************************)
EXTENDS VoiceServer, SequenceTheorems, TLAPS

Objects == {"daa", "dtmf", "tts"}
Opening == [daa |-> "openDaa", dtmf |-> "openDtmf", tts |-> "openTts"]
Closing == [daa |-> "closeDaa", dtmf |-> "closeDtmf", tts |-> "closeTts"]

Steps == {"openDaa", "openDtmf", "openTts", "wait", "say", "closeTts", "closeDtmf", "closeDaa"}

Ahead(s) == Contains(todo, s)

-----------------------------------------------------------------------------
(* The inductive invariant                                                  *)

TypeInv ==
  /\ program \in DOMAIN Script
  /\ opened \subseteq Objects
  /\ joining \in Objects \cup {None}
  /\ ring \in Nat
  /\ tone \in BOOLEAN
  /\ keyPc \in {"idle", "reply", "goodbye", "drop", "store"}
  /\ keys \in Seq(Key) /\ got \in Key \cup {None}
  /\ parser \in {"none", "runs", "polls", "ended"}
  /\ farewell \in {None, "queued", "refused"}

(* main() has come some way in its program. *)
ScriptInv ==
  /\ todo \in Seq(Steps)
  /\ \E k \in Nat : /\ Len(todo) + k = Len(Script[program])
                    /\ \A i \in 1 .. Len(todo) : todo[i] = Script[program][k + i]

(* What is open will be closed, and main() waits only for what it closes.  *)
OpenInv ==
  /\ \A object \in opened : Ahead(Closing[object])
  /\ joining # None => todo # <<>> /\ Head(todo) = Closing[joining]
  /\ "dtmf" \in opened => ~Ahead("openDaa")

(* A thread of an object runs only while the object is open, or waited for. *)
ThreadInv ==
  /\ ring > 0 \/ tone => "daa" \in opened \/ joining = "daa"
  /\ keyPc # "idle" => "dtmf" \in opened \/ joining = "dtmf"
  /\ parser \in {"runs", "polls"} => "tts" \in opened

(* There is a reason for every step that leads to the end. *)
ReasonInv ==
  /\ ~loop => reasons # {}
  /\ tone => "tone" \in reasons
  /\ keyPc = "idle" => prev = got
  /\ keyPc \in {"goodbye", "drop"} => "hashes" \in reasons
  /\ keyPc = "reply" /\ prev = "#" /\ got = "#" => "hashes" \in reasons

(* Nobody presses a key before everything is open, nor in tts-demo. *)
KeyInv ==
  /\ seized /\ program # "ttsDemo" => Ahead("openDaa") \/ ~Ahead("openTts")
  /\ keys # <<>> \/ keyPc # "idle" => ~Ahead("openTts") /\ program # "ttsDemo"

(* main() of the server waits for the flag between opening and closing.    *)
WaitInv ==
  program = "piphonsDemo" =>
    /\ ~Ahead("wait") => ~loop
    /\ ~Ahead("openTts") => "tts" \in opened \/ ~Ahead("wait")

(* The flag drops for two # after a goodbye only, which is refused only    *)
(* when a busy tone has made main() close the speech service.              *)
FarewellInv ==
  /\ keyPc \in {"reply", "goodbye"} => Speaks
  /\ Speaks /\ (keyPc = "drop" \/ ~loop) => farewell # None \/ "tone" \in reasons
  /\ Speaks /\ keyPc = "drop" => farewell # None
  /\ farewell = "refused" => "tone" \in reasons

IInv == /\ TypeInv /\ ScriptInv /\ OpenInv /\ ThreadInv
        /\ ReasonInv /\ KeyInv /\ WaitInv /\ FarewellInv

-----------------------------------------------------------------------------
(* The programs                                                             *)

(* In what order a program opens, waits and closes. *)
InOrder(S) ==
  \A i, j \in 1 .. Len(S) :
    /\ S[i] = "closeTts" /\ i < j => S[j] # "wait"
    /\ S[i] = "closeDaa" /\ i < j => S[j] # "openTts"
    /\ S[i] = "openDtmf" /\ i < j => S[j] # "openDaa"

Closes(S) ==
  \A i \in 1 .. Len(S), object \in Objects :
    S[i] = Opening[object] => \E j \in 1 .. Len(S) : i < j /\ S[j] = Closing[object]

LEMMA Programmed ==
  ASSUME NEW p \in DOMAIN Script
  PROVE  /\ Script[p] \in Seq(Steps) /\ Len(Script[p]) \in 1 .. 7
         /\ InOrder(Script[p]) /\ Closes(Script[p])
<1> DEFINE S == Script[p]
<1>1. p \in {"piphonsDemo", "dtmfDemo", "daaDemo", "ttsDemo"}
  BY DEF Script
<1>2. CASE p = "piphonsDemo"
  <2>1. S = PiphonsDemo
    BY <1>2 DEF Script
  <2>2. /\ S \in Seq(Steps) /\ Len(S) = 7
        /\ S[1] = "openDaa" /\ S[2] = "openDtmf" /\ S[3] = "openTts" /\ S[4] = "wait"
        /\ S[5] = "closeTts" /\ S[6] = "closeDtmf" /\ S[7] = "closeDaa"
    BY <2>1 DEF PiphonsDemo, Steps
  <2> HIDE DEF S
  <2>3. \A i \in 1 .. Len(S) : i \in {1, 2, 3, 4, 5, 6, 7}
    BY <2>2
  <2>4. InOrder(S)
    BY <2>2, <2>3 DEF InOrder
  <2>5. Closes(S)
    BY <2>2, <2>3 DEF Closes, Objects, Opening, Closing
  <2> QED
    BY <2>2, <2>4, <2>5 DEF S
<1>3. CASE p = "dtmfDemo"
  <2>1. S = DtmfDemo
    BY <1>3 DEF Script
  <2>2. /\ S \in Seq(Steps) /\ Len(S) = 5
        /\ S[1] = "openDaa" /\ S[2] = "openDtmf" /\ S[3] = "wait"
        /\ S[4] = "closeDaa" /\ S[5] = "closeDtmf"
    BY <2>1 DEF DtmfDemo, Steps
  <2> HIDE DEF S
  <2>3. \A i \in 1 .. Len(S) : i \in {1, 2, 3, 4, 5}
    BY <2>2
  <2>4. InOrder(S)
    BY <2>2, <2>3 DEF InOrder
  <2>5. Closes(S)
    BY <2>2, <2>3 DEF Closes, Objects, Opening, Closing
  <2> QED
    BY <2>2, <2>4, <2>5 DEF S
<1>4. CASE p = "daaDemo"
  <2>1. S = DaaDemo
    BY <1>4 DEF Script
  <2>2. /\ S \in Seq(Steps) /\ Len(S) = 3
        /\ S[1] = "openDaa" /\ S[2] = "wait" /\ S[3] = "closeDaa"
    BY <2>1 DEF DaaDemo, Steps
  <2> HIDE DEF S
  <2>3. \A i \in 1 .. Len(S) : i \in {1, 2, 3}
    BY <2>2
  <2>4. InOrder(S) /\ Closes(S)
    BY <2>2, <2>3 DEF InOrder, Closes, Objects, Opening, Closing
  <2> QED
    BY <2>2, <2>4 DEF S
<1>5. CASE p = "ttsDemo"
  <2>1. S = TtsDemo
    BY <1>5 DEF Script
  <2>2. /\ S \in Seq(Steps) /\ Len(S) = 3
        /\ S[1] = "openTts" /\ S[2] = "say" /\ S[3] = "closeTts"
    BY <2>1 DEF TtsDemo, Steps
  <2> HIDE DEF S
  <2>3. \A i \in 1 .. Len(S) : i \in {1, 2, 3}
    BY <2>2
  <2>4. InOrder(S) /\ Closes(S)
    BY <2>2, <2>3 DEF InOrder, Closes, Objects, Opening, Closing
  <2> QED
    BY <2>2, <2>4 DEF S
<1> QED
  BY <1>1, <1>2, <1>3, <1>4, <1>5

(* What main() has to do after the step it is at. *)
After(s) == Contains(Tail(todo), s)

LEMMA Tails ==
  ASSUME TypeInv, ScriptInv, todo # <<>>
  PROVE  /\ \A s : Ahead(s) <=> s = Head(todo) \/ After(s)
         /\ \A object \in Objects : Head(todo) = Opening[object] => After(Closing[object])
         /\ Head(todo) = "closeTts" => ~After("wait")
         /\ Head(todo) = "closeDaa" => ~After("openTts")
         /\ Head(todo) = "openDtmf" => ~After("openDaa")
         /\ todo' = Tail(todo) /\ program' = program => ScriptInv'
<1> DEFINE S == Script[program]
           n == Len(todo)
<1>1. S \in Seq(Steps) /\ Len(S) \in Nat /\ InOrder(S) /\ Closes(S)
  BY Programmed DEF TypeInv
<1>2. PICK k \in Nat : n + k = Len(S) /\ \A i \in 1 .. n : todo[i] = S[k + i]
  BY DEF ScriptInv
<1>3. /\ todo \in Seq(Steps) /\ n \in Nat /\ n >= 1
      /\ Tail(todo) \in Seq(Steps) /\ Len(Tail(todo)) = n - 1 /\ Head(todo) = todo[1]
      /\ \A i \in 1 .. n - 1 : Tail(todo)[i] = todo[i + 1]
  BY DEF ScriptInv
<1> HIDE DEF S, n
<1>4. /\ k + 1 \in 1 .. Len(S) /\ Head(todo) = S[k + 1]
      /\ \A i \in 1 .. n - 1 : Tail(todo)[i] = S[k + 1 + i]
  <2>1. \A i \in 1 .. n - 1 : i + 1 \in 1 .. n /\ k + (i + 1) = k + 1 + i
    BY <1>2, <1>3
  <2>2. 1 \in 1 .. n /\ k + 1 \in 1 .. Len(S)
    BY <1>1, <1>2, <1>3
  <2> QED
    BY <1>2, <1>3, <2>1, <2>2
<1>5. \A s : Ahead(s) <=> s = Head(todo) \/ After(s)
  <2> SUFFICES ASSUME NEW s PROVE Ahead(s) <=> s = Head(todo) \/ After(s)
    OBVIOUS
  <2>1. Ahead(s) <=> \E i \in 1 .. n : todo[i] = s
    BY DEF Ahead, Contains, n
  <2>2. After(s) <=> \E i \in 1 .. n - 1 : Tail(todo)[i] = s
    BY <1>3 DEF After, Contains
  <2>3. \A i \in 1 .. n : i = 1 \/ (i - 1 \in 1 .. n - 1 /\ Tail(todo)[i - 1] = todo[i])
    BY <1>3
  <2>4. 1 \in 1 .. n /\ \A i \in 1 .. n - 1 : i + 1 \in 1 .. n
    BY <1>3
  <2> QED
    BY <1>3, <2>1, <2>2, <2>3, <2>4
<1>6. \A s : After(s) <=> \E j \in 1 .. Len(S) : k + 1 < j /\ S[j] = s
  <2> SUFFICES ASSUME NEW s PROVE After(s) <=> \E j \in 1 .. Len(S) : k + 1 < j /\ S[j] = s
    OBVIOUS
  <2>1. After(s) <=> \E i \in 1 .. n - 1 : S[k + 1 + i] = s
    BY <1>3, <1>4 DEF After, Contains
  <2>2. \A i \in 1 .. n - 1 : k + 1 + i \in 1 .. Len(S) /\ k + 1 < k + 1 + i
    BY <1>1, <1>2, <1>3
  <2>3. \A j \in 1 .. Len(S) :
          k + 1 < j => j - (k + 1) \in 1 .. n - 1 /\ k + 1 + (j - (k + 1)) = j
    BY <1>1, <1>2, <1>3
  <2> QED
    BY <2>1, <2>2, <2>3
<1>7. \A object \in Objects : Head(todo) = Opening[object] => After(Closing[object])
  BY <1>1, <1>4, <1>6 DEF Closes
<1>8. /\ Head(todo) = "closeTts" => ~After("wait")
      /\ Head(todo) = "closeDaa" => ~After("openTts")
      /\ Head(todo) = "openDtmf" => ~After("openDaa")
  BY <1>1, <1>4, <1>6 DEF InOrder
<1>9. ASSUME todo' = Tail(todo), program' = program PROVE ScriptInv'
  <2>1. /\ todo' \in Seq(Steps) /\ Len(todo') = n - 1 /\ k + 1 \in Nat
        /\ Len(todo') + (k + 1) = Len(S)
        /\ \A i \in 1 .. Len(todo') : todo'[i] = S[k + 1 + i]
    BY <1>1, <1>2, <1>3, <1>4, <1>9
  <2>2. Script[program'] = S
    BY <1>9 DEF S
  <2> QED
    BY <2>1, <2>2 DEF ScriptInv
<1> QED
  BY <1>5, <1>7, <1>8, <1>9

-----------------------------------------------------------------------------
(* The steps by what they do to main()                                      *)

(* main() does what it is at, and goes on. *)
OpenSteps == \/ Opens("openDaa", "daa") \/ Opens("openDtmf", "dtmf") \/ Opens("openTts", "tts")
PassSteps == MainSays \/ Wait
(* It begins to wait for the threads of an object. *)
CloseSteps == StopTts \/ DetachDtmf \/ DetachDaa
(* The steps of the other threads. *)
OtherSteps == \/ RingHandler \/ HangupIsr \/ KeyHandler \/ Parser \/ FailEngine \/ Caller

LEMMA StepKinds ==
  ASSUME Next
  PROVE  OpenSteps \/ PassSteps \/ CloseSteps \/ Join \/ OtherSteps
BY DEF Next, Main, OpenSteps, PassSteps, CloseSteps, OtherSteps

LEMMA OthersLeaveMain ==
  ASSUME OtherSteps
  PROVE  program' = program /\ todo' = todo /\ joining' = joining /\ opened' = opened
BY DEF OtherSteps, RingHandler, Welcome, HangupIsr, KeyHandler, ReadKey, Reply, Goodbye, DropFlag,
       StoreKey, Parser, Speak, FindNothing, PollFlag, FailEngine, Caller, Answer, RingHangs,
       BusyTone, Press, mains

(* Only the handler of keys, the caller and close() touch the keys. *)
LEMMA KeySteps ==
  ASSUME TypeInv, [Next]_vars
  PROVE  /\ keys' \in Seq(Key) /\ got' \in Key \cup {None}
         /\ keyPc' # "idle" => keyPc # "idle" \/ keys # <<>>
         /\ keys' # <<>> => keys # <<>> \/ (seized /\ "dtmf" \in opened /\ OtherSteps)
<1> USE DEF TypeInv, keyStage, keyIsr
<1>1. CASE OpenSteps \/ PassSteps \/ StopTts \/ DetachDaa \/ Join
  BY <1>1 DEF OpenSteps, PassSteps, Opens, MainSays, Wait, StopTts, DetachDaa, Join
<1>2. CASE DetachDtmf
  <2>1. PICK n \in 0 .. Len(keys) : keys' = SubSeq(keys, 1, n)
    BY <1>2 DEF DetachDtmf, Keys!Forget
  <2>2. got' = got /\ keyPc' = keyPc
    BY <1>2 DEF DetachDtmf, Keys!Forget
  <2>3. keys' \in Seq(Key) /\ (keys = <<>> => keys' = <<>>)
    <3>1. Len(keys) \in Nat /\ n \in Nat /\ n <= Len(keys)
      BY LenProperties
    <3>2. \A i \in 1 .. n : keys[i] \in Key
      BY <3>1, ElementOfSeq
    <3>3. keys' \in Seq(Key) /\ Len(keys') = n
      BY <2>1, <3>1, <3>2, SubSeqProperties
    <3> QED
      BY <3>1, <3>3, EmptySeq
  <2> QED
    BY <2>2, <2>3
<1>3. CASE ReadKey
  BY <1>3 DEF ReadKey, Keys!Deliver
<1>4. CASE Reply \/ Goodbye \/ DropFlag \/ StoreKey
  BY <1>4 DEF Reply, Goodbye, DropFlag, StoreKey
<1>5. CASE \E k \in Key : Press(k)
  BY <1>5, AppendProperties DEF Press, Keys!Accept, OtherSteps, Caller
<1>6. CASE \/ RingHandler \/ HangupIsr \/ Parser \/ FailEngine
           \/ Answer \/ RingHangs \/ BusyTone
  BY <1>6 DEF RingHandler, Welcome, HangupIsr, Parser, Speak, FindNothing, PollFlag, FailEngine,
              Answer, RingHangs, BusyTone
<1>7. CASE UNCHANGED vars
  BY <1>7 DEF vars
<1> QED
  BY <1>1, <1>2, <1>3, <1>4, <1>5, <1>6, <1>7, StepKinds
  DEF CloseSteps, OtherSteps, KeyHandler, Caller

LEMMA TypeStep == TypeInv /\ OpenInv /\ [Next]_vars => TypeInv'
<1> SUFFICES ASSUME TypeInv, OpenInv, [Next]_vars PROVE TypeInv'
  OBVIOUS
<1> USE DEF TypeInv, Objects, mains, counters, histories, keyIsr, Key
<1>1. keys' \in Seq(Key) /\ got' \in Key \cup {None}
  BY KeySteps
<1> DEFINE Rest == /\ program' \in DOMAIN Script /\ opened' \subseteq Objects
                   /\ joining' \in Objects \cup {None} /\ ring' \in Nat /\ tone' \in BOOLEAN
                   /\ keyPc' \in {"idle", "reply", "goodbye", "drop", "store"}
                   /\ parser' \in {"none", "runs", "polls", "ended"}
                   /\ farewell' \in {None, "queued", "refused"}
<1>2. CASE OpenSteps \/ PassSteps
  <2>1. Rest
    BY <1>2 DEF OpenSteps, PassSteps, Opens, MainSays, Wait
  <2> QED
    BY <1>1, <2>1
<1>3. WelcomeSteps \in Nat
  BY ServerAssumption DEF WelcomeSteps
<1>4. CASE CloseSteps \/ Join
  <2>1. Rest
    BY <1>3, <1>4 DEF CloseSteps, StopTts, DetachDtmf, DetachDaa, Join
  <2> QED
    BY <1>1, <2>1
<1>5. CASE OtherSteps
  <2>1. CASE Welcome
    <3>1. Rest
      BY <2>1 DEF Welcome
    <3> QED
      BY <1>1, <3>1
  <2>2. CASE KeyHandler
    <3>1. Rest
      BY <2>2 DEF KeyHandler, ReadKey, Reply, Goodbye, DropFlag, StoreKey, Route
    <3> QED
      BY <1>1, <3>1
  <2>3. CASE HangupIsr \/ Parser \/ FailEngine
    <3>1. Rest
      BY <2>3 DEF HangupIsr, Parser, Speak, FindNothing, PollFlag, FailEngine
    <3> QED
      BY <1>1, <3>1
  <2>4. CASE Caller
    <3>1. Rest
      BY <1>3, <2>4 DEF Caller, Answer, RingHangs, BusyTone, Press
    <3> QED
      BY <1>1, <3>1
  <2> QED
    BY <1>5, <2>1, <2>2, <2>3, <2>4 DEF OtherSteps, RingHandler
<1>6. CASE UNCHANGED vars
  <2>1. Rest
    BY <1>6 DEF vars
  <2> QED
    BY <1>1, <2>1
<1> QED
  BY <1>2, <1>4, <1>5, <1>6, StepKinds

-----------------------------------------------------------------------------
(* main(), and the threads it waits for                                     *)

(* A step of main() that it goes on from leaves the rest of its program.   *)
LEMMA MainMoves ==
  ASSUME TypeInv, ScriptInv, OpenInv, OpenSteps \/ PassSteps \/ Join
  PROVE  /\ todo # <<>> /\ todo' = Tail(todo) /\ program' = program
         /\ \A s : Ahead(s)' <=> After(s)
         /\ \A s : Ahead(s) <=> s = Head(todo) \/ Ahead(s)'
<1>1. /\ todo # <<>> /\ todo' = Tail(todo) /\ program' = program
  <2>1. CASE OpenSteps
    BY <2>1 DEF OpenSteps, Opens, AtStep, NextStep
  <2>2. CASE PassSteps
    BY <2>2 DEF PassSteps, MainSays, Wait, AtStep, NextStep
  <2>3. CASE Join
    <3>1. joining \in Objects
      BY <2>3 DEF Join, Joined, Objects
    <3>2. todo # <<>>
      BY <3>1 DEF OpenInv, Objects, None
    <3> QED
      BY <2>3, <3>2 DEF Join, NextStep
  <2> QED
    BY <2>1, <2>2, <2>3
<1>2. \A s : Ahead(s)' <=> After(s)
  BY <1>1 DEF Ahead, After
<1> QED
  BY <1>1, <1>2, Tails

LEMMA ScriptStep == TypeInv /\ ScriptInv /\ OpenInv /\ [Next]_vars => ScriptInv'
<1> SUFFICES ASSUME TypeInv, ScriptInv, OpenInv, [Next]_vars PROVE ScriptInv'
  OBVIOUS
<1>1. CASE OpenSteps \/ PassSteps \/ Join
  BY <1>1, MainMoves, Tails
<1>2. CASE CloseSteps \/ OtherSteps \/ UNCHANGED vars
  <2>1. todo' = todo /\ program' = program
    BY <1>2, OthersLeaveMain DEF CloseSteps, StopTts, DetachDtmf, DetachDaa, vars, mains
  <2> QED
    BY <2>1 DEF ScriptInv
<1> QED
  BY <1>1, <1>2, StepKinds

LEMMA OpenStep == TypeInv /\ ScriptInv /\ OpenInv /\ [Next]_vars => OpenInv'
<1> SUFFICES ASSUME TypeInv, ScriptInv, OpenInv, [Next]_vars PROVE OpenInv'
  OBVIOUS
<1> USE DEF Objects, Opening, Closing
<1>1. CASE OpenSteps
  <2>1. PICK object \in Objects :
          /\ todo # <<>> /\ Head(todo) = Opening[object]
          /\ opened' = opened \cup {object} /\ joining' = None
    BY <1>1 DEF OpenSteps, Opens, AtStep
  <2>2. /\ \A s : Ahead(s)' <=> After(s)
        /\ \A s : Ahead(s) <=> s = Head(todo) \/ Ahead(s)'
    BY <1>1, MainMoves
  <2>3. Ahead(Closing[object])' /\ (object = "dtmf" => ~Ahead("openDaa")')
    BY <2>1, <2>2, Tails
  <2>4. \A other \in opened : Ahead(Closing[other])'
    BY <2>1, <2>2 DEF OpenInv, TypeInv
  <2>5. "dtmf" \in opened => ~Ahead("openDaa")'
    BY <2>2 DEF OpenInv
  <2> QED
    BY <2>1, <2>3, <2>4, <2>5 DEF OpenInv
<1>2. CASE PassSteps
  <2>1. opened' = opened /\ joining' = None /\ Head(todo) \in {"say", "wait"}
    BY <1>2 DEF PassSteps, MainSays, Wait, AtStep
  <2>2. \A s : Ahead(s) <=> s = Head(todo) \/ Ahead(s)'
    BY <1>2, MainMoves
  <2> QED
    BY <2>1, <2>2 DEF OpenInv, TypeInv
<1>3. CASE Join
  <2>1. opened' = opened \ {joining} /\ joining' = None /\ joining \in Objects
    BY <1>3 DEF Join, Joined
  <2>2. Head(todo) = Closing[joining]
    BY <2>1 DEF OpenInv, None
  <2>3. \A s : Ahead(s) <=> s = Head(todo) \/ Ahead(s)'
    BY <1>3, MainMoves
  <2> QED
    BY <2>1, <2>2, <2>3 DEF OpenInv, TypeInv
<1>4. CASE CloseSteps
  <2>1. /\ todo' = todo /\ todo # <<>> /\ opened' \subseteq opened
        /\ joining' \in Objects /\ Head(todo) = Closing[joining']
    <3>1. CASE StopTts
      BY <3>1 DEF StopTts, AtStep
    <3>2. CASE DetachDtmf
      BY <3>2 DEF DetachDtmf, AtStep
    <3>3. CASE DetachDaa
      BY <3>3 DEF DetachDaa, AtStep
    <3> QED
      BY <1>4, <3>1, <3>2, <3>3 DEF CloseSteps
  <2>2. \A s : Ahead(s)' <=> Ahead(s)
    BY <2>1 DEF Ahead
  <2> QED
    BY <2>1, <2>2 DEF OpenInv
<1>5. CASE OtherSteps \/ UNCHANGED vars
  <2>1. todo' = todo /\ joining' = joining /\ opened' = opened
    BY <1>5, OthersLeaveMain DEF vars, mains
  <2> QED
    BY <2>1 DEF OpenInv, Ahead
<1> QED
  BY <1>1, <1>2, <1>3, <1>4, <1>5, StepKinds

LEMMA ThreadStep == TypeInv /\ OpenInv /\ ThreadInv /\ [Next]_vars => ThreadInv'
<1> SUFFICES ASSUME TypeInv, OpenInv, ThreadInv, [Next]_vars PROVE ThreadInv'
  OBVIOUS
<1> USE DEF ThreadInv, keyIsr
<1>1. CASE OpenSteps
  BY <1>1 DEF OpenSteps, Opens, AtStep, None
<1>2. CASE PassSteps
  BY <1>2 DEF PassSteps, MainSays, Wait
<1>3. CASE CloseSteps
  <2>1. CASE StopTts
    BY <2>1 DEF StopTts, AtStep, None
  <2>2. CASE DetachDtmf
    BY <2>2 DEF DetachDtmf, AtStep, None
  <2>3. CASE DetachDaa
    BY <2>3 DEF DetachDaa, AtStep, None
  <2> QED
    BY <1>3, <2>1, <2>2, <2>3 DEF CloseSteps
<1>4. CASE Join
  <2>1. CASE joining = "tts"
    BY <1>4, <2>1 DEF Join, Joined
  <2>2. CASE joining = "dtmf"
    BY <1>4, <2>2 DEF Join, Joined
  <2>3. CASE joining = "daa"
    BY <1>4, <2>3 DEF Join, Joined, TypeInv
  <2> QED
    BY <1>4, <2>1, <2>2, <2>3 DEF Join, Joined
<1>5. CASE OtherSteps
  <2>1. joining' = joining /\ opened' = opened
    BY <1>5, OthersLeaveMain
  <2>2. CASE Welcome
    BY <2>1, <2>2 DEF Welcome, TypeInv
  <2>3. CASE KeyHandler
    BY <2>1, <2>3 DEF KeyHandler, ReadKey, Reply, Goodbye, DropFlag, StoreKey
  <2>4. CASE HangupIsr \/ Parser \/ FailEngine
    BY <2>1, <2>4 DEF HangupIsr, Parser, Speak, FindNothing, PollFlag, FailEngine
  <2>5. CASE Answer \/ BusyTone
    <3>1. "daa" \in opened /\ keyPc' = keyPc /\ parser' = parser
      BY <2>5 DEF Answer, BusyTone
    <3> QED
      BY <2>1, <3>1
  <2>6. CASE RingHangs \/ \E k \in Key : Press(k)
    <3>1. keyPc' = keyPc /\ parser' = parser /\ ring' = ring /\ tone' = tone
      BY <2>6 DEF RingHangs, Press
    <3> QED
      BY <2>1, <3>1
  <2> QED
    BY <1>5, <2>2, <2>3, <2>4, <2>5, <2>6 DEF OtherSteps, RingHandler, Caller
<1>6. CASE UNCHANGED vars
  BY <1>6 DEF vars, mains
<1> QED
  BY <1>1, <1>2, <1>3, <1>4, <1>5, <1>6, StepKinds

-----------------------------------------------------------------------------
(* Reasons to end                                                           *)

LEMMA ReasonStep == TypeInv /\ ReasonInv /\ [Next]_vars => ReasonInv'
<1> SUFFICES ASSUME TypeInv, ReasonInv, [Next]_vars PROVE ReasonInv'
  OBVIOUS
<1> USE DEF ReasonInv, keyIsr, histories, keyStage
<1>1. CASE OpenSteps \/ PassSteps \/ CloseSteps \/ Join
  <2>1. /\ loop' = loop /\ keyPc' = keyPc /\ prev' = prev /\ got' = got
        /\ reasons \subseteq reasons' /\ tone' = tone
    <3>1. CASE OpenSteps
      BY <3>1 DEF OpenSteps, Opens
    <3>2. CASE PassSteps
      BY <3>2 DEF PassSteps, MainSays, Wait
    <3>3. CASE StopTts \/ Join
      BY <3>3 DEF StopTts, Join
    <3>4. CASE DetachDtmf \/ DetachDaa
      BY <3>4 DEF DetachDtmf, DetachDaa, Keys!Forget
    <3> QED
      BY <1>1, <3>1, <3>2, <3>3, <3>4 DEF CloseSteps
  <2> QED
    BY <2>1
<1>2. CASE RingHandler \/ Parser \/ FailEngine \/ Answer \/ RingHangs \/ \E k \in Key : Press(k)
  <2>1. /\ loop' = loop /\ keyPc' = keyPc /\ prev' = prev /\ got' = got
        /\ reasons' = reasons /\ tone' = tone
    <3>1. CASE RingHandler
      BY <3>1 DEF RingHandler, Welcome
    <3>2. CASE Parser \/ FailEngine
      BY <3>2 DEF Parser, Speak, FindNothing, PollFlag, FailEngine
    <3>3. CASE Answer \/ RingHangs \/ \E k \in Key : Press(k)
      BY <3>3 DEF Answer, RingHangs, Press, Keys!Accept
    <3> QED
      BY <1>2, <3>1, <3>2, <3>3
  <2> QED
    BY <2>1
<1>3. CASE BusyTone
  BY <1>3 DEF BusyTone
<1>4. CASE HangupIsr
  BY <1>4 DEF HangupIsr, Line!HungUp, TypeInv
<1>5. CASE ReadKey
  BY <1>5 DEF ReadKey, TwoHashes
<1>6. CASE Reply
  BY <1>6 DEF Reply, TwoHashes, Route
<1>7. CASE Goodbye
  BY <1>7 DEF Goodbye, Route
<1>8. CASE DropFlag
  BY <1>8 DEF DropFlag, Route
<1>9. CASE StoreKey
  BY <1>9 DEF StoreKey
<1>10. CASE UNCHANGED vars
  BY <1>10 DEF vars
<1> QED
  BY <1>1, <1>2, <1>3, <1>4, <1>5, <1>6, <1>7, <1>8, <1>9, <1>10, StepKinds
  DEF OtherSteps, KeyHandler, Caller

-----------------------------------------------------------------------------
(* Keys, and the goodbye                                                    *)

(* What main() has done it does not do again. *)
LEMMA AheadShrinks ==
  ASSUME TypeInv, ScriptInv, OpenInv, [Next]_vars
  PROVE  /\ program' = program
         /\ \A s : Ahead(s)' => Ahead(s)
         /\ \A s : Ahead(s) /\ ~Ahead(s)' =>
              todo # <<>> /\ Head(todo) = s /\ (OpenSteps \/ PassSteps \/ Join)
<1>1. CASE OpenSteps \/ PassSteps \/ Join
  BY <1>1, MainMoves
<1>2. CASE CloseSteps \/ OtherSteps \/ UNCHANGED vars
  <2>1. todo' = todo /\ program' = program
    BY <1>2, OthersLeaveMain DEF CloseSteps, StopTts, DetachDtmf, DetachDaa, vars, mains
  <2> QED
    BY <2>1 DEF Ahead
<1> QED
  BY <1>1, <1>2, StepKinds

(* tts-demo opens no decoder. *)
LEMMA NoKeysInTtsDemo ==
  ASSUME TypeInv, ScriptInv, OpenInv, "dtmf" \in opened
  PROVE  program # "ttsDemo"
<1> SUFFICES ASSUME program = "ttsDemo" PROVE FALSE
  OBVIOUS
<1>1. /\ Len(TtsDemo) = 3
      /\ TtsDemo[1] = "openTts" /\ TtsDemo[2] = "say" /\ TtsDemo[3] = "closeTts"
  BY DEF TtsDemo
<1>2. Script[program] = TtsDemo
  BY DEF Script
<1>3. PICK i \in 1 .. Len(todo) : todo[i] = "closeDtmf"
  BY DEF OpenInv, Closing, Ahead, Contains
<1>4. PICK k \in Nat : Len(todo) + k = 3 /\ \A j \in 1 .. Len(todo) : todo[j] = TtsDemo[k + j]
  BY <1>1, <1>2 DEF ScriptInv
<1>5. Len(todo) \in Nat
  BY DEF ScriptInv
<1>6. k + i \in {1, 2, 3} /\ TtsDemo[k + i] = "closeDtmf"
  BY <1>3, <1>4, <1>5
<1> QED
  BY <1>1, <1>6

LEMMA KeyStep == TypeInv /\ ScriptInv /\ OpenInv /\ KeyInv /\ [Next]_vars => KeyInv'
<1> SUFFICES ASSUME TypeInv, ScriptInv, OpenInv, KeyInv, [Next]_vars PROVE KeyInv'
  OBVIOUS
<1>1. ASSUME seized', program' # "ttsDemo" PROVE Ahead("openDaa")' \/ ~Ahead("openTts")'
  <2>1. CASE OpenSteps
    <3>1. Head(todo) # "openDaa" /\ seized' = seized
      BY <1>1, <2>1 DEF OpenSteps, Opens, AtStep, Line!Open
    <3> QED
      BY <1>1, <3>1, AheadShrinks DEF KeyInv
  <2>2. CASE PassSteps \/ Join
    <3>1. seized' = seized
      BY <2>2 DEF PassSteps, MainSays, Wait, Join
    <3>2. Head(todo) # "openDaa"
      <4>1. PassSteps => Head(todo) # "openDaa"
        BY DEF PassSteps, MainSays, Wait, AtStep
      <4>2. Join => joining \in Objects /\ Head(todo) = Closing[joining]
        BY DEF Join, Joined, Objects, OpenInv, None
      <4> QED
        BY <2>2, <4>1, <4>2 DEF Objects, Closing
    <3> QED
      BY <1>1, <3>1, <3>2, AheadShrinks DEF KeyInv
  <2>3. CASE DetachDaa
    <3>1. todo # <<>> /\ Head(todo) = "closeDaa"
      BY <2>3 DEF DetachDaa, AtStep
    <3> QED
      BY <3>1, Tails, AheadShrinks
  <2>4. CASE Answer
    <3>1. ~Ahead("openTts")
      BY <2>4 DEF Answer, Ready, Ahead
    <3> QED
      BY <3>1, AheadShrinks
  <2>5. CASE RingHangs \/ BusyTone
    BY <1>1, <2>5 DEF RingHangs, BusyTone, Line!Hook, Line!HangUp
  <2>6. CASE \/ StopTts \/ DetachDtmf \/ RingHandler \/ HangupIsr \/ KeyHandler \/ Parser
             \/ FailEngine \/ (\E k \in Key : Press(k)) \/ UNCHANGED vars
    <3>1. seized' = seized /\ todo' = todo
      <4>1. CASE StopTts \/ DetachDtmf
        BY <4>1 DEF StopTts, DetachDtmf
      <4>2. CASE \/ RingHandler \/ HangupIsr \/ Parser \/ FailEngine
                 \/ \E k \in Key : Press(k)
        BY <4>2 DEF RingHandler, Welcome, HangupIsr, Parser, Speak, FindNothing, PollFlag,
                    FailEngine, Press, mains
      <4>3. CASE KeyHandler
        BY <4>3 DEF KeyHandler, ReadKey, Reply, Goodbye, DropFlag, StoreKey, mains
      <4>4. CASE UNCHANGED vars
        BY <4>4 DEF vars, mains
      <4> QED
        BY <2>6, <4>1, <4>2, <4>3, <4>4
    <3>2. program' = program
      BY AheadShrinks
    <3> QED
      BY <1>1, <3>1, <3>2 DEF KeyInv, Ahead
  <2> QED
    BY <2>1, <2>2, <2>3, <2>4, <2>5, <2>6, StepKinds DEF CloseSteps, OtherSteps, Caller
<1>2. ASSUME keys' # <<>> \/ keyPc' # "idle"
      PROVE  ~Ahead("openTts")' /\ program' # "ttsDemo"
  <2>1. CASE keys # <<>> \/ keyPc # "idle"
    BY <2>1, AheadShrinks DEF KeyInv
  <2>2. CASE seized /\ "dtmf" \in opened
    BY <2>2, NoKeysInTtsDemo, AheadShrinks DEF KeyInv, OpenInv
  <2> QED
    BY <1>2, <2>1, <2>2, KeySteps
<1> QED
  BY <1>1, <1>2 DEF KeyInv

LEMMA WaitStep == TypeInv /\ ScriptInv /\ OpenInv /\ WaitInv /\ [Next]_vars => WaitInv'
<1> SUFFICES ASSUME TypeInv, ScriptInv, OpenInv, WaitInv, [Next]_vars,
                    program = "piphonsDemo"
             PROVE  /\ ~Ahead("wait")' => ~loop'
                    /\ ~Ahead("openTts")' => "tts" \in opened' \/ ~Ahead("wait")'
  BY AheadShrinks DEF WaitInv
<1>1. ~loop => ~loop'
  <2>1. CASE OpenSteps \/ PassSteps \/ CloseSteps \/ Join
    BY <2>1 DEF OpenSteps, PassSteps, CloseSteps, Opens, MainSays, Wait, StopTts, DetachDtmf,
                DetachDaa, Join
  <2>2. CASE OtherSteps
    BY <2>2 DEF OtherSteps, RingHandler, Welcome, HangupIsr, KeyHandler, ReadKey, Reply, Goodbye,
                DropFlag, StoreKey, Parser, Speak, FindNothing, PollFlag, FailEngine, Caller,
                Answer, RingHangs, BusyTone, Press
  <2>3. CASE UNCHANGED vars
    BY <2>3 DEF vars
  <2> QED
    BY <2>1, <2>2, <2>3, StepKinds
<1>2. ASSUME Ahead("wait"), ~Ahead("wait")' PROVE ~loop
  <2>1. todo # <<>> /\ Head(todo) = "wait" /\ (OpenSteps \/ PassSteps \/ Join)
    BY <1>2, AheadShrinks
  <2>2. ~OpenSteps /\ ~MainSays
    BY <2>1 DEF OpenSteps, Opens, MainSays, AtStep
  <2>3. ~Join
    <3> SUFFICES ASSUME Join PROVE FALSE
      OBVIOUS
    <3>1. joining \in Objects /\ Head(todo) = Closing[joining]
      BY DEF Join, Joined, Objects, OpenInv, None
    <3> QED
      BY <2>1, <3>1 DEF Objects, Closing
  <2> QED
    BY <2>1, <2>2, <2>3 DEF PassSteps, Wait
<1>3. ASSUME Ahead("openTts"), ~Ahead("openTts")' PROVE "tts" \in opened'
  <2>1. todo # <<>> /\ Head(todo) = "openTts" /\ (OpenSteps \/ PassSteps \/ Join)
    BY <1>3, AheadShrinks
  <2>2. ~PassSteps
    BY <2>1 DEF PassSteps, MainSays, Wait, AtStep
  <2>3. ~Join
    <3> SUFFICES ASSUME Join PROVE FALSE
      OBVIOUS
    <3>1. joining \in Objects /\ Head(todo) = Closing[joining]
      BY DEF Join, Joined, Objects, OpenInv, None
    <3> QED
      BY <2>1, <3>1 DEF Objects, Closing
  <2> QED
    BY <2>1, <2>2, <2>3 DEF OpenSteps, Opens, AtStep
<1>4. ASSUME "tts" \in opened, "tts" \notin opened' PROVE ~Ahead("wait")'
  <2>1. Join /\ joining = "tts"
    <3>1. ~OpenSteps /\ ~PassSteps /\ ~StopTts
      BY <1>4 DEF OpenSteps, PassSteps, Opens, MainSays, Wait, StopTts
    <3>2. ~DetachDtmf /\ ~DetachDaa
      BY <1>4 DEF DetachDtmf, DetachDaa
    <3>3. ~OtherSteps /\ ~UNCHANGED vars
      BY <1>4, OthersLeaveMain DEF vars, mains
    <3>4. Join
      BY <3>1, <3>2, <3>3, StepKinds DEF CloseSteps
    <3> QED
      BY <1>4, <3>4 DEF Join
  <2>2. todo # <<>> /\ Head(todo) = "closeTts"
    BY <2>1 DEF OpenInv, Closing, None
  <2> QED
    BY <2>1, <2>2, Tails, MainMoves
<1> QED
  BY <1>1, <1>2, <1>3, <1>4, AheadShrinks DEF WaitInv

LEMMA FarewellStep ==
  TypeInv /\ ReasonInv /\ KeyInv /\ WaitInv /\ FarewellInv /\ [Next]_vars => FarewellInv'
<1> SUFFICES ASSUME TypeInv, ReasonInv, KeyInv, WaitInv, FarewellInv, [Next]_vars
             PROVE  FarewellInv'
  OBVIOUS
<1>1. program' = program
  BY OthersLeaveMain, StepKinds
  DEF OpenSteps, PassSteps, CloseSteps, Opens, MainSays, Wait, StopTts, DetachDtmf, DetachDaa, Join,
      vars, mains
<1>2. Speaks' <=> Speaks
  BY <1>1 DEF Speaks
<1>3. Speaks <=> program \in {"piphonsDemo", "ttsDemo"}
  <2>1. program \in {"piphonsDemo", "dtmfDemo", "daaDemo", "ttsDemo"}
    BY DEF TypeInv, Script
  <2>2. PiphonsDemo[3] = "openTts" /\ Len(PiphonsDemo) = 7
    BY DEF PiphonsDemo
  <2>3. TtsDemo[1] = "openTts" /\ Len(TtsDemo) = 3
    BY DEF TtsDemo
  <2>4. /\ Len(DtmfDemo) = 5 /\ DtmfDemo[1] = "openDaa" /\ DtmfDemo[2] = "openDtmf"
        /\ DtmfDemo[3] = "wait" /\ DtmfDemo[4] = "closeDaa" /\ DtmfDemo[5] = "closeDtmf"
    BY DEF DtmfDemo
  <2>5. /\ Len(DaaDemo) = 3
        /\ DaaDemo[1] = "openDaa" /\ DaaDemo[2] = "wait" /\ DaaDemo[3] = "closeDaa"
    BY DEF DaaDemo
  <2>6. /\ \A i \in 1 .. 5 : i \in {1, 2, 3, 4, 5}
        /\ \A i \in 1 .. 3 : i \in {1, 2, 3}
    OBVIOUS
  <2>7. CASE program = "piphonsDemo"
    <3>1. Script[program] = PiphonsDemo
      BY <2>7 DEF Script
    <3> QED
      BY <2>2, <2>7, <3>1 DEF Speaks, Contains
  <2>8. CASE program = "ttsDemo"
    <3>1. Script[program] = TtsDemo
      BY <2>8 DEF Script
    <3> QED
      BY <2>3, <2>8, <3>1 DEF Speaks, Contains
  <2>9. CASE program = "dtmfDemo"
    <3>1. Script[program] = DtmfDemo
      BY <2>9 DEF Script
    <3> QED
      BY <2>4, <2>6, <2>9, <3>1 DEF Speaks, Contains
  <2>10. CASE program = "daaDemo"
    <3>1. Script[program] = DaaDemo
      BY <2>10 DEF Script
    <3> QED
      BY <2>5, <2>6, <2>10, <3>1 DEF Speaks, Contains
  <2> QED
    BY <2>1, <2>7, <2>8, <2>9, <2>10
<1> DEFINE Still == /\ keyPc' = keyPc /\ loop' = loop /\ farewell' = farewell
                    /\ reasons \subseteq reasons'
<1>4. CASE Still
  BY <1>2, <1>4 DEF FarewellInv
<1> USE DEF keyIsr, histories
<1>5. CASE OpenSteps \/ PassSteps \/ CloseSteps \/ Join
  <2>1. Still
    <3>1. CASE OpenSteps \/ MainSays \/ CloseSteps \/ Join
      BY <3>1 DEF OpenSteps, CloseSteps, Opens, MainSays, StopTts, DetachDtmf, DetachDaa, Join
    <3>2. CASE Wait
      BY <3>2 DEF Wait
    <3> QED
      BY <1>5, <3>1, <3>2 DEF PassSteps
  <2> QED
    BY <1>4, <2>1
<1>6. CASE RingHandler \/ Parser \/ FailEngine \/ Caller
  <2>1. Still
    <3>1. CASE RingHandler \/ Parser \/ FailEngine
      BY <3>1 DEF RingHandler, Welcome, Parser, Speak, FindNothing, PollFlag, FailEngine
    <3>2. CASE Caller
      BY <3>2 DEF Caller, Answer, RingHangs, BusyTone, Press
    <3> QED
      BY <1>6, <3>1, <3>2
  <2> QED
    BY <1>4, <2>1
<1>7. CASE HangupIsr
  <2>1. "tone" \in reasons
    BY <1>7 DEF HangupIsr, Line!HungUp, ReasonInv
  <2>2. keyPc' = keyPc /\ farewell' = farewell /\ reasons' = reasons
    BY <1>7 DEF HangupIsr
  <2> QED
    BY <1>2, <2>1, <2>2 DEF FarewellInv
<1>8. CASE ReadKey
  <2>1. /\ keyPc' # "goodbye" /\ (Speaks <=> keyPc' = "reply") /\ (Speaks => keyPc' # "drop")
        /\ loop' = loop /\ farewell' = farewell /\ reasons \subseteq reasons'
    BY <1>8 DEF ReadKey
  <2> QED
    BY <1>2, <2>1 DEF FarewellInv
<1>9. CASE Reply
  <2>1. /\ keyPc' \in {"goodbye", "store"} /\ keyPc = "reply"
        /\ loop' = loop /\ farewell' = farewell /\ reasons' = reasons
    BY <1>9 DEF Reply, Route
  <2>2. Speaks
    BY <2>1 DEF FarewellInv
  <2> QED
    BY <1>2, <2>1, <2>2 DEF FarewellInv
<1>10. CASE Goodbye
  <2>1. /\ keyPc = "goodbye" /\ keyPc' = "drop" /\ loop' = loop /\ reasons' = reasons
        /\ farewell' = IF farewell # None THEN farewell
                       ELSE IF "tts" \in opened THEN "queued" ELSE "refused"
    BY <1>10 DEF Goodbye, Route
  <2>2. Speaks /\ program = "piphonsDemo" /\ ~Ahead("openTts")
    BY <1>3, <2>1 DEF FarewellInv, KeyInv
  <2>3. "tts" \in opened \/ ~loop
    BY <2>2 DEF WaitInv
  <2>4. farewell' = "refused" => "tone" \in reasons
    BY <2>1, <2>2, <2>3 DEF FarewellInv, None
  <2>5. farewell' # None
    BY <2>1 DEF None
  <2> QED
    BY <1>2, <2>1, <2>4, <2>5 DEF FarewellInv
<1>11. CASE DropFlag
  BY <1>2, <1>11 DEF DropFlag, Route, FarewellInv
<1>12. CASE StoreKey
  BY <1>2, <1>12 DEF StoreKey, FarewellInv
<1>13. CASE UNCHANGED vars
  BY <1>4, <1>13 DEF vars
<1> QED
  BY <1>5, <1>6, <1>7, <1>8, <1>9, <1>10, <1>11, <1>12, <1>13, StepKinds DEF OtherSteps, KeyHandler

-----------------------------------------------------------------------------
LEMMA Inductive == Spec => []IInv
<1>1. Init => IInv
  <2> SUFFICES ASSUME Init PROVE IInv
    OBVIOUS
  <2>1. program \in DOMAIN Script /\ todo = Script[program] /\ opened = {} /\ joining = None
    BY ServerAssumption DEF Init
  <2>2. /\ Script[program] \in Seq(Steps) /\ Len(Script[program]) \in 1 .. 7
        /\ Closes(Script[program])
    BY <2>1, Programmed
  <2>3. keys = <<>> /\ got = None /\ prev = None /\ keyPc = "idle"
    BY DEF Init, Keys!Init
  <2>4. TypeInv
    <3>1. ring = 0 /\ tone = FALSE /\ parser = "none" /\ farewell = None
      BY DEF Init, Line!Init
    <3>2. keys \in Seq(Key) /\ got \in Key \cup {None} /\ keyPc = "idle"
      BY <2>3
    <3> QED
      BY <2>1, <3>1, <3>2 DEF TypeInv
  <2>5. ScriptInv
    <3>1. 0 \in Nat /\ \A i \in 1 .. Len(todo) : 0 + i = i
      OBVIOUS
    <3>2. Len(todo) + 0 = Len(Script[program]) /\ \A i \in 1 .. Len(todo) :
                                                     todo[i] = Script[program][0 + i]
      BY <2>1, <2>2, <3>1
    <3> QED
      BY <2>1, <2>2, <3>1, <3>2 DEF ScriptInv
  <2>6. OpenInv /\ ThreadInv
    BY <2>1, <2>3 DEF Init, OpenInv, ThreadInv
  <2>7. ReasonInv
    BY <2>3 DEF Init, ReasonInv
  <2>8. \A p \in DOMAIN Script :
          p = "piphonsDemo" \/ p = "dtmfDemo" \/ p = "daaDemo" \/ p = "ttsDemo"
    BY DEF Script
  <2>9. program # "ttsDemo" => Ahead("openDaa")
    <3> SUFFICES ASSUME program # "ttsDemo" PROVE todo[1] = "openDaa"
      BY <2>1, <2>2 DEF Ahead, Contains
    <3> QED
      BY <2>1, <2>8 DEF Script, PiphonsDemo, DtmfDemo, DaaDemo
  <2>10. program = "piphonsDemo" => Ahead("wait") /\ Ahead("openTts")
    <3> SUFFICES ASSUME program = "piphonsDemo"
                 PROVE  Len(todo) = 7 /\ todo[3] = "openTts" /\ todo[4] = "wait"
      BY DEF Ahead, Contains
    <3> QED
      BY <2>1 DEF Script, PiphonsDemo
  <2>11. KeyInv /\ WaitInv
    BY <2>3, <2>9, <2>10 DEF KeyInv, WaitInv
  <2>12. FarewellInv
    BY <2>3 DEF Init, FarewellInv, None
  <2> QED
    BY <2>4, <2>5, <2>6, <2>7, <2>11, <2>12 DEF IInv
<1>2. IInv /\ [Next]_vars => IInv'
  BY TypeStep, ScriptStep, OpenStep, ThreadStep, ReasonStep, KeyStep, WaitStep, FarewellStep
  DEF IInv
<1> QED
  BY <1>1, <1>2, PTL DEF Spec

(* The flag that main() waits for drops only when a busy tone has been     *)
(* heard, or keyIsr has read two # one after the other, whatever calls     *)
(* come and keys are pressed.                                              *)
THEOREM EndsForAReason == Spec => []EndsOnlyWhenAsked
<1>1. IInv => EndsOnlyWhenAsked
  BY DEF IInv, ReasonInv, EndsOnlyWhenAsked
<1> QED
  BY <1>1, Inductive, PTL

(* When two # end the server, the goodbye has been queued: main() has not  *)
(* closed the speech service before keyIsr said it.                        *)
THEOREM GoodbyeSaid == Spec => []GoodbyeBeforeEnd
<1>1. IInv => GoodbyeBeforeEnd
  <2> SUFFICES ASSUME IInv, Speaks, ~loop, reasons = {"hashes"} PROVE farewell = "queued"
    BY DEF GoodbyeBeforeEnd
  <2>1. "tone" \notin reasons
    OBVIOUS
  <2> QED
    BY <2>1 DEF IInv, FarewellInv, TypeInv
<1> QED
  BY <1>1, Inductive, PTL

(* When main() of any of the programs returns, everything is closed, no    *)
(* handler runs and the parser has ended.                                  *)
THEOREM NothingRunsAtReturn == Spec => []QuietAtReturn
<1>1. IInv => QuietAtReturn
  <2> SUFFICES ASSUME IInv, todo = <<>>
               PROVE  /\ opened = {} /\ parser \in {"none", "ended"}
                      /\ ring = 0 /\ ~tone /\ keyPc = "idle"
    BY DEF QuietAtReturn
  <2>1. opened = {} /\ joining = None
    BY DEF IInv, OpenInv, Ahead, Contains
  <2> QED
    BY <2>1 DEF IInv, ThreadInv, TypeInv, None
<1> QED
  BY <1>1, Inductive, PTL

-----------------------------------------------------------------------------
(* The line, as the programs use it *)

Live      == "daa" \in opened \/ joining = "daa"
Answering == ring > 0

LineMoves == Line!Next \/ UNCHANGED <<Live, seized, Answering, tone>>

LEMMA MainUsesLine ==
  ASSUME TypeInv, seized \in BOOLEAN, OpenSteps \/ PassSteps \/ CloseSteps \/ Join
  PROVE  LineMoves /\ seized' \in BOOLEAN
<1> USE DEF Objects, None
<1>1. CASE Opens("openDaa", "daa")
  BY <1>1 DEF Opens, LineMoves, Line!Next, Line!Open
<1>2. CASE \/ Opens("openDtmf", "dtmf") \/ Opens("openTts", "tts")
           \/ PassSteps \/ StopTts \/ DetachDtmf
  <2>1. UNCHANGED <<Live, seized, ring, tone>>
    BY <1>2 DEF Opens, PassSteps, MainSays, Wait, StopTts, DetachDtmf, AtStep, Live, mains
  <2> QED
    BY <2>1 DEF LineMoves, Answering
<1>3. CASE DetachDaa
  BY <1>3 DEF DetachDaa, LineMoves, Line!Next, Line!Hook, Line!Answer
<1>4. CASE Join
  <2>1. UNCHANGED <<seized, ring, tone>>
    BY <1>4 DEF Join
  <2>2. CASE joining = "daa"
    <3>1. ring = 0 /\ ~tone /\ ~Live'
      BY <1>4, <2>2 DEF Join, Joined, Live
    <3>2. Line!Close
      BY <2>1, <2>2, <3>1 DEF Line!Close, Live
    <3> QED
      BY <2>1, <3>2 DEF LineMoves, Line!Next
  <2>3. CASE joining # "daa"
    <3>1. Live' <=> Live
      BY <1>4, <2>3 DEF Join, Live
    <3> QED
      BY <2>1, <3>1 DEF LineMoves, Answering, Live
  <2> QED
    BY <2>2, <2>3
<1> QED
  BY <1>1, <1>2, <1>3, <1>4 DEF OpenSteps, CloseSteps

LEMMA OthersUseLine ==
  ASSUME TypeInv, seized \in BOOLEAN, OtherSteps
  PROVE  LineMoves /\ seized' \in BOOLEAN
<1>1. UNCHANGED Live
  BY OthersLeaveMain DEF Live
<1>2. CASE Welcome
  <2>1. UNCHANGED <<seized, tone>> /\ ring > 0 /\ ring' \in Nat
    BY <1>2 DEF Welcome, TypeInv
  <2>2. CASE ring' = 0
    <3>1. Line!Answered
      BY <1>1, <2>1, <2>2 DEF Line!Answered, Live
    <3> QED
      BY <2>1, <3>1 DEF LineMoves, Line!Next
  <2>3. CASE ring' # 0
    BY <1>1, <2>1, <2>3 DEF LineMoves, Answering
  <2> QED
    BY <2>2, <2>3
<1>3. CASE HangupIsr
  BY <1>3 DEF HangupIsr, LineMoves, Line!Next, Line!HungUp
<1>4. CASE Answer \/ RingHangs \/ BusyTone
  BY <1>4
  DEF Answer, RingHangs, BusyTone, LineMoves, Line!Next, Line!Answer, Line!Hook, Line!HangUp
<1>5. CASE KeyHandler \/ Parser \/ FailEngine \/ \E k \in Key : Press(k)
  <2>1. UNCHANGED <<seized, ring, tone>>
    BY <1>5 DEF KeyHandler, ReadKey, Reply, Goodbye, DropFlag, StoreKey, Parser, Speak, FindNothing,
                PollFlag, FailEngine, Press
  <2> QED
    BY <1>1, <2>1 DEF LineMoves, Answering
<1> QED
  BY <1>2, <1>3, <1>4, <1>5 DEF OtherSteps, RingHandler, Caller

(* The programs move the line only as the line interface allows: main()    *)
(* leaves close() when no handler of the line runs, and nothing moves the  *)
(* hook before open() or after that.  With LineKept of LineProofs, what is *)
(* shown of the programs holds for the line interface there is.            *)
THEOREM LineUsed == Spec => Line!Spec
<1> DEFINE Hooked == seized \in BOOLEAN
<1>1. Init => Line!Init /\ Hooked
  BY DEF Init, Line!Init, None
<1>2. IInv /\ Hooked /\ [Next]_vars
        => /\ [Line!Next]_<<"daa" \in opened \/ joining = "daa", seized, ring > 0, tone>>
           /\ Hooked'
  <2> SUFFICES ASSUME TypeInv, Hooked, [Next]_vars PROVE LineMoves /\ Hooked'
    BY DEF IInv, LineMoves, Live, Answering
  <2>1. CASE UNCHANGED vars
    BY <2>1 DEF vars, mains, LineMoves, Live, Answering
  <2> QED
    BY <2>1, StepKinds, MainUsesLine, OthersUseLine
<1> HIDE DEF Hooked
<1>3. Spec => []Hooked
  BY <1>1, <1>2, Inductive, PTL DEF Spec
<1> QED
  BY <1>1, <1>2, <1>3, Inductive, PTL DEF Spec, Line!Spec
-----------------------------------------------------------------------------
(* The keys and the texts, as the programs use them *)

KeysMove  == Keys!Next \/ UNCHANGED <<keys, got>>
TextsMove == Texts!Next \/ UNCHANGED <<texts, spoken>>

(* A stage that takes an item has it last. *)
LEMMA AcceptsKey ==
  ASSUME keys \in Seq(Key), NEW k \in Key, Keys!Accept(k)
  PROVE  Keys!Next
<1>1. keys' # <<>> /\ keys'[Len(keys')] = k
  BY AppendProperties DEF Keys!Accept
<1> QED
  BY <1>1 DEF Keys!Next, Keys!AcceptItem

LEMMA SaysText ==
  ASSUME texts \in Seq(Text), NEW t \in Text, Say(t)
  PROVE  TextsMove /\ texts' \in Seq(Text)
<1>1. CASE Texts!Accept(t)
  <2>1. texts' \in Seq(Text) /\ texts' # <<>> /\ texts'[Len(texts')] = t
    BY <1>1, AppendProperties DEF Texts!Accept
  <2> QED
    BY <1>1, <2>1 DEF TextsMove, Texts!Next, Texts!AcceptItem
<1>2. CASE UNCHANGED textStage
  BY <1>2 DEF textStage, TextsMove
<1> QED
  BY <1>1, <1>2 DEF Say

LEMMA KeysStep == TypeInv /\ [Next]_vars => KeysMove
<1> SUFFICES ASSUME TypeInv, [Next]_vars PROVE KeysMove
  OBVIOUS
<1>1. CASE UNCHANGED keyStage
  BY <1>1 DEF keyStage, KeysMove
<1>2. CASE DetachDtmf
  BY <1>2 DEF DetachDtmf, KeysMove, Keys!Next
<1>3. CASE ReadKey
  BY <1>3 DEF ReadKey, KeysMove, Keys!Next
<1>4. CASE \E k \in Key : Press(k)
  BY <1>4, AcceptsKey DEF Press, TypeInv, KeysMove
<1>5. CASE OpenSteps \/ PassSteps \/ StopTts \/ DetachDaa \/ Join
  BY <1>1, <1>5 DEF OpenSteps, PassSteps, Opens, MainSays, Wait, StopTts, DetachDaa, Join
<1>6. CASE OtherSteps /\ ~ReadKey /\ ~\E k \in Key : Press(k)
  BY <1>1, <1>6
  DEF OtherSteps, RingHandler, Welcome, HangupIsr, KeyHandler, Reply, Goodbye, DropFlag,
      StoreKey, Parser, Speak, FindNothing, PollFlag, FailEngine, Caller, Answer, RingHangs,
      BusyTone
<1>7. CASE UNCHANGED vars
  BY <1>1, <1>7 DEF vars
<1> QED
  BY <1>2, <1>3, <1>4, <1>5, <1>6, <1>7, StepKinds DEF CloseSteps

LEMMA TextsStep == texts \in Seq(Text) /\ [Next]_vars => TextsMove /\ texts' \in Seq(Text)
<1> SUFFICES ASSUME texts \in Seq(Text), [Next]_vars
             PROVE  TextsMove /\ texts' \in Seq(Text)
  OBVIOUS
<1>1. CASE UNCHANGED textStage
  BY <1>1 DEF textStage, TextsMove
<1>2. CASE MainSays \/ Welcome \/ Reply \/ Goodbye
  <2>1. UNCHANGED textStage \/ \E t \in Text : Say(t)
    BY <1>2 DEF MainSays, Welcome, Reply, Goodbye, Text
  <2> QED
    BY <1>1, <2>1, SaysText
<1>3. CASE Speak
  <2>1. Texts!Deliver
    BY <1>3 DEF Speak
  <2>2. texts' \in Seq(Text)
    BY <2>1 DEF Texts!Deliver
  <2> QED
    BY <2>1, <2>2 DEF TextsMove, Texts!Next
<1>4. CASE OpenSteps \/ Wait \/ CloseSteps \/ Join
  BY <1>1, <1>4 DEF OpenSteps, Opens, Wait, CloseSteps, StopTts, DetachDtmf, DetachDaa, Join
<1>5. CASE OtherSteps /\ ~Welcome /\ ~Reply /\ ~Goodbye /\ ~Speak
  BY <1>1, <1>5
  DEF OtherSteps, RingHandler, HangupIsr, KeyHandler, ReadKey, DropFlag, StoreKey, Parser,
      FindNothing, PollFlag, FailEngine, Caller, Answer, RingHangs, BusyTone, Press
<1>6. CASE UNCHANGED vars
  BY <1>1, <1>6 DEF vars
<1> QED
  BY <1>2, <1>3, <1>4, <1>5, <1>6, StepKinds DEF PassSteps

(* Whatever ends first, the handler or the service that it speaks through, *)
(* keys and texts move as the decoder and the speech service are shown to  *)
(* move them: with KeysDelivered and TextsDelivered, what is shown of the  *)
(* programs holds for the stages there are.                                *)
THEOREM StagesUsed == Spec => Keys!Spec /\ Texts!Spec
<1> DEFINE Queued == texts \in Seq(Text)
<1>1. Init => Keys!Init /\ Texts!Init /\ Queued
  BY DEF Init, Texts!Init
<1>2. IInv /\ Queued /\ [Next]_vars
        => /\ [Keys!Next]_<<keys, got>> /\ [Texts!Next]_<<texts, spoken>>
           /\ Queued'
  BY KeysStep, TextsStep DEF IInv, KeysMove, TextsMove
<1> HIDE DEF Queued
<1>3. Spec => []Queued
  BY <1>1, <1>2, Inductive, PTL DEF Spec
<1> QED
  BY <1>1, <1>2, <1>3, Inductive, PTL DEF Spec, Keys!Spec, Texts!Spec
=============================================================================
