------------------------------- MODULE Engine -------------------------------
(***************************************************************************)
(* The speech engine, class Piphons::Tts::Engine (src/tts_engine.cpp), and *)
(* the sound player it drives, Piphons::Tts::Player (src/tts_player.cpp).  *)
(*                                                                         *)
(* One thread uses an engine, the parser of the speech service.  Between   *)
(* it and the sound stand two libraries, Pico and ALSA, any call of which  *)
(* may fail; a step of the model is a call of one of them.                 *)
(*                                                                         *)
(* open() acquires in nine steps what a Pico engine needs, and releases    *)
(* what it has got when a step fails.  play() feeds the text to Pico and   *)
(* moves the samples it returns through a buffer to the player.            *)
(*                                                                         *)
(* Samples are numbered in the order in which Pico returns them during one *)
(* call of play().  "lost" and "opens" are histories of one engine object, *)
(* "fed" is how far the pointer p of process() has moved.                  *)
(*                                                                         *)
(* A definition whose comment begins with "Mistake:" is used by no action: *)
(* it is the one after it as a plausible bug would make it.                *)
(***************************************************************************)
EXTENDS Voices, Markup

CONSTANTS
  Requests,     (* the voices that open() is asked for                    *)
  TextSizes,    (* lengths of the texts given to write()                  *)
  BufferSize,   (* of the buffer of process(), 256 in the program         *)
  MaxSamples    (* Pico returns no more than this in one call of play()   *)

ASSUME TextAssumption == TextSizes \subseteq Nat

ASSUME BufferAssumption ==
  /\ BufferSize \in Nat /\ BufferSize >= 2
  /\ MaxSamples \in Nat

VARIABLES
  voice,      (* the voice to open with, or the null pointer              *)
  held,       (* the fields that are not 0: system, taResource,           *)
              (* sgResource, engine                                       *)
  pico,       (* what is alive in Pico                                    *)
  blocks,     (* the fields with a block from malloc(): memory,           *)
              (* taResourceName, sgResourceName                           *)
  lost,       (* those that had one that no field points to any more      *)
  opens,      (* how often open() has run on this engine, 2 for more      *)
  handle,     (* is the sound device open?                                *)
  size,       (* of text2speech                                           *)
  call,       (* the call in progress                                     *)
  pc,         (* where it is                                              *)
  step,       (* the step of open() that comes next                       *)
  answer,     (* what the last call of open() or play() returned          *)
  remaining,  (* locals of process(): text_remaining,                     *)
  fed,        (* the bytes that p has passed,                             *)
  buffer,     (* the samples in the buffer,                               *)
  retrieved,  (* the number of samples returned by Pico so far            *)
  chunk,      (* the size of the last lot of them                         *)
  busy,       (* has Pico more?                                           *)
  played,     (* samples the device has taken during this play()          *)
  whole       (* has it taken all that was written?                       *)

known   == <<registry, voice>>
library == <<held, pico>>
heap    == <<blocks, lost, opens>>
speech  == <<remaining, fed, buffer, retrieved, chunk, busy, played, whole>>
vars    == <<registry, voice, library, heap, handle, size, call, pc, step,
             answer, speech>>
(* What process() leaves alone from one end of its loop to the other. *)
outside == <<known, library, heap, handle, size, call, step, answer>>

(* The calls of open() in their order, and what each brings into being. *)
Ladder == <<"initialize", "loadTa", "loadSg", "nameTa", "nameSg", "define",
            "addTa", "addSg", "newEngine">>

Gain(s) == CASE s = "initialize" -> {"system"}
             [] s = "loadTa"     -> {"ta"}
             [] s = "loadSg"     -> {"sg"}
             [] s = "define"     -> {"definition"}
             [] s = "newEngine"  -> {"engine"}
             [] OTHER            -> {}

(* The field that gets a block before the call. *)
Blocks == {"memory", "taName", "sgName"}
Block(s) == CASE s = "initialize" -> {"memory"}
              [] s = "nameTa"     -> {"taName"}
              [] s = "nameSg"     -> {"sgName"}
              [] OTHER            -> {}

Init ==
  /\ RegistryInit
  /\ voice = NoVoice
  /\ held = {} /\ pico = {}
  /\ blocks = {} /\ lost = {} /\ opens = 0
  /\ handle = FALSE
  /\ size = 0
  /\ call = "none" /\ pc = "unborn" /\ step = 1 /\ answer = "none"
  /\ remaining = 0 /\ fed = 0
  /\ buffer = <<>> /\ retrieved = 0 /\ chunk = 0 /\ busy = FALSE
  /\ played = <<>> /\ whole = TRUE

IsOpen == "engine" \in held

(* The call in progress returns a. *)
Return(a) ==
  /\ call' = "none"
  /\ pc' = "idle"
  /\ answer' = a

-----------------------------------------------------------------------------
(* open(), close() and the destructor                                       *)

(* Before it constructs an engine the application may ask for the voices,   *)
(* and catch what that throws.                                              *)
Consult ==
  /\ pc = "unborn"
  /\ StaticInit \/ Install
  /\ UNCHANGED <<voice, library, heap, handle, size, call, pc, step, answer,
                 speech>>

(* The constructor takes the first voice, "en-US", unless it throws; the   *)
(* application may try again.                                              *)
Construct ==
  /\ pc = "unborn"
  /\ StaticInit
  /\ IF Throws THEN UNCHANGED <<voice, pc>>
               ELSE voice' = Voice(Head(IsoCodes)) /\ pc' = "idle"
  /\ UNCHANGED <<library, heap, handle, size, call, step, answer, speech>>

(* Mistake: open() does not ask whether there is such a voice. *)
AnyVoice(iso) == TRUE
Accepts(iso) == Exists(iso)

(* An unknown voice, or an engine that is open, is refused.  A registry    *)
(* that let the engine be constructed throws no more.                      *)
Open(iso) ==
  /\ pc = "idle"
  /\ StaticInit
  /\ IF ~IsOpen /\ Accepts(iso)
       THEN /\ call' = "open" /\ pc' = "open" /\ voice' = Voice(iso)
            /\ opens' = IF opens = 0 THEN 1 ELSE 2
            /\ UNCHANGED answer
       ELSE answer' = "refused" /\ UNCHANGED <<call, pc, voice, opens>>
  /\ step' = 1
  /\ UNCHANGED <<library, blocks, lost, handle, size, speech>>

(* malloc() before the call of Pico, over what the field pointed to. *)
Allocate ==
  /\ blocks' = blocks \cup Block(Ladder[step])
  /\ lost' = lost \cup (blocks \cap Block(Ladder[step]))
  /\ UNCHANGED opens

Succeed ==
  /\ pc = "open"
  /\ Allocate
  /\ pico' = pico \cup Gain(Ladder[step])
  /\ held' = held \cup (Gain(Ladder[step]) \ {"definition"})
  /\ IF step = Len(Ladder)
       THEN Return("opened") /\ UNCHANGED step
       ELSE step' = step + 1 /\ UNCHANGED <<call, pc, answer>>
  /\ UNCHANGED <<handle, size, speech, known>>

(* Mistake: a resource that is loaded is not unloaded when the next fails. *)
FailedEarly(s) ==
  CASE s \in {"loadTa", "loadSg"} -> "unloadTa"
    [] s = "newEngine"            -> "dispose"
    [] OTHER                      -> "terminate"

(* The label that each failure jumps to. *)
FailedAt(s) ==
  CASE s = "initialize" -> "terminate"
    [] s = "loadTa"     -> "unloadTa"
    [] s = "newEngine"  -> "dispose"
    [] OTHER            -> "unloadSg"

(* open() allows for a system or an engine that is set by a call that fails. *)
Fail ==
  /\ pc = "open"
  /\ Allocate
  /\ \E left \in SUBSET Gain(Ladder[step]) :
       /\ left # {} => Ladder[step] \in {"initialize", "newEngine"}
       /\ pico' = pico \cup left
       /\ held' = held \cup left
  /\ pc' = FailedAt(Ladder[step])
  /\ UNCHANGED <<handle, size, call, step, answer, speech, known>>

Close ==
  /\ pc = "idle"
  /\ IsOpen
  /\ call' = "close"
  /\ pc' = "dispose"
  /\ UNCHANGED <<library, heap, handle, size, step, answer, speech, known>>

(* Mistake: the destructor frees the blocks of an engine that is open. *)
DestroyUnclosed ==
  /\ pc = "idle"
  /\ call' = "destroy"
  /\ pc' = "free"
  /\ UNCHANGED <<library, heap, handle, size, step, answer, speech, known>>

(* The destructor calls close(), which does nothing if it is not open. *)
Destroy ==
  /\ pc = "idle"
  /\ call' = "destroy"
  /\ pc' = IF IsOpen THEN "dispose" ELSE "free"
  /\ UNCHANGED <<library, heap, handle, size, step, answer, speech, known>>

(* The end of open() on failure and close() release alike: what is held    *)
(* when its turn comes.                                                    *)
Release(l, fields, things, next) ==
  /\ pc = l
  /\ IF fields \subseteq held
       THEN held' = held \ fields /\ pico' = pico \ things
       ELSE UNCHANGED library
  /\ pc' = next
  /\ UNCHANGED <<heap, handle, size, call, step, answer, speech, known>>

(* Mistake: a resource is unloaded under the engine. *)
UnloadFirst == Release("dispose", {"sg"}, {"sg"}, "unloadSg")

Dispose  == Release("dispose", {"engine"}, {"engine", "definition"}, "unloadSg")
UnloadSg == Release("unloadSg", {"sg"}, {"sg"}, "unloadTa")
UnloadTa == Release("unloadTa", {"ta"}, {"ta"}, "terminate")

Terminate ==
  /\ pc = "terminate"
  /\ held' = held \ {"system"}
  /\ pico' = IF "system" \in held THEN {} ELSE pico
  /\ IF call = "open"
       THEN Return("failed")
       ELSE pc' = "shut" /\ UNCHANGED <<call, answer>>
  /\ UNCHANGED <<heap, handle, size, step, speech, known>>

(* close() closes the player last. *)
Shut ==
  /\ pc = "shut"
  /\ handle' = FALSE
  /\ IF call = "destroy"
       THEN pc' = "free" /\ UNCHANGED <<call, answer>>
       ELSE Return(answer)
  /\ UNCHANGED <<library, heap, size, step, speech, known>>

(* The blocks are freed with the rest of the engine.  Another one may be   *)
(* constructed.                                                            *)
Free ==
  /\ pc = "free"
  /\ blocks' = {} /\ lost' = {} /\ opens' = 0
  /\ voice' = NoVoice /\ handle' = FALSE /\ size' = 0
  /\ call' = "none" /\ pc' = "unborn"
  /\ UNCHANGED <<library, step, answer, speech, registry>>

-----------------------------------------------------------------------------
(* write(), append() and play()                                             *)

Write(n) ==
  /\ pc = "idle"
  /\ \/ size' = n
     \/ size' = size + n /\ size + n \in TextSizes
  /\ UNCHANGED <<library, heap, handle, call, pc, step, answer, speech, known>>

(* What a pico_Int16 keeps of n, in two's complement. *)
Int16s == {n \in Int : -32768 <= n /\ n < 32768}
Int16(n) == ((n + 32768) % 65536) - 32768

(* The length is that of the text and its final 0. *)
Play ==
  /\ pc = "idle"
  /\ call' = "play"
  /\ pc' = "feed"
  /\ remaining' = Int16(size + 1) /\ fed' = 0
  /\ buffer' = <<>> /\ retrieved' = 0
  /\ played' = <<>> /\ whole' = TRUE
  /\ UNCHANGED <<known, library, heap, handle, size, step, answer, chunk, busy>>

(* Mistake: the last byte of the text is not awaited. *)
AlmostAllFed == remaining <= 1
AllFed == remaining = 0

(* Mistake: the samples are stacked on a buffer that was not emptied. *)
AlwaysFits == TRUE
Fits == Len(buffer) + chunk <= BufferSize

(* The locals of process() end with it. *)
Forget ==
  /\ remaining' = 0 /\ fed' = 0
  /\ buffer' = <<>> /\ retrieved' = 0 /\ chunk' = 0 /\ busy' = FALSE
  /\ played' = <<>> /\ whole' = TRUE

(* Pico or the device fails: process() returns -1 and leaves the rest. *)
GiveUp ==
  /\ pc \in {"feed", "device", "get", "store", "flush"}
  /\ CASE pc = "feed"   -> ~AllFed
       [] pc = "device" -> ~handle
       [] pc = "store"  -> ~Fits
       [] pc = "flush"  -> buffer # <<>>
       [] OTHER         -> TRUE
  /\ Return("failed")
  /\ Forget
  /\ UNCHANGED <<library, heap, handle, size, step, known>>

(* Pico, if it is open, takes some of the text or nothing.  It refuses a   *)
(* negative length.                                                        *)
Feed ==
  /\ pc = "feed"
  /\ ~AllFed
  /\ IsOpen
  /\ \E n \in 0 .. remaining : remaining' = remaining - n /\ fed' = fed + n
  /\ pc' = "device"
  /\ UNCHANGED <<outside, buffer, retrieved, chunk, busy, played, whole>>

OpenDevice ==
  /\ pc = "device"
  /\ handle' = TRUE
  /\ pc' = "get"
  /\ UNCHANGED <<library, heap, size, call, step, answer, speech, known>>

(* Where the loop goes on after the samples in hand. *)
AfterStore(more) == IF more THEN "get" ELSE "flush"

Get(k, more) ==
  /\ pc = "get"
  /\ retrieved + k <= MaxSamples
  /\ retrieved' = retrieved + k
  /\ chunk' = k
  /\ busy' = more
  /\ pc' = IF k > 0 THEN "store" ELSE AfterStore(more)
  /\ UNCHANGED <<outside, remaining, fed, buffer, played, whole>>

NewSamples == [i \in 1 .. chunk |-> retrieved - chunk + i]

Stack ==
  /\ pc = "store"
  /\ Fits
  /\ buffer' = buffer \o NewSamples
  /\ pc' = AfterStore(busy)
  /\ UNCHANGED <<outside, remaining, fed, retrieved, chunk, busy, played, whole>>

(* Player::write succeeds: the device has taken the buffer or, after a     *)
(* short write or one it had to recover from, only the beginning of it.    *)
Send ==
  \/ played' = played \o buffer /\ UNCHANGED whole
  \/ /\ whole' = FALSE
     /\ \E n \in 0 .. Len(buffer) - 1 : played' = played \o SubSeq(buffer, 1, n)

(* Mistake: the samples that did not fit are dropped. *)
Dropped == <<>>
Restacked == NewSamples

SendAndStack ==
  /\ pc = "store"
  /\ ~Fits
  /\ Send
  /\ buffer' = Restacked
  /\ pc' = AfterStore(busy)
  /\ UNCHANGED <<outside, remaining, fed, retrieved, chunk, busy>>

Flush ==
  /\ pc = "flush"
  /\ IF buffer = <<>> THEN UNCHANGED <<played, whole>> ELSE Send
  /\ buffer' = <<>>
  /\ pc' = "feed"
  /\ UNCHANGED <<outside, remaining, fed, retrieved, chunk, busy>>

Finish ==
  /\ pc = "feed"
  /\ AllFed
  /\ handle' = FALSE
  /\ Return(IF buffer = <<>> THEN "played" ELSE "failed")
  /\ Forget
  /\ UNCHANGED <<library, heap, size, step, known>>

-----------------------------------------------------------------------------
Lifecycle == \/ Consult \/ Construct \/ \E iso \in Requests : Open(iso)
             \/ Succeed \/ Fail \/ Close \/ Destroy
             \/ Dispose \/ UnloadSg \/ UnloadTa \/ Terminate \/ Shut \/ Free

Speaking == \/ \E n \in TextSizes : Write(n)
            \/ Play \/ GiveUp \/ Feed \/ OpenDevice
            \/ \E k \in 0 .. BufferSize \div 2, more \in BOOLEAN : Get(k, more)
            \/ Stack \/ SendAndStack \/ Flush \/ Finish

Next == Lifecycle \/ Speaking

Spec == Init /\ [][Next]_vars

-----------------------------------------------------------------------------
Fields == {"system", "ta", "sg", "engine"}
Things == Fields \cup {"definition"}

TypeOK ==
  /\ voice \in Range(IsoCodes) \cup {NoVoice}
  /\ held \subseteq Fields /\ pico \subseteq Things
  /\ blocks \subseteq Blocks /\ lost \subseteq Blocks /\ opens \in 0 .. 2
  /\ handle \in BOOLEAN
  /\ size \in TextSizes \cup {0}
  /\ call \in {"none", "open", "close", "destroy", "play"}
  /\ pc \in {"unborn", "idle", "open", "dispose", "unloadSg", "unloadTa", "terminate",
             "shut", "free", "feed", "device", "get", "store", "flush"}
  /\ step \in 1 .. Len(Ladder)
  /\ answer \in {"none", "refused", "opened", "failed", "played"}
  /\ remaining \in Int16s /\ fed \in Nat
  /\ buffer \in Seq(1 .. MaxSamples) /\ Len(buffer) <= BufferSize
  /\ retrieved \in 0 .. MaxSamples
  /\ chunk \in 0 .. BufferSize \div 2
  /\ busy \in BOOLEAN
  /\ played \in Seq(1 .. MaxSamples)
  /\ whole \in BOOLEAN

(* Pico is only given the files of a voice that has both, whatever is on   *)
(* the disk and however often the registry has failed before: open() does  *)
(* not follow the null pointer that the constructor may have left.         *)
OpensWithFiles ==
  call = "open" => /\ voice # NoVoice /\ voicePath # NoPath
                   /\ {Ta(voice), Sg(voice)} \subseteq disk[voicePath]

(* Whatever write() or append() is given when it is called next, it keeps  *)
(* a text that Pico accepts: formatText() depends on its arguments only.   *)
WritesMarkup == pc = "idle" => FormatIsWellFormed

(* When open() has failed at whichever step, when close() has returned and  *)
(* once the engine is destroyed, nothing of Pico is held or left alive, and *)
(* the sound device is not open.                                            *)
ClosedHoldsNoLibrary ==
  pc \in {"unborn", "idle"} /\ ~IsOpen => held = {} /\ pico = {} /\ ~handle

(* What lives in Pico lives in the memory block, which no step frees before *)
(* Pico has terminated; an open engine has its three blocks; and the        *)
(* destructor frees those that the fields point to.  Neither a failed       *)
(* open() nor close() frees them, and the next open() on the same engine    *)
(* loses them; an engine that is opened once loses none.                    *)
BlocksOutlivePico ==
  /\ pico # {} => "memory" \in blocks
  /\ IsOpen => blocks = Blocks
  /\ pc = "unborn" => blocks = {}
  /\ lost # {} => opens > 1

(* What a thing in Pico was made from. *)
Needs(x) == CASE x = "engine" -> {"system", "ta", "sg", "definition"}
              [] x \in {"ta", "sg", "definition"} -> {"system"}
              [] OTHER -> {}

(* Nothing is released while something made from it is in use, and no field *)
(* points to what has been released.                                        *)
NothingUsedAfterRelease ==
  /\ held \subseteq pico
  /\ \A x \in pico : Needs(x) \subseteq pico

(* No sample overtakes another or is played twice, and as long as the      *)
(* device takes all it is sent none is lost.                               *)
SamplesInOrder ==
  /\ \A i, j \in 1 .. Len(played) : i < j => played[i] < played[j]
  /\ whole /\ call = "play" =>
       played \o buffer \o (IF pc = "store" THEN NewSamples ELSE <<>>)
         = [i \in 1 .. retrieved |-> i]

(* play() returns true only when the device has taken every sample Pico     *)
(* returned, short writes apart, and Pico every byte of the text and of its *)
(* final 0, provided that they are fewer than 65536.  Of a text longer than *)
(* that play() may say so when Pico has got its first bytes only, or none:  *)
(* the length is kept modulo 2^16.                                          *)
SuccessMeansSpoken ==
  [][call = "play" /\ call' = "none" /\ answer' = "played"
       => /\ size + 1 < 65536 => fed = size + 1
          /\ whole => Len(played) = retrieved]_vars

Service == INSTANCE EngineService
             WITH open    <- IsOpen /\ call # "open",
                  success <- answer \in {"opened", "played"},
                  wrapped <- Int16(size + 1) = 0

(* An engine opens in open() alone, when each of its nine steps has         *)
(* succeeded, and closes in close() alone, however play() may fail; and     *)
(* play() does not succeed on an engine that is not open, not even with an  *)
(* empty text, but for a text of 65535 bytes, or 65536 more, whose length   *)
(* is kept as 0.                                                            *)
KeepsEngine == Service!Spec
=============================================================================
