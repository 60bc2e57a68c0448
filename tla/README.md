# A formal model of libpiphons

libpiphons turns a single-board computer with a telephone line shield into a
voice server: it detects rings, seizes the line, decodes the keys the caller
presses, speaks texts, and notices the busy tone of a caller who has left. The
library is small and concurrent: every input pin has an interrupt thread, the
speech service has a thread of its own, user handlers run in whichever thread
calls them, and the application's thread opens, configures and closes all of it.
This directory holds TLA+ models of its components, the TLC configurations that
check them, and proofs that TLAPS checks. Source lines are given as
`file:line`, relative to `src/` of the repository unless they begin with
`examples/` or `include/`; `PROJECT.json` maps each definition to its lines.

## 1. The system

| Component | State | Operations | Called by |
|---|---|---|---|
| Line interface `Daa` (`daa.cpp`) | hook pin, open flag, ring and pulse counters, settings, handlers, a shared mutex | `open`, `close`, `offhook`, setters; `ringIsr`, `toneIsr` | client; one thread per input pin |
| Its Toueris variant (`toueris/daa.cpp`) | a latching relay with a set and a reset coil | overrides `open` and `offhook` | as above |
| DTMF decoder `Dtmf` (`dtmf.cpp`) | queue of keys, handler, open flag, mutex | `open`, `close`, `read`, `setKeyHandler`; `keyIsr` | client; the thread of the DV pin; handlers |
| Speech service `Tts` (`tts.cpp`) | composed text, queue of texts, parser thread, promise to stop it | `open`, `close`, `write`, `append`, `say`; `parser` | client; any handler; the parser thread |
| Speech engine (`tts_engine.cpp`) | what it has acquired from Pico, the text | `open`, `close`, `write`, `append`, `play` | the parser |
| Sound player (`tts_player.cpp`) | the ALSA device | `open`, `write`, `close` | the engine |
| Voices (`tts_voice.cpp`) | static maps, the search path, a lock flag | `staticInit`, `exists`, `voice`, `languageId`, `countryId` | the engine, any constructor of a voice |
| Demo programs (`examples/`) | the flag `loop`, the last key | `main`, and the handlers of rings, answers, busy tones and keys | the user; the interrupt threads |

How they interact. `ringIsr` and `toneIsr` share the fields of the line with the
client: most under the mutex, three without it (the hook pin, the open flag, and
the ring counter when `offhook(false)` resets it, `daa.cpp:400`). User handlers
are called with the mutex free, and call back into the library: a ring handler
may move the hook, a key handler reads the queue and says a text, an off-hook
handler says several. The only thing that passes between `Dtmf`, `Daa` and
`Tts` is such calls. The parser hands texts to the engine, which feeds them to
Pico and moves the samples to the player.

### What is hard, and what must hold

- **Line interface.** ISRs read a setting or a counter, release the mutex, act,
  and write back; the client does the same at any moment. The detachment of an
  interrupt has to wait for its ISR, which may wait for the mutex. Counters decide
  when to answer and when to hang up. Correct means: after `close()` nothing
  runs and the relay stays still; a line is answered only by enough rings of one
  call or a hook flash; it is hung up only by enough pulses; an ISR never acts
  on half a configuration; a persistent caller is answered, a busy tone hangs
  up, and `close()` returns.
- **DTMF decoder.** A key is read pin by pin while the caller goes on pressing;
  edges merge; two threads read one queue. Correct means: keys come out whole,
  once and in order, each handler finds one, and nothing runs after `close()`.
- **Speech service.** The parser looks at the stop flag only when there is
  nothing to say; the engine may fail at any text; the text being composed is
  one unprotected field. Correct means: texts are spoken once and in order, each
  accepted text is spoken unless the engine fails or the service closes, and
  `close()` returns with the parser gone.
- **Engine and player.** Nine acquisitions, each of which may fail; a loop that
  regroups samples through a buffer and may stop anywhere; a length kept in 16
  bits. Correct means: nothing of Pico and no open device is left behind, nothing is
  released or freed under its user, samples are played in order and once, and
  success means the whole text of an open engine.
- **Voices.** A recursive static initialisation guarded by a flag, which throws
  when a file is missing and leaves the flag set. Correct means: the registry has
  every voice of the directory found first, or is locked with those before the first
  that is incomplete; an engine opened from it either way gets a voice with its files.
- **Toueris.** Two threads may pulse the two coils at the same time, and the LED
  that the library reads as the hook is written after the pulse. Correct means:
  no coil stays under current, and the LED tells where the relay is.
- **Copies.** `Daa` and `Dtmf` are copied field by field while interrupts carry
  the address of the original. Correct means: no ISR uses freed data, nothing
  is freed twice or lost.
- **The programs.** Handlers of three threads and the parser against `main()`, which
  closes one component after the other. Correct means: the server ends when and
  only when it is asked to, says goodbye first, and leaves no thread behind that
  would use a destroyed object.

`PROJECT.json` lists the hazards one by one, at their lines, with the properties
that watch them.

## 2. The modules

| Module | Content |
|---|---|
| `Daa` | the line interface: client, `ringIsr`, `toneIsr`, handlers, input edges |
| `DaaHistory` | `Daa` with histories of the rings and pulses really handled, for the properties about what the counters stand for |
| `MCDaa`, `MCDaaHistory` | constants for TLC |
| `DaaProofs`, `DaaHistoryProofs` | theorems about the two |
| `LineProofs` | the proof that `Daa` implements `LineService` |
| `DtmfProofs`, `TtsProofs` | theorems about `Dtmf` and `Tts`, with the proofs that they implement `OrderedDelivery`, and that `Tts` uses `EngineService` |
| `EngineProofs` | theorems about `Engine`, `Voices` and `Markup`, with the proof that `Engine` implements `EngineService` |
| `LinesProofs` | theorems about `Lines` |
| `VoiceServerProofs` | theorems about `VoiceServer`, with the proofs that it uses the line as `LineService` allows, and its keys and texts as `OrderedDelivery` does |
| `LineService` | abstract: what the line promises to an application; `Daa` implements it |
| `OrderedDelivery` | abstract: what a stage of the server promises to the one before it |
| `EngineService` | abstract: what the engine promises to the speech service; `Engine` implements it, `Tts` uses it |
| `Lines` | line objects of the Toueris board with their relay, and decoders: copied, assigned, swapped, destroyed |
| `Dtmf`, `MCDtmf` | the decoder, shown to implement `OrderedDelivery` for keys; the two ways of using it |
| `Tts`, `MCTts` | the speech service, shown to implement `OrderedDelivery` for texts; scripts of its talkers |
| `Voices` | the registry of voices, with what may be on the disk |
| `Markup` | `formatText`, a function |
| `Engine`, `MCEngine` | the speech engine with the sound player, on top of `Voices` and `Markup`; some disks |
| `VoiceServer` | the four demonstration programs, composed of `LineService` and two stages of `OrderedDelivery` |

The composition goes through the abstract modules: `VoiceServer` takes its line
steps from `LineService` and its keys and texts from `OrderedDelivery`; `Daa` (run
`live`), `Dtmf` (run `keys`) and `Tts` (run `speech`) are shown to implement them,
by TLC on the instances of these runs and by proof for all. In the same way `Tts`
takes no answer from its engine that `EngineService` does not give, which `Engine`
implements (run `engine`): so the speech service does without the engine's nine
steps and its loop.

A definition whose comment begins with "Mistake:" is used by no action. It is
the definition that follows it as a plausible bug would make it; putting it in
its place must violate a property (`mutants` in `PROJECT.json`).

### How `Daa` corresponds to the code

The fields of `Daa::Private` are variables with their names; the four tone
settings are one record `toneSet`, `lastTone` is reduced to "is it other than 0",
which is all the code asks of it. `pc` says where each of the three threads is:
the client inside `open()`/`close()`, the ring thread in `ringIsr`, the tone
thread in `toneIsr`; `ringIsr` and `toneIsr` hold the locals of the ISRs.
`attached` and `irq` stand for what Piduino knows of the input pins.

An action ends where another thread can see or change what the code uses next.
So `ringIsr` is seven steps: it reads the counter unlocked (`RingDispatch`), reads
the settings under the shared lock (`RingSnapshot`), stores the counter under the
exclusive lock (`RingStore`), runs the ringing handler, tests the hook, writes the
hook, runs the off-hook handler. `toneIsr` holds the shared lock while
`pc["tone"] = "snapshot"`, between the two actions that copy the configuration:
that is the one place where a writer waits. `Daa::offhook(false)` writes the pin
and then the ring counter with nothing held: the thread is in `resetting` between
the two. `open()` and `close()` take one step per call of Piduino.

Time is the interval between two interrupts, as the handlers compute it, chosen
from `RingGaps` and `PulseGaps`. `millis()` may return 0 (`ClockWraps`), the value
that the code uses for "no edge yet".

Outside the repository, and modelled from its use: `attachInterrupt` makes edges of
a pin wake its thread; an edge while an interrupt is pending adds nothing;
reading the pin erases the interrupt, and an ISR that does not read it
(`ToneIgnore`) finds it pending again; `detachInterrupt` stops new interrupts and
returns when the thread has ended. `HandlerHook` are the hook calls that user
handlers make; a handler does not call `open()`, `close()` or a setter.

### The other components

`Dtmf` reads the data pins in one action each, so that the key may change between
two of them; every section of the mutex is one action. A key is the set of the
pins that are high. `usage` is chosen once for a behaviour. With `spaced` the
environment keeps to what the HT9170's timing guarantees (a key lasts longer than
the ISR takes to read it); without it keys come at any time, also before `open()`
has made the data pins inputs: they may then be read half and half, or merge into one
interrupt, and `DeliversKeys` claims nothing of them.

`Tts` has a parser that goes through `parser()` of `tts.cpp:40-87` with the two
waits as separate steps, and talkers, each with a script of calls of `write`,
`append` and `say`, made from the client's thread (`Own`) or from a handler's.
The field `text` has no lock: an assignment that overlaps another or a copy is
a data race and may yield `Garbled`. `mine`, `promised`, `accepted` and `spoken`
are histories. Opening a closed service takes the future of its promise a
second time and throws: the client is then in `"thrown"` and the model stops.

`Engine` makes each call of Pico and ALSA that may fail a choice; `open()` climbs
`Ladder` and on failure jumps to the label of `FailedAt`, from where the same
releases run as in `close()`. `process()` is a loop of `Feed`, `OpenDevice`,
`Get`, `Stack` or `SendAndStack`, `Flush` and `Finish`. Samples are numbered.
Pico takes some of the text each time it is fed, or nothing, and refuses a negative
length: both are its own matter and allow for the worst. The length is what
`Int16` keeps of it, as `text_remaining` does (`tts_engine.cpp:238`), and `fed` counts
the bytes really passed. `blocks` are the fields that point to a block of `malloc()`,
which is taken to succeed: `open()` allocates over them (`Allocate`), neither its
failure nor `close()` frees them, and the destructor, which calls `close()` first
(`Destroy`), does so last (`Free`); `lost` and `opens` are histories. The locals of
`process()` are forgotten when it returns. Before an engine is constructed the application may ask for the voices, and catch what that throws,
any number of times, while somebody installs missing files (`Consult`, `Install`);
the constructor keeps what `voice("en-US")` returns, a null pointer if the
registry is locked and empty, and `Open(iso)` replaces it after `exists(iso)`.

`Voices` has the tables of the code. A disk maps each directory of the search
(`HOME/.pico/lang/`, then `TtsVoicePaths`) to the files in it. `staticInit()` is one
step: one thread uses the registry. Its loop stops at the first voice that lacks a
file: it has stored the voices `Reached` when it throws (`FileMissing`) or ends.
`seen` is a history, the disk as `staticInit()` found it, since files may be installed
later and the registry does not look again.

`Lines` keeps, for each object, which `Private` its `d_ptr` owns; `attached` and `isr`
are the addresses that the interrupt and a running ISR carry. A copy has every
field, `isOpen` included, and is a `Piphons::Daa::Private` whatever it is copied
from, so a copy of a Toueris line drives the LED and not the relay (`latching`).
Assignment is copy, swap, and the destruction of the former `Private` by the
destructor of the temporary. What `attachInterrupt` does on a pin that has an
interrupt already is not in the repository; both possibilities are allowed. The
relay is physics: a pulse on one coil moves it at once, pulses on both, or one
cut short by `open()`, leave it anywhere.

`VoiceServer` runs `main()` of each program as a list of steps (`Script`); `main()`
waits in `close()` for the threads of what it closes (`joining`). The welcome is
said line by line in the ring thread, keys are handled in four steps (`ReadKey`,
`Reply`, `Goodbye`, `DropFlag`, then `StoreKey`), and the parser's last look at
the queue and at its stop flag are two steps, as in `Tts`. `loop` of the program
is the variable `loop`. It is assumed that three rings take longer than `main()`
takes to open everything (`Ready`). A busy tone is only heard while
the line is seized: a toneIsr that is past its test (`daa.cpp:242`) when `close()` hangs
up would hang up a line that is on hook and drop a flag that `main()` has done with.

## 3. The runs

| Run | Configuration | Question |
|---|---|---|
| `live` | `MCDaa_live` | everything a thread must eventually do, what is quiet after close, and that the line is the one `LineService` promises |
| `ring` | `MCDaaHistory_ring` | is every answer earned |
| `retune` | `MCDaaHistory_retune` | toneIsr while it is reconfigured |
| `keys` | `MCDtmf` | spaced keys delivered whole, once, in order; keys at any time still give each handler one |
| `speech` | `MCTts_speech` | texts delivered, spoken; close returns |
| `engine` | `MCEngine` | any file may be missing and any call may fail: is the engine still the one that `EngineService` promises; what of Pico, the device and memory is left after each call, which voices are in the registry, what does success mean |
| `lines` | `Lines` | copies and destruction while ISRs run; relay, coils and LED |
| `server` | `VoiceServer` | do the programs end, for the right reason, in the right order, leaving nothing behind |
| `hangup`, `rings`, `goodbye`, `race` | | disagreements between code and docs, section 5 |

**Bounds, and why they are enough.**

- *Line interface.* Ring intervals are the two sides of each threshold of
  `ringIsr` (7 s, 1 min), pulse intervals the two sides of each window of two
  tones that share no field but `enable`. A ring count is compared with 0, 3 and
  the ring limit only (8 unless it is set), so saturating it at `RingCap = 8`
  loses no outcome; the assumption `RingCapAssumption` says so and the histories
  saturate alike. Three pulses stand for the demo's six: the code treats the
  first, a middle one and the last differently and no other. The `ring` run has
  no tone pin and the `retune` run no rings, since the two ISRs share only the
  hook pin and the mutex; `live` has both. `live` takes one ring interval and a
  caller who is answered after two rings, and both a pulse and a noise interval.
- *Decoder.* Two data pins instead of four: a read of one pin first, one pin
  last, and a key that changes between them. Two keys unread (`MaxFifo`, a limit
  on the environment: the code has none).
- *Speech.* Two talkers with two and one texts of up to two phrases; `Bugfix` on,
  so that the codec workaround is in the loop, and the engine may fail anywhere.
- *Engine.* A buffer of 4 samples that Pico fills by up to 2 at a time, as 128 of
  256 in the program, and 5 samples in one call of `play()`: the buffer is
  filled, sent and begun again. Texts have 0, 1, 32767, 65535 or 65536 bytes: both sides
  of each limit of a `pico_Int16` (`tts_engine.cpp:230`), whose kept lengths with the
  final 0 are 1, 2, -32768, 0 and 1. Those that are positive are fed in every partition;
  written and appended. An engine is opened and destroyed any number of times. Five disks: empty, complete in the last
  directory, only the first voice in the user's, half a voice missing, and the
  first voice incomplete where it is found first. `open()` is asked for the first
  voice, a later one and one that does not exist. The levels of `formatText` are
  both sides of every limit, for the three tags independently.
- *Lines.* Two variables and three addresses: the temporary of an assignment
  needs the third. One interrupt pin and its ISR, which moves the hook at most
  once; the client's calls in any order.
- *Programs.* Two calls and three keys: `##` may be split over two calls, or follow
  another key. One line of welcome for four: each is queued by itself and texts
  differ only in kind. The run ends where programs do, so deadlock is not checked
  there; `ServerEnds` is what is checked in its place.

**Fairness.** A thread that can run keeps running: weak fairness on the steps of
each ISR, of the parser, and of the client once it is inside `open()` or `close()`.
The ISRs' writes under the mutex (`RingStore`, `ToneCount`, `ToneFinish`) have
strong fairness, since a writer waits while toneIsr holds the shared lock again and
again and `shared_timed_mutex` is assumed to starve no writer. Nothing obliges the
client to make a call, the line to ring, or a caller to press a key: the
properties say `[]<>("ring" \in irq)` where they need it. In `Tts` the only
obligations are the parser's steps and the return of `close()` once the parser has
ended; in `Dtmf` the steps of `keyIsr` and the return of `open()` and `close()`. In
`VoiceServer` each thread of the program has weak fairness: `main()` (but nobody
has to press Enter in `daa-demo`), the handlers, the parser. The engine need not
fail, and no caller has to ring, press a key or leave. Since the keys of a behaviour are
bounded, `ServerEnds` is about callers who stop pressing them.

**What the properties say.** Safety: `ClosedIsQuiet` and `ParserGoneWhenClosed`
(an object may be destroyed once closed), `AnswerEarned`,
`HangupEarned`, `PulsesBelowLimit` (no hang-up is overdue), `ToneSnapshotConsistent`,
`HandlerFindsKey`; for the engine `ClosedHoldsNoLibrary` (of Pico and the device),
`BlocksOutlivePico` (the memory Pico lives in), `NothingUsedAfterRelease`,
`SamplesInOrder`, `SuccessMeansSpoken`, `WritesMarkup`, and `OpensWithFiles` (it
never follows the null pointer, and Pico is given files that exist); for the registry
`RegistryAllOrLocked` (which voices it has, from which directory); for objects `IsrDataAlive` and
`OwnedOnce`; for the Toueris board `CoilsRest` and `LedTellsRelay`; for the programs
`EndsOnlyWhenAsked`, `GoodbyeBeforeEnd` and `QuietAtReturn`. Refinement: `KeepsLine` (which
says among other things that the relay of a closed line is still, the property
`PinSilentWhenClosed`), `DeliversKeys`, `DeliversTexts`, `KeepsEngine`.
Liveness: `CloseReturns` in three modules, `CallerAnswered`, `BusyToneHangsUp`, `KeyQueued`, `EveryTextSpoken`, `ServerEnds`.

Some of what holds is weaker than one might wish, because the code is:
pulses need not be consecutive (`HangupEarned` counts those since the last
hang-up, not since the start of the call); a text composed by two threads may
be garbled and `DeliversTexts` is about what was queued; with short or recovered
ALSA writes only the order of the samples is kept; `LedTellsRelay` claims nothing
once two hook calls have met or a copy has written the LED, and until the next call
that meets no other; a registry that has failed stays as it is, and an
engine can be constructed from it and opened with the voices that it has, which have
no language; the memory blocks of an engine stay when it is closed and are lost when it
is opened again; `SuccessMeansSpoken` claims the bytes of the text only up to 65534 of
them, and `KeepsEngine` lets `play()` succeed on an engine that is not open when the
length wraps to 0; a `#` left over from one call counts as the first of
the next caller's two; a caller who presses keys faster than they are spoken keeps
the parser from its stop flag for as long as he does, since `main()` closes the
speech service before the decoder.

## 4. What is proved

TLAPS checks these for every value of the constants that meets the named
assumptions of the modules: types (`DaaAssumption`, `DtmfAssumption`,
`TtsAssumption`, `VoicesAssumption`, `LevelsAssumption`, `LinesAssumption`,
`ServerAssumption`), the counters saturate no earlier than a limit that is set
(`RingCapAssumption`, `PulseAssumption`), the buffer of the engine holds two samples or more
(`BufferAssumption`) and texts have lengths in Nat, any of them (`TextAssumption`). Every safety property
that a passing run checks is among them, and every refinement.

| Module | Theorem | States |
|---|---|---|
| `DaaProofs` | `TypeCorrect` | `Spec => []TypeOK` |
| | `ClosedQuiet` | `Spec => []ClosedIsQuiet` |
| | `PinSilent` | `Spec => PinSilentWhenClosed`, an action property |
| | `ThreadsRunDown` | inside `open()` and `close()`, and once its interrupt is detached, no thread begins anything and each of its steps brings it nearer to its end |
| | `ToneConsistent` | `Spec => []ToneSnapshotConsistent` |
| | `NoHangupOverdue` | `Spec => []PulsesBelowLimit`, if the tone is configured before `open()` |
| `DaaHistoryProofs` | `AnswersEarned` | `HSpec => []AnswerEarned` |
| | `HangupsEarned` | `HSpec => []HangupEarned` |
| `LineProofs` | `LineKept` | `Spec => KeepsLine`: the line interface implements `LineService` |
| `DtmfProofs` | `DtmfTypes` | `Spec => []TypeOK` |
| | `QuietWhenClosed` | `Spec => []ClosedIsQuiet` |
| | `KeyIsrRunsDown` | the same for keyIsr once its interrupt is detached |
| | `KeyForEveryHandler` | `Spec => []HandlerFindsKey` |
| | `KeysDelivered` | `Spec => DeliversKeys`: the decoder implements `OrderedDelivery` |
| `TtsProofs` | `TtsTypes` | `Spec => []TypeOK` |
| | `ParserGone` | `Spec => []ParserGoneWhenClosed` |
| | `TextsDelivered` | `Spec => DeliversTexts`: the service implements `OrderedDelivery` |
| | `ParserRunsDown` | the same for the parser once the stop flag is set; only a further text sets it back |
| | `EngineUsed` | `Spec => Engine!Spec`: the parser uses the engine as `EngineService` allows, with no need of a wrapped length |
| | `OneTalkerSaysOwnText` | `Spec => []SaysOwnText`, with one talker only |
| `EngineProofs` | `EngineTypes` | `Spec => []TypeOK` |
| | `RegistryComplete` | `Spec => []RegistryAllOrLocked` |
| | `FilesThere` | `Spec => []OpensWithFiles` |
| | `NoLibraryHeld` | `Spec => []ClosedHoldsNoLibrary` |
| | `BlocksKept` | `Spec => []BlocksOutlivePico` |
| | `NothingStale` | `Spec => []NothingUsedAfterRelease` |
| | `InOrder` | `Spec => []SamplesInOrder` |
| | `SuccessSpoken` | `Spec => SuccessMeansSpoken`, an action property, for texts of any length |
| | `TextsMarked` | `Spec => []WritesMarkup`, for all integer levels |
| | `EngineServes` | `Spec => KeepsEngine`: the engine implements `EngineService` |
| `LinesProofs` | `LinesTypes` | `Spec => []TypeOK` |
| | `IsrSafe` | `Spec => []IsrDataAlive` |
| | `OneOwner` | `Spec => []OwnedOnce` |
| | `CoilsAtRest` | `Spec => []CoilsRest` |
| | `LedTold` | `Spec => []LedTellsRelay` |
| `VoiceServerProofs` | `EndsForAReason` | `Spec => []EndsOnlyWhenAsked` |
| | `GoodbyeSaid` | `Spec => []GoodbyeBeforeEnd` |
| | `NothingRunsAtReturn` | `Spec => []QuietAtReturn` |
| | `LineUsed` | `Spec => Line!Spec`: the programs use the line as `LineService` allows |
| | `StagesUsed` | `Spec => Keys!Spec /\ Texts!Spec`: keys and texts pass as through two stages of `OrderedDelivery` |

`LineKept` and `LineUsed` meet in the middle: `VoiceServer` takes no step on the line
that `LineService` does not allow, and `Daa` takes no other. `LineService` itself has
no theorem; it is where the two proofs join. So do `KeysDelivered`, `TextsDelivered`
and `StagesUsed` at `OrderedDelivery`, `EngineServes` and `EngineUsed` at
`EngineService`.

### The arguments

*Line interface.*

- `CloseInv` strengthens `ClosedIsQuiet`: it says for every point inside `open()`
  and `close()` which interrupts are detached and which ISRs have ended, and that
  `isOpen` covers exactly the time from the last step of `open()` to the last of
  `close()`. Without the intermediate points the step that sets `isOpen` to false
  cannot be shown to leave nothing running. `PinSilent` follows from the same
  invariant: an ISR that could write the pin is not quiet, so the line is open or
  the client is inside a call.
- `LineKept` is a step simulation under `CloseInv`. Most steps leave the two handlers
  alone and are hook moves or stutters of a live line (`HookMoves`); that a step of an
  ISR runs on a live line (`ServedLive`), and that close() ends with both handlers
  done, is what the invariant is needed for.
- `ToneInv` adds to `ToneSnapshotConsistent` that what toneIsr has copied so far
  is still what is configured while it holds the lock. That is inductive because
  a writer waits there.
- `RingInv` relates the counter to the history: outside the window in which
  ringIsr has read the counter and not yet written it, the counter is at most the
  number of rings of the present call, and what ringIsr carries is at most that
  too. The counter may fall behind (a reset in between is lost or comes late), it
  never runs ahead; so the unlocked write at `daa.cpp:400` cannot make the line
  answer on fewer rings of one call than were asked for.
- `PulseInv` does the same for the pulse counter, which the setter resets while toneIsr may be carrying an older value. `DaaHistoryProofs`
  reuses the invariants of `DaaProofs`: a step of `HNext` is a step of `Next`
  (`HistoryStep`).
- `LimitInv` bounds the counter from above, also where toneIsr carries
  it: below the limit, between the edges and wherever toneIsr is about to store it.
  `NoHangupOverdue` assumes that nobody sets the tone while the line is open, which
  is what the programs do, so that the copy toneIsr works on is the configuration in
  force. Otherwise the property is false: a setter that lowers the limit under a
  running toneIsr is followed by the store of a counter above it.

*Why the close() calls return.* Fairness is out of reach, but what it has to act on is
not. `ThreadsRunDown`, `KeyIsrRunsDown` and `ParserRunsDown` give each thread a number,
`StepsLeft`, and show that its own steps lower it, user handlers and failures
included, and that nobody else raises it; a text queued while the parser ends raises
it by three. The first two do not hold while an interrupt is attached: a new edge
starts the ISR again, which is why `close()` has to detach before it waits. Beyond
them `CloseReturns` needs only that a thread that can step does, and that a writer gets
the mutex, which is the fairness of section 3.

*Decoder.* `AttachInv` says when the interrupt is attached and keyIsr may run, at each
point of `open()` and `close()`. `HandlerFindsKey` needs `HeldForHandler`: with handlers
as the only readers, the key that keyIsr has queued stays queued until its handler
reads it, because one thread does both. `KeysDelivered` is a simulation under
`ReadsWhole`: while spaced keys are read the pins still show the key, and what has
been read is the part of the key on the pins read.

*Speech service.* `ParserInv` follows the life of the parser thread: the future is taken
once, the engine is open exactly while the parser needs it, and a text is in hand
exactly while it is spoken. `WritesCall` ties a talker inside `write` to its script; it is
what the type of the composed text needs. `OwnText` says that with one talker the
shared field is what it has composed, so the exchange found in the run `race` takes two.

*Engine, player and voices.* `VoicesInv` adds to `RegistryAllOrLocked` where the files of
the voices stored are; the directory found first (`SearchedDirectory`) and the first
voice that lacks a file (`StoredPrefix`) are least elements (`LeastElement`), which
takes the place of an induction over the tables. `HoldInv` says what
is alive at each step of `open()` and at each label of the release: what the steps
before have brought, and what the labels before have taken. This is what a wrong
`goto` would break. `CallInv` and `DeviceInv` tie the call and the sound device to
it. `HeapInv` says which blocks each step of `open()` has allocated, and that Pico has
terminated before the destructor frees them. `PlayInv` says that the buffer holds the samples after those sent, and that the
device has some of those sent, in order, or all if no write was short; `InOrder` and
`SuccessSpoken` follow, the latter with `LengthInv`: what has been fed and what is left
make up the text, as long as the length fits; it is negative from there to 65534 bytes, and
then never comes to 0. `EngineServes` is a step simulation, where the answer counts
at the return of a call; that `play()` does not succeed on a closed engine rests on
`FedInv`: on a closed engine nothing is fed, and the text, with its final 0, is never
empty, unless its length wraps to 0. For `TextsMarked` the recursive function `OpenAfter` is unrolled one item at a
time (`Prefix`, `OneMore`) over the at most seven items that `formatText` writes:
`OpeningStep` and `ClosingStep` say what the two tags of one kind do to the tags that
are open, whether or not the level is wished for, and the proof nests the three kinds.

*Objects and relay.* `OwnerInv` extends `OwnedOnce` into the operations: a `Private` belongs
to an object or to the client that is freeing it. `IsrInv` says that what an interrupt
or an ISR carries is open or being opened, and that none is attached while `close()`
waits for the ISR. `WorkInv` says where the client is in what. For the relay, `AloneInv`
follows a hook call that has met no other from its pulse to its write of the LED, and
`ToldInv` says that the board is at rest once it has told; `BusyInv` says who makes the calls.
The proof of `CoilsAtRest` found that `Position`, which says where a pulse leaves the
relay, was a `CASE` with two guards true at once, so that it gave TLC one value and
the prover either. It is an `IF` now, and so are two other overlapping
choices, in `VoiceServer` and `DaaHistory`; no run changed by it.

*Programs.* `main()` is a list of steps, so the invariant is about what is still ahead in
it: `ScriptInv` (the list is the end of the program), `OpenInv` (what is open will be
closed) and `ThreadInv` (no thread without its object) give `QuietAtReturn`. That the
programs open, wait and close in the right order is a lemma about the four lists
(`Programmed`), carried to the steps ahead by `Tails`. `ReasonInv` holds a reason for
every step of a handler that leads to the end. `GoodbyeSaid` needs most: a key is
handled only after everything is open (`KeyInv`), so the speech service is open unless
`main()` has passed its wait (`WaitInv`), and then the flag was down before, for which
there is a reason other than these two `#` or a goodbye said before (`FarewellInv`).

### Only model-checked

- Liveness: `CloseReturns` in three modules, `CallerAnswered`, `BusyToneHangsUp`,
  `KeyQueued`, `EveryTextSpoken`, `ServerEnds`. Fairness is beyond this prover.
- That the disagreements of section 5 exist: a run finds them, there is nothing to prove.

## 5. Where the code and what is said of it disagree

| Run | The code | What is said |
|---|---|---|
| `hangup` | `close()` hangs up (`daa.cpp:338`) and then detaches the interrupts; a ringIsr past its test answers in between and the line stays seized | `examples/dtmf-demo/main.cpp:82`: "I hung up the phone." |
| `rings` | an ISR that hangs up leaves the ring counter as it is | `examples/daa-demo/main.cpp:24`: the rings since the last call |
| `goodbye` | a text queued between the timed-out read and the look at the stop flag is dropped (`tts.cpp:79`) | `examples/tts-demo/main.cpp:4`: the program says a message, by open, say, close |
| `race` | `say()` goes through one unlocked field (`tts.cpp:143`) | `examples/piphons-demo/main.cpp:26`: handlers run in different threads, and each key has its message |

Also noted while modelling, without a run:

- `daa.cpp:400` writes the ring counter with no lock while ringIsr reads and writes it
  under one. The invariant `RingInv` shows that a reset may be lost or come late, and
  that no answer becomes early by it.
- `hookFlash()` returns `ringingSinceHangup` (`daa.cpp:450`); `include/piphons/daa.h:58`
  declares it as the getter of `setHookFlash`.
- After `b = a` with an open `a`, or after one of two copies is destroyed, an object
  may say that it is open while no interrupt is attached; its `open()` then does
  nothing. `IsrDataAlive` shows that nothing worse follows.
- A copy keeps the `q_ptr` of the object it was made for (`daa.cpp:63`), which is what
  handlers are given, and which may be gone.
- `text_remaining` is a `pico_Int16` (`tts_engine.cpp:238`). Of 65535 bytes or more `play()`
  reports success when Pico has got only what the wrapped length says: of 65535 bytes
  nothing, and then also on an engine that is not open. From 32767 to 65534 bytes it is
  negative and the text is at Pico's mercy. No doc gives a limit.
- Each `open()` of an engine allocates its memory and two names anew
  (`tts_engine.cpp:62`, 100, 113), and `close()` does not free those of before.
  `BlocksOutlivePico` shows that an engine opened once, as the parser does, loses none.
- A key pressed during the welcome has its text spoken between two of its lines, and
  texts that a caller has not waited for are spoken to the next one: hanging up
  does not empty the queue.

## 6. What is not modelled

- The failure of `malloc()`, which the code does not test, and what is in the blocks.
- The *setters and copies of a single voice*: they move strings that only
  `staticInit()` sets, before anything can read them.
- *Two threads* that need a voice at the same time for the first time: the programs
  construct their one `Tts` before any thread runs.
- *`q_ptr`* in copies, and the queue of keys that a copied decoder takes along.
- Error strings, device names, what the programs print: wording.
- The failure of `gpio.open()`: an `open()` that does nothing and returns false.
- Build files, packaging, hardware documents: nothing at run time.

## 7. Plan

1. *Done.* `Daa`, `DaaHistory` with their proofs, `Dtmf`, `Tts`, `OrderedDelivery`,
   `Engine`.
2. *Done.* `Voices` and `Markup` under `Engine`; `Lines`; `LineService`, implemented by
   `Daa` with a proof in `LineProofs`; `VoiceServer`, built on it.
3. *Done.* The safety of every component proved, and the refinements of
   `LineService` and `OrderedDelivery` (section 4).
4. *Done.* The closing of tags, unrolled; `EngineService` between the engine and the
   speech service, proved from both sides; the stages of the voice server; what the
   liveness of `close()` rests on.
5. *Left.* A copy's `q_ptr`, which no module keeps. Liveness itself, if a prover for
   fairness comes. Keys that are not spaced, of which nothing is claimed but that each
   handler finds one.
