------------------------------- MODULE Voices -------------------------------
(***************************************************************************)
(* The registry of voices, class Piphons::Tts::Voice::Private              *)
(* (src/tts_voice.cpp): static maps that the first call of anything that   *)
(* needs a voice fills from the files it finds, in staticInit().           *)
(*                                                                         *)
(* staticInit() sets initLock so that the voices it constructs do not call *)
(* it again, and throws when a file is missing.  Then the lock stays set,  *)
(* the maps keep what they have, and no later call tries again.            *)
(*                                                                         *)
(* The maps of languages and of countries are filled together, when every  *)
(* voice has been found: "tables" says whether they are.                   *)
(*                                                                         *)
(* An ISO code is the pair of what language() and country() find on the    *)
(* two sides of its dash.                                                  *)
(*                                                                         *)
(* "seen" is a history: the disk as staticInit() found it.                 *)
(*                                                                         *)
(* A definition whose comment begins with "Mistake:" is used by no action: *)
(* it is the one after it as a plausible bug would make it.                *)
(***************************************************************************)
EXTENDS Naturals, Sequences, SequencesExt

CONSTANTS
  Directories,  (* HOME/.pico/lang/ if HOME is set, then TtsVoicePaths    *)
  Disks,        (* what may be on the disk: directories to sets of files  *)
  NoVoice       (* the null pointer that voice() returns                  *)

IsoCodes == << <<"en", "US">>, <<"en", "GB">>, <<"de", "DE">>,
               <<"es", "ES">>, <<"fr", "FR">>, <<"it", "IT">> >>

Languages == <<"en", "de", "es", "fr", "it">>
Countries == <<"US", "GB", "DE", "ES", "FR", "IT">>
Unknown   == "unknown"

(* A file of voice v: its text analysis or its signal generation. *)
Ta(v) == <<v, "ta">>
Sg(v) == <<v, "sg">>
Files == Range(IsoCodes) \X {"ta", "sg"}

NoPath == "none"

ASSUME VoicesAssumption ==
  /\ NoVoice \notin Range(IsoCodes)
  /\ Directories \in Seq(Range(Directories))
  /\ NoPath \notin Range(Directories)
  /\ Disks \subseteq [Range(Directories) -> SUBSET Files]

VARIABLES
  disk,       (* the files there are                                      *)
  seen,       (* those there were when staticInit() looked                *)
  initLock,   (* static fields of Tts::Voice::Private                     *)
  voices,     (* the keys of the map                                      *)
  tables,     (* are languages and countries filled?                      *)
  voicePath

statics  == <<initLock, voices, tables, voicePath>>
registry == <<disk, seen, statics>>

RegistryInit ==
  /\ disk \in Disks
  /\ seen = [p \in Range(Directories) |-> {}]
  /\ initLock = FALSE
  /\ voices = {}
  /\ tables = FALSE
  /\ voicePath = NoPath

(* Has the directory the file that setVoicePath() checks? *)
Holds(d) == Ta(Head(IsoCodes)) \in disk[d]

(* Mistake: the search goes on, and the last directory that has it is taken. *)
LastPath ==
  IF \E i \in DOMAIN Directories : Holds(Directories[i])
    THEN Directories[SelectLastInSeq(Directories, Holds)]
    ELSE NoPath

(* The search stops at the first directory that has it. *)
SearchedPath ==
  IF \E i \in DOMAIN Directories : Holds(Directories[i])
    THEN Directories[SelectInSeq(Directories, Holds)]
    ELSE NoPath

Found(v, path) == path # NoPath /\ {Ta(v), Sg(v)} \subseteq disk[path]

(* What the loop of staticInit() stores before it throws, or ends: each    *)
(* voice, as long as neither it nor one before it lacks a file.            *)
Reached == {i \in DOMAIN IsoCodes :
              \A j \in 1 .. i : Found(IsoCodes[j], SearchedPath)}
Stored  == {IsoCodes[i] : i \in Reached}

FileMissing == Reached # DOMAIN IsoCodes

Due == voices = {} /\ ~initLock

(* Somebody adds what is missing. *)
Install ==
  /\ \E d \in Disks : /\ \A p \in Range(Directories) : disk[p] \subseteq d[p]
                      /\ disk' = d
  /\ UNCHANGED <<seen, statics>>

(* staticInit() throws, or returns. *)
Throws == Due /\ FileMissing

StaticInit ==
  IF Due
    THEN /\ initLock' = FileMissing
         /\ voices' = Stored
         /\ tables' = ~FileMissing
         /\ voicePath' = SearchedPath
         /\ seen' = disk
         /\ UNCHANGED disk
    ELSE UNCHANGED registry

(* exists(iso) and voice(iso), once staticInit() has returned. *)
Exists(iso) == iso \in voices'
Voice(iso)  == IF Exists(iso) THEN iso ELSE NoVoice

(* languageId() and countryId(): a name that the map has not is unknown. *)
Id(name, table) == IF tables /\ name \in Range(table) THEN name ELSE Unknown
LanguageId(v) == Id(v[1], Languages)
CountryId(v)  == Id(v[2], Countries)
-----------------------------------------------------------------------------
HasIds(v) == LanguageId(v) # Unknown /\ CountryId(v) # Unknown
HasNone(v) == LanguageId(v) = Unknown /\ CountryId(v) = Unknown

(* The search has found p: it is the first directory that had the first    *)
(* voice's text analysis, or there was none.                               *)
FoundFirst(p) ==
  LET Had(i) == Ta(Head(IsoCodes)) \in seen[Directories[i]]
  IN  \/ p = NoPath /\ \A i \in DOMAIN Directories : ~Had(i)
      \/ \E i \in DOMAIN Directories :
           p = Directories[i] /\ Had(i) /\ \A j \in 1 .. i - 1 : ~Had(j)

WasThere(v) == voicePath # NoPath /\ {Ta(v), Sg(v)} \subseteq seen[voicePath]

(* A registry is untouched; or it has every voice, each with a language    *)
(* and a country; or it is locked, and has the voices before the first     *)
(* that lacked a file, without language or country, although both are in   *)
(* their names.  A file counts that was, when staticInit() looked, in the  *)
(* first directory with the first voice: not one of a later directory that *)
(* is complete, nor one installed since, since a failure is final.         *)
(* A locked registry goes on being used: an engine can be constructed from *)
(* it, and opened with a voice that it has.                                *)
RegistryAllOrLocked ==
  \/ ~initLock /\ voices = {} /\ ~tables /\ voicePath = NoPath
  \/ /\ FoundFirst(voicePath)
     /\ \E n \in 0 .. Len(IsoCodes) :
          /\ voices = Range(SubSeq(IsoCodes, 1, n))
          /\ \A v \in voices : WasThere(v)
          /\ \/ n = Len(IsoCodes) /\ ~initLock /\ \A v \in voices : HasIds(v)
             \/ /\ n < Len(IsoCodes) /\ initLock
                /\ ~WasThere(IsoCodes[n + 1])
                /\ \A v \in voices : HasNone(v)
=============================================================================
