---------------------------- MODULE EngineProofs ----------------------------
(***************************************************************************)
(* The speech engine and the registry of voices it opens, for any disk,    *)
(* any directories, any sizes and any number of samples.                   *)
(***************************************************************************)
EXTENDS Engine, SequenceTheorems, WellFoundedInduction, TLAPS

(* Some natural number is the least of a set of them. *)
LEMMA LeastElement ==
  ASSUME NEW T, T \subseteq Nat, T # {}
  PROVE  \E m \in T : \A n \in T : m <= n
<1>1. PICK m \in T : \A n \in T : ~(<<n, m>> \in OpToRel(<, Nat))
  BY NatLessThanWellFounded, WFMin
<1>2. \A n \in T : ~(n < m)
  BY <1>1 DEF OpToRel
<1> QED
  BY <1>2

-----------------------------------------------------------------------------
(* The registry                                                             *)

IsoNumber == 1 .. 6

LEMMA IsoCodesType ==
  /\ DOMAIN IsoCodes = IsoNumber /\ Len(IsoCodes) = 6
  /\ Range(IsoCodes) = {IsoCodes[i] : i \in IsoNumber}
  /\ Head(IsoCodes) = IsoCodes[1]
<1>1. DOMAIN IsoCodes = IsoNumber /\ Len(IsoCodes) = 6 /\ Head(IsoCodes) = IsoCodes[1]
  BY DEF IsoCodes, IsoNumber
<1> QED
  BY <1>1 DEF Range

(* Every voice has a language and a country of the tables. *)
LEMMA NamesKnown ==
  ASSUME NEW v \in Range(IsoCodes)
  PROVE  v[1] \in Range(Languages) /\ v[2] \in Range(Countries)
<1>1. PICK i \in IsoNumber : v = IsoCodes[i]
  BY IsoCodesType
<1>2. /\ {"en", "de", "es", "fr", "it"} \subseteq Range(Languages)
      /\ {"US", "GB", "DE", "ES", "FR", "IT"} \subseteq Range(Countries)
  <2>1. /\ DOMAIN Languages = 1 .. 5 /\ Languages[1] = "en" /\ Languages[2] = "de"
        /\ Languages[3] = "es" /\ Languages[4] = "fr" /\ Languages[5] = "it"
    BY DEF Languages
  <2>2. /\ DOMAIN Countries = 1 .. 6 /\ Countries[1] = "US" /\ Countries[2] = "GB"
        /\ Countries[3] = "DE" /\ Countries[4] = "ES" /\ Countries[5] = "FR"
        /\ Countries[6] = "IT"
    BY DEF Countries
  <2> QED
    BY <2>1, <2>2 DEF Range
<1>3. /\ v[1] \in {"en", "de", "es", "fr", "it"}
      /\ v[2] \in {"US", "GB", "DE", "ES", "FR", "IT"}
  BY <1>1 DEF IsoCodes, IsoNumber
<1> QED
  BY <1>2, <1>3

(* The search finds the first directory that has the file, if any has it. *)
LEMMA SearchedDirectory ==
  \/ SearchedPath = NoPath /\ \A i \in DOMAIN Directories : ~Holds(Directories[i])
  \/ \E i \in DOMAIN Directories :
       /\ SearchedPath = Directories[i] /\ Holds(Directories[i])
       /\ \A j \in 1 .. i - 1 : ~Holds(Directories[j])
<1> DEFINE I == {i \in 1 .. Len(Directories) : Holds(Directories[i])}
<1>1. DOMAIN Directories = 1 .. Len(Directories) /\ Len(Directories) \in Nat
  BY VoicesAssumption, LenProperties
<1>2. CASE I = {}
  BY <1>1, <1>2 DEF SearchedPath
<1>3. CASE I # {}
  <2>1. SelectInSeq(Directories, Holds) = Min(I)
    BY <1>3 DEF SelectInSeq
  <2>2. I \subseteq Nat
    OBVIOUS
  <2>3. PICK m \in I : \A n \in I : m <= n
    BY <1>3, <2>2, LeastElement
  <2>4. Min(I) = m
    <3>1. \A n \in I : (\A k \in I : n <= k) => n = m
      BY <2>2, <2>3
    <3> QED
      BY <2>3, <3>1 DEF Min
  <2>5. SearchedPath = Directories[m] /\ Holds(Directories[m])
    BY <1>1, <2>1, <2>3, <2>4 DEF SearchedPath
  <2>6. \A j \in 1 .. m - 1 : ~Holds(Directories[j])
    <3>1. \A j \in 1 .. m - 1 : j \in 1 .. Len(Directories) /\ j \notin I
      BY <1>1, <2>3
    <3> QED
      BY <3>1
  <2> QED
    BY <1>1, <2>3, <2>5, <2>6
<1> QED
  BY <1>2, <1>3

LEMMA SearchedType == SearchedPath = NoPath \/ SearchedPath \in Range(Directories)
BY SearchedDirectory DEF Range

(* The loop stores the voices before the first that lacks a file. *)
LEMMA StoredPrefix ==
  \E n \in 0 .. 6 : /\ Reached = 1 .. n
                    /\ Stored = Range(SubSeq(IsoCodes, 1, n))
                    /\ FileMissing <=> n # 6
                    /\ n # 6 => ~Found(IsoCodes[n + 1], SearchedPath)
<1> DEFINE Here(i) == Found(IsoCodes[i], SearchedPath)
           T == {i \in IsoNumber : ~Here(i)}
<1>1. Reached = {i \in IsoNumber : \A j \in 1 .. i : Here(j)}
  BY IsoCodesType DEF Reached
<1> HIDE DEF Here
<1>2. \E n \in 0 .. 6 : Reached = 1 .. n
  <2>1. CASE T = {}
    BY <1>1, <2>1 DEF IsoNumber
  <2>2. CASE T # {}
    <3>1. PICK m \in T : \A n \in T : m <= n
      BY <2>2, LeastElement DEF IsoNumber
    <3>2. Reached = 1 .. m - 1
      BY <1>1, <3>1 DEF IsoNumber
    <3>3. m - 1 \in 0 .. 6
      BY <3>1 DEF IsoNumber
    <3> QED
      BY <3>2, <3>3
  <2> QED
    BY <2>1, <2>2
<1>3. PICK n \in 0 .. 6 : Reached = 1 .. n
  BY <1>2
<1>4. FileMissing <=> n # 6
  BY <1>3, IsoCodesType DEF FileMissing, IsoNumber
<1>5. Stored = Range(SubSeq(IsoCodes, 1, n))
  <2>1. /\ DOMAIN SubSeq(IsoCodes, 1, n) = 1 .. n
        /\ \A i \in 1 .. n : SubSeq(IsoCodes, 1, n)[i] = IsoCodes[i]
    BY IsoCodesType
  <2> QED
    BY <1>3, <2>1 DEF Stored, Range
<1>6. n # 6 => ~Here(n + 1)
  <2> SUFFICES ASSUME n # 6, Here(n + 1) PROVE FALSE
    OBVIOUS
  <2>1. \A j \in 1 .. n : Here(j)
    <3>1. \A j \in 1 .. n : j \in Reached /\ j \in 1 .. j
      BY <1>3
    <3> QED
      BY <1>1, <3>1
  <2>2. n + 1 \in IsoNumber /\ \A j \in 1 .. n + 1 : Here(j)
    BY <2>1 DEF IsoNumber
  <2> QED
    BY <1>1, <1>3, <2>2
<1> QED
  BY <1>3, <1>4, <1>5, <1>6 DEF Here

LEMMA StoredVoices ==
  ASSUME NEW v \in Stored
  PROVE  /\ v \in Range(IsoCodes)
         /\ SearchedPath \in Range(Directories)
         /\ {Ta(v), Sg(v)} \subseteq disk[SearchedPath]
<1>1. PICK i \in IsoNumber : v = IsoCodes[i] /\ \A j \in 1 .. i : Found(IsoCodes[j], SearchedPath)
  BY IsoCodesType DEF Stored, Reached
<1>2. Found(v, SearchedPath)
  BY <1>1 DEF IsoNumber
<1> QED
  BY <1>1, <1>2, IsoCodesType, SearchedType DEF Found

(* The files of the voices that are stored are in one directory.            *)
VoicesInv ==
  /\ disk \in Disks
  /\ voices \subseteq Range(IsoCodes)
  /\ \A v \in voices : /\ voicePath \in Range(Directories)
                       /\ {Ta(v), Sg(v)} \subseteq disk[voicePath]
  /\ RegistryAllOrLocked

LEMMA VoicesInit == RegistryInit => VoicesInv
BY DEF RegistryInit, VoicesInv, RegistryAllOrLocked

LEMMA StaticInitKeeps == ASSUME VoicesInv, StaticInit PROVE VoicesInv'
<1>1. CASE ~Due
  BY <1>1
  DEF StaticInit, registry, statics, VoicesInv, RegistryAllOrLocked, FoundFirst, WasThere,
      HasIds, HasNone, LanguageId, CountryId, Id
<1>2. CASE Due
  <2>1. /\ initLock' = FileMissing /\ voices' = Stored /\ tables' = ~FileMissing
        /\ voicePath' = SearchedPath /\ seen' = disk /\ UNCHANGED disk
    BY <1>2 DEF StaticInit
  <2>2. PICK n \in 0 .. 6 : /\ Stored = Range(SubSeq(IsoCodes, 1, n))
                            /\ FileMissing <=> n # 6
                            /\ n # 6 => ~Found(IsoCodes[n + 1], SearchedPath)
    BY StoredPrefix
  <2>3. RegistryAllOrLocked'
    <3>3. FoundFirst(voicePath)'
      BY <2>1, SearchedDirectory DEF FoundFirst, Holds
    <3>4. \A v \in voices' : WasThere(v)'
      BY <2>1, StoredVoices, VoicesAssumption DEF WasThere
    <3>1. CASE n = 6
      <4>1. voices' = Range(IsoCodes) /\ ~initLock' /\ tables'
        <5>1. IsoCodes \in Seq(Range(IsoCodes))
          BY DEF IsoCodes, Range
        <5>2. SubSeq(IsoCodes, 1, n) = IsoCodes
          BY <3>1, <5>1, IsoCodesType, SubSeqFull
        <5>3. Stored = Range(IsoCodes) /\ ~FileMissing
          BY <2>2, <3>1, <5>2
        <5> QED
          BY <2>1, <5>3
      <4>2. \A v \in voices' : HasIds(v)'
        BY <4>1, NamesKnown DEF HasIds, LanguageId, CountryId, Id, Unknown, Languages,
                                Countries, Range
      <4> QED
        BY <2>1, <2>2, <3>1, <3>3, <3>4, <4>1, <4>2, IsoCodesType DEF RegistryAllOrLocked
    <3>2. CASE n # 6
      <4>1. initLock' /\ ~tables' /\ voices' = Range(SubSeq(IsoCodes, 1, n))
        BY <2>1, <2>2, <3>2
      <4>2. \A v \in voices' : HasNone(v)'
        BY <4>1 DEF HasNone, LanguageId, CountryId, Id
      <4>3. n \in 0 .. Len(IsoCodes) /\ n < Len(IsoCodes)
        BY <3>2, IsoCodesType
      <4>4. ~WasThere(IsoCodes[n + 1])'
        BY <2>1, <2>2, <3>2 DEF WasThere, Found
      <4> QED
        BY <3>3, <3>4, <4>1, <4>2, <4>3, <4>4 DEF RegistryAllOrLocked
    <3> QED
      BY <3>1, <3>2
  <2>4. \A v \in voices' : /\ v \in Range(IsoCodes) /\ voicePath' \in Range(Directories)
                          /\ {Ta(v), Sg(v)} \subseteq disk'[voicePath']
    BY <2>1, StoredVoices
  <2> QED
    BY <2>1, <2>3, <2>4 DEF VoicesInv
<1> QED
  BY <1>1, <1>2

LEMMA InstallKeeps == ASSUME VoicesInv, Install PROVE VoicesInv'
BY DEF Install, statics, VoicesInv, RegistryAllOrLocked, FoundFirst, WasThere, HasIds,
       HasNone, LanguageId, CountryId, Id

LEMMA VoicesSame == ASSUME VoicesInv, UNCHANGED registry PROVE VoicesInv'
BY DEF registry, statics, VoicesInv, RegistryAllOrLocked, FoundFirst, WasThere, HasIds,
       HasNone, LanguageId, CountryId, Id

(* What a step of the engine does to the registry. *)
LEMMA RegistryMoves ==
  ASSUME [Next]_vars
  PROVE  StaticInit \/ Install \/ UNCHANGED registry
<1>1. CASE Lifecycle
  BY <1>1
  DEF Lifecycle, Consult, Construct, Open, Succeed, Fail, Close, Destroy, Dispose, UnloadSg,
      UnloadTa, Release, Terminate, Shut, Free, known
<1>2. CASE Speaking
  BY <1>2
  DEF Speaking, Write, Play, GiveUp, Feed, OpenDevice, Get, Stack, SendAndStack, Flush,
      Finish, outside, known
<1>3. CASE UNCHANGED vars
  BY <1>3 DEF vars
<1> QED
  BY <1>1, <1>2, <1>3 DEF Next

LEMMA VoicesAlways == Spec => []VoicesInv
<1>1. Init => VoicesInv
  BY VoicesInit DEF Init
<1>2. VoicesInv /\ [Next]_vars => VoicesInv'
  BY RegistryMoves, StaticInitKeeps, InstallKeeps, VoicesSame
<1> QED
  BY <1>1, <1>2, PTL DEF Spec

(* The registry is untouched, complete, or locked with the voices before   *)
(* the first that lacked a file in the directory found first, whatever was *)
(* on the disk then and whatever has been added since.                     *)
THEOREM RegistryComplete == Spec => []RegistryAllOrLocked
<1>1. VoicesInv => RegistryAllOrLocked
  BY DEF VoicesInv
<1> QED
  BY <1>1, VoicesAlways, PTL

-----------------------------------------------------------------------------
(* The type of the engine                                                   *)

LotSizes == 0 .. BufferSize \div 2

(* The samples in hand are the last that Pico has returned. *)
TypeInv == TypeOK /\ (pc = "store" => chunk <= retrieved)

LEMMA Sizes ==
  /\ BufferSize \in Nat /\ MaxSamples \in Nat
  /\ LotSizes \subseteq 0 .. BufferSize
  /\ TextSizes \subseteq Nat
<1>1. BufferSize \in Nat /\ MaxSamples \in Nat
  BY BufferAssumption
<1>2. \A k \in LotSizes : k \in 0 .. BufferSize
  BY <1>1 DEF LotSizes
<1> QED
  BY <1>1, <1>2, TextAssumption

(* The length that process() keeps is right up to 32767, and negative from  *)
(* there to 65535.                                                          *)
LEMMA Int16Type ==
  ASSUME NEW n \in Nat
  PROVE  /\ Int16(n) \in Int16s
         /\ n < 32768 => Int16(n) = n
         /\ n >= 32768 /\ n < 65536 => Int16(n) < 0
<1>1. (n + 32768) % 65536 \in Nat /\ (n + 32768) % 65536 < 65536
  OBVIOUS
<1>2. Int16(n) \in Int16s
  <2>1. /\ Int16(n) \in Int
        /\ -32768 <= Int16(n) /\ Int16(n) < 32768
    BY <1>1 DEF Int16
  <2> QED
    BY <2>1 DEF Int16s
<1>3. n < 32768 => (n + 32768) % 65536 = n + 32768
  OBVIOUS
<1>4. n >= 32768 /\ n < 65536 => ((n + 32768) % 65536) - 32768 < 0
  OBVIOUS
<1> QED
  BY <1>2, <1>3, <1>4 DEF Int16

LEMMA SamplesType ==
  ASSUME TypeInv, pc = "store"
  PROVE  /\ NewSamples \in Seq(1 .. MaxSamples)
         /\ Len(NewSamples) = chunk /\ chunk \in Nat
<1>1. chunk \in Nat /\ retrieved \in Nat /\ chunk <= retrieved /\ retrieved <= MaxSamples
  BY Sizes DEF TypeInv, TypeOK, LotSizes
<1>2. \A i \in 1 .. chunk : retrieved - chunk + i \in 1 .. MaxSamples
  BY <1>1, Sizes
<1>3. NewSamples \in [1 .. chunk -> 1 .. MaxSamples]
  BY <1>2 DEF NewSamples
<1>4. NewSamples \in Seq(1 .. MaxSamples)
  BY <1>1, <1>3, SeqDef
<1>5. Len(NewSamples) = chunk
  BY <1>1, <1>3, <1>4, LenProperties
<1> QED
  BY <1>1, <1>4, <1>5

(* What the device has taken after a call of Player::write. *)
LEMMA SendType ==
  ASSUME TypeOK, Send
  PROVE  played' \in Seq(1 .. MaxSamples) /\ whole' \in BOOLEAN
<1>1. CASE played' = played \o buffer /\ UNCHANGED whole
  BY <1>1, ConcatProperties DEF TypeOK
<1>2. CASE /\ whole' = FALSE
           /\ \E n \in 0 .. Len(buffer) - 1 : played' = played \o SubSeq(buffer, 1, n)
  <2>1. PICK n \in 0 .. Len(buffer) - 1 : played' = played \o SubSeq(buffer, 1, n)
    BY <1>2
  <2>2. SubSeq(buffer, 1, n) \in Seq(1 .. MaxSamples)
    <3>1. \A i \in 1 .. n : buffer[i] \in 1 .. MaxSamples
      <4>1. \A i \in 1 .. n : i \in 1 .. Len(buffer)
        BY LenProperties DEF TypeOK
      <4> QED
        BY <4>1, ElementOfSeq DEF TypeOK
    <3> QED
      BY <3>1, SubSeqProperties
  <2> QED
    BY <1>2, <2>1, <2>2, ConcatProperties DEF TypeOK
<1> QED
  BY <1>1, <1>2 DEF Send

LEMMA TypeInit == Init => TypeInv
<1> SUFFICES ASSUME Init PROVE TypeInv
  OBVIOUS
<1>1. Len(Ladder) = 9
  BY DEF Ladder
<1>2. <<>> \in Seq(1 .. MaxSamples) /\ Len(<<>>) = 0
  OBVIOUS
<1>3. 0 \in LotSizes /\ 0 \in 0 .. MaxSamples /\ 0 <= BufferSize
  BY Sizes DEF LotSizes
<1>4. /\ voice \in Range(IsoCodes) \cup {NoVoice}
      /\ held \subseteq Fields /\ pico \subseteq Things
      /\ size \in TextSizes \cup {0} /\ step \in 1 .. 9
      /\ remaining \in Int16s /\ fed \in Nat
      /\ blocks \subseteq Blocks /\ lost \subseteq Blocks /\ opens \in 0 .. 2
  BY DEF Init, Int16s
<1>5. pc = "unborn" /\ call = "none" /\ answer = "none"
  BY DEF Init
<1>6. handle \in BOOLEAN /\ busy \in BOOLEAN /\ whole \in BOOLEAN
  BY DEF Init
<1>7. /\ buffer \in Seq(1 .. MaxSamples) /\ Len(buffer) <= BufferSize
      /\ played \in Seq(1 .. MaxSamples)
      /\ retrieved \in 0 .. MaxSamples /\ chunk \in 0 .. BufferSize \div 2
  BY <1>2, <1>3 DEF Init, LotSizes
<1> QED
  BY <1>1, <1>4, <1>5, <1>6, <1>7 DEF TypeInv, TypeOK

(* A voice that open() or the constructor takes is one of the registry. *)
LEMMA VoiceType ==
  ASSUME VoicesInv', NEW iso
  PROVE  Voice(iso) \in Range(IsoCodes) \cup {NoVoice}
BY DEF VoicesInv, Voice, Exists

LEMMA LifecycleType == ASSUME TypeInv, VoicesInv', Lifecycle PROVE TypeInv'
<1> USE DEF TypeInv, TypeOK, library, heap, speech, known
<1>1. Len(Ladder) = 9
  BY DEF Ladder
<1>2. CASE Consult
  BY <1>2 DEF Consult
<1>3. CASE Construct
  BY <1>3, VoiceType DEF Construct
<1>4. CASE \E iso \in Requests : Open(iso)
  BY <1>1, <1>4, VoiceType DEF Open
<1>5. CASE Succeed \/ Fail
  <2>1. Gain(Ladder[step]) \subseteq Things /\ Gain(Ladder[step]) \ {"definition"} \subseteq Fields
    BY DEF Gain, Things, Fields
  <2>2. pico' \subseteq Things
    BY <1>5, <2>1 DEF Succeed, Fail
  <2>5. blocks' \subseteq Blocks /\ lost' \subseteq Blocks /\ UNCHANGED opens
    BY <1>5 DEF Succeed, Fail, Allocate, Block, Blocks
  <2>3. CASE Succeed
    BY <1>1, <2>1, <2>2, <2>3, <2>5 DEF Succeed, Return
  <2>4. CASE Fail
    <3>1. PICK left \in SUBSET Gain(Ladder[step]) :
            /\ left # {} => Ladder[step] \in {"initialize", "newEngine"}
            /\ held' = held \cup left
      BY <2>4 DEF Fail
    <3>2. left \subseteq Fields
      BY <2>1, <3>1 DEF Gain, Fields
    <3>3. pc' \in {"terminate", "unloadTa", "dispose", "unloadSg"}
      BY <2>4 DEF Fail, FailedAt
    <3> QED
      BY <2>2, <2>4, <2>5, <3>1, <3>2, <3>3 DEF Fail
  <2> QED
    BY <1>5, <2>3, <2>4
<1>6. CASE Close \/ Destroy \/ Dispose \/ UnloadSg \/ UnloadTa
  BY <1>6 DEF Close, Destroy, Dispose, UnloadSg, UnloadTa, Release
<1>7. CASE Terminate \/ Shut \/ Free
  <2>1. CASE Terminate
    BY <2>1 DEF Terminate, Return
  <2>2. CASE Shut
    BY <2>2 DEF Shut, Return
  <2>3. CASE Free
    <3>1. /\ voice' = NoVoice /\ size' = 0 /\ call' = "none" /\ pc' = "unborn"
          /\ blocks' = {} /\ lost' = {} /\ opens' = 0 /\ handle' = FALSE
      BY <2>3 DEF Free
    <3>2. UNCHANGED <<library, step, answer, speech>>
      BY <2>3 DEF Free
    <3>3. voice' \in Range(IsoCodes) \cup {NoVoice} /\ size' \in TextSizes \cup {0}
      BY <3>1
    <3>4. handle' \in BOOLEAN
      BY <3>1
    <3>5. opens' \in 0 .. 2
      BY <3>1
    <3>6. /\ busy' \in BOOLEAN /\ whole' \in BOOLEAN
          /\ (pc' = "store" => chunk' <= retrieved')
      BY <3>1, <3>2
    <3> QED
      BY <3>1, <3>2, <3>3, <3>4, <3>5, <3>6
  <2> QED
    BY <1>7, <2>1, <2>2, <2>3
<1> QED
  BY <1>2, <1>3, <1>4, <1>5, <1>6, <1>7 DEF Lifecycle

LEMMA SpeakingType == ASSUME TypeInv, Speaking PROVE TypeInv'
<1> USE DEF TypeInv, TypeOK, library, heap, speech, known, outside
<1>1. CASE \E n \in TextSizes : Write(n)
  BY <1>1 DEF Write
<1>2. CASE Play
  <2>1. <<>> \in Seq(1 .. MaxSamples) /\ Len(<<>>) = 0
    OBVIOUS
  <2>2. /\ Int16(size + 1) \in Int16s
        /\ 0 \in 0 .. MaxSamples /\ 0 <= BufferSize
    BY Sizes, Int16Type
  <2> QED
    BY <1>2, <2>1, <2>2 DEF Play
<1>3. CASE GiveUp \/ OpenDevice \/ Finish
  <2>1. <<>> \in Seq(1 .. MaxSamples) /\ Len(<<>>) = 0
    OBVIOUS
  <2>2. /\ 0 \in 0 .. MaxSamples /\ 0 <= BufferSize /\ 0 \in 0 .. BufferSize \div 2
        /\ 0 \in Int16s
    BY Sizes DEF LotSizes, Int16s
  <2>3. CASE GiveUp \/ Finish
    <3>1. /\ remaining' = 0 /\ fed' = 0 /\ busy' = FALSE /\ whole' = TRUE
          /\ buffer' = <<>> /\ retrieved' = 0 /\ chunk' = 0 /\ played' = <<>>
      BY <2>3 DEF GiveUp, Finish, Forget
    <3>2. /\ call' = "none" /\ pc' = "idle" /\ handle' \in BOOLEAN
          /\ answer' \in {"played", "failed"}
          /\ UNCHANGED <<library, heap, size, step, known>>
      BY <2>3 DEF GiveUp, Finish, Return
    <3> QED
      BY <2>1, <2>2, <3>1, <3>2
  <2>4. CASE OpenDevice
    BY <2>4 DEF OpenDevice
  <2> QED
    BY <1>3, <2>3, <2>4
<1>4. CASE Feed
  <2>1. remaining' \in Int16s /\ fed' \in Nat
    BY <1>4 DEF Feed, Int16s
  <2> QED
    BY <1>4, <2>1 DEF Feed
<1>5. CASE \E k \in 0 .. BufferSize \div 2, more \in BOOLEAN : Get(k, more)
  <2>1. PICK k \in LotSizes, more \in BOOLEAN : Get(k, more)
    BY <1>5 DEF LotSizes
  <2>2. k \in Nat
    BY <2>1, Sizes
  <2>3. retrieved' = retrieved + k /\ retrieved + k <= MaxSamples /\ chunk' = k
    BY <2>1 DEF Get
  <2>4. retrieved' \in 0 .. MaxSamples /\ chunk' <= retrieved'
    BY <2>2, <2>3, Sizes
  <2> QED
    BY <2>1, <2>3, <2>4 DEF Get, AfterStore, LotSizes
<1>6. CASE Stack
  <2>1. NewSamples \in Seq(1 .. MaxSamples) /\ Len(NewSamples) = chunk
    BY <1>6, SamplesType DEF Stack
  <2>2. buffer' \in Seq(1 .. MaxSamples) /\ Len(buffer') = Len(buffer) + chunk
    BY <1>6, <2>1, ConcatProperties DEF Stack
  <2> QED
    BY <1>6, <2>2 DEF Stack, Fits, AfterStore
<1>7. CASE SendAndStack
  <2>1. buffer' \in Seq(1 .. MaxSamples) /\ Len(buffer') = chunk
    BY <1>7, SamplesType DEF SendAndStack, Restacked
  <2>2. chunk <= BufferSize
    BY Sizes DEF LotSizes
  <2> QED
    BY <1>7, <2>1, <2>2, SendType DEF SendAndStack, AfterStore
<1>8. CASE Flush
  <2>1. played' \in Seq(1 .. MaxSamples) /\ whole' \in BOOLEAN
    BY <1>8, SendType DEF Flush
  <2>2. <<>> \in Seq(1 .. MaxSamples) /\ Len(<<>>) = 0 /\ 0 <= BufferSize
    BY Sizes
  <2> QED
    BY <1>8, <2>1, <2>2 DEF Flush
<1> QED
  BY <1>1, <1>2, <1>3, <1>4, <1>5, <1>6, <1>7, <1>8 DEF Speaking

LEMMA NextType == TypeInv /\ VoicesInv' /\ [Next]_vars => TypeInv'
<1> SUFFICES ASSUME TypeInv, VoicesInv', [Next]_vars PROVE TypeInv'
  OBVIOUS
<1>1. CASE UNCHANGED vars
  BY <1>1 DEF vars, library, heap, speech, TypeInv, TypeOK
<1> QED
  BY <1>1, LifecycleType, SpeakingType DEF Next

LEMMA TypeAlways == Spec => []TypeInv
BY TypeInit, NextType, VoicesAlways, PTL DEF Spec

(* The buffer never holds more than its size, the length of the text is    *)
(* within 16 bits, and every other variable has its type.                  *)
THEOREM EngineTypes == Spec => []TypeOK
BY TypeAlways, PTL DEF TypeInv

-----------------------------------------------------------------------------
(* The calls                                                                *)

Releasing  == {"dispose", "unloadSg", "unloadTa", "terminate"}
Processing == {"feed", "device", "get", "store", "flush"}

(* Where a call may be. *)
CallInv ==
  /\ pc \in {"unborn", "idle"} <=> call = "none"
  /\ pc = "open" => call = "open"
  /\ pc \in Releasing => call \in {"open", "close", "destroy"}
  /\ pc = "shut" => call \in {"close", "destroy"}
  /\ pc = "free" => call = "destroy"
  /\ pc \in Processing => call = "play"

LEMMA CallStep == TypeOK /\ CallInv /\ [Next]_vars => CallInv'
<1> SUFFICES ASSUME TypeOK, CallInv, [Next]_vars PROVE CallInv'
  OBVIOUS
<1> USE DEF CallInv, Releasing, Processing, Return
<1>1. CASE Consult \/ Construct \/ \E iso \in Requests : Open(iso)
  BY <1>1 DEF Consult, Construct, Open
<1>2. CASE Succeed \/ Close \/ Destroy \/ Terminate \/ Shut \/ Free
  BY <1>2 DEF Succeed, Close, Destroy, Terminate, Shut, Free
<1>3. CASE Fail
  BY <1>3 DEF Fail, FailedAt
<1>4. CASE Dispose \/ UnloadSg \/ UnloadTa
  BY <1>4 DEF Dispose, UnloadSg, UnloadTa, Release
<1>5. CASE Speaking
  BY <1>5
  DEF Speaking, Write, Play, GiveUp, Feed, OpenDevice, Get, Stack, SendAndStack, Flush,
      Finish, AfterStore, outside
<1>6. CASE UNCHANGED vars
  BY <1>6 DEF vars
<1> QED
  BY <1>1, <1>2, <1>3, <1>4, <1>5, <1>6 DEF Next, Lifecycle

-----------------------------------------------------------------------------
(* What Pico holds                                                          *)

LEMMA LadderSteps ==
  /\ Len(Ladder) = 9
  /\ Gain(Ladder[1]) = {"system"} /\ FailedAt(Ladder[1]) = "terminate"
  /\ Gain(Ladder[2]) = {"ta"} /\ FailedAt(Ladder[2]) = "unloadTa"
  /\ Gain(Ladder[3]) = {"sg"}
  /\ Gain(Ladder[6]) = {"definition"}
  /\ \A s \in {4, 5, 7, 8} : Gain(Ladder[s]) = {}
  /\ \A s \in 3 .. 8 : FailedAt(Ladder[s]) = "unloadSg"
  /\ Gain(Ladder[9]) = {"engine"} /\ FailedAt(Ladder[9]) = "dispose"
  /\ Ladder[1] = "initialize" /\ Ladder[9] = "newEngine"
  /\ \A s \in 2 .. 8 : Ladder[s] \notin {"initialize", "newEngine"}
BY DEF Ladder, Gain, FailedAt

(* What is alive in Pico before the step s of open(). *)
Acquired(s) ==
  (IF s > 1 THEN {"system"} ELSE {}) \cup (IF s > 2 THEN {"ta"} ELSE {})
    \cup (IF s > 3 THEN {"sg"} ELSE {}) \cup (IF s > 6 THEN {"definition"} ELSE {})

LEMMA AcquiredNext ==
  /\ Acquired(1) = {}
  /\ \A s \in 1 .. 8 : Acquired(s) \cup Gain(Ladder[s]) = Acquired(s + 1)
  /\ Acquired(9) \cup Gain(Ladder[9]) = Things
<1>1. /\ Acquired(1) = {} /\ Acquired(2) = {"system"} /\ Acquired(3) = {"system", "ta"}
      /\ \A s \in {4, 5, 6} : Acquired(s) = {"system", "ta", "sg"}
      /\ \A s \in {7, 8, 9} : Acquired(s) = {"system", "ta", "sg", "definition"}
  BY DEF Acquired
<1>2. \A s \in {1, 2, 3, 6} : Acquired(s) \cup Gain(Ladder[s]) = Acquired(s + 1)
  BY <1>1, LadderSteps
<1>3. \A s \in {4, 5, 7, 8} : Acquired(s) \cup Gain(Ladder[s]) = Acquired(s + 1)
  BY <1>1, LadderSteps
<1>4. Acquired(9) \cup Gain(Ladder[9]) = Things
  BY <1>1, LadderSteps DEF Things, Fields
<1>5. \A s \in 1 .. 8 : s \in {1, 2, 3, 6} \/ s \in {4, 5, 7, 8}
  OBVIOUS
<1> QED
  BY <1>1, <1>2, <1>3, <1>4, <1>5

(* The fields name what is alive, the definition apart.  Outside of open() *)
(* and close() everything is held or nothing; at each step of open() what  *)
(* the steps before have brought; and at each label of the release what    *)
(* comes before it is gone, and the system is there to release the rest.   *)
HoldInv ==
  /\ pico \subseteq Things /\ held = pico \ {"definition"}
  /\ "definition" \in pico => "system" \in pico
  /\ pc \in {"unborn", "shut", "free"} => pico = {}
  /\ pc \in {"idle"} \cup Processing => pico \in {{}, Things}
  /\ pc \in Processing \ {"feed"} => pico = Things
  /\ pc = "open" => pico = Acquired(step)
  /\ pc = "dispose" => {"system", "ta", "sg", "definition"} \subseteq pico
  /\ pc = "unloadSg" => "system" \in pico /\ "engine" \notin pico
  /\ pc = "unloadTa" => "system" \in pico /\ {"engine", "sg"} \cap pico = {}
  /\ pc = "terminate" => {"engine", "sg", "ta"} \cap pico = {}

(* The sound device is open only with an engine, or until close() is over. *)
DeviceInv ==
  /\ call = "open" => ~handle
  /\ handle /\ call \notin {"close", "destroy"} => pico = Things

LEMMA AcquireKeeps ==
  ASSUME TypeOK, CallInv, HoldInv, DeviceInv, Succeed \/ Fail
  PROVE  HoldInv' /\ DeviceInv'
<1> USE DEF HoldInv, Releasing, Processing, Things, Fields
<1>1. step \in 1 .. 9 /\ pc = "open" /\ call = "open" /\ ~handle
  BY LadderSteps DEF TypeOK, CallInv, DeviceInv, Succeed, Fail
<1>2. CASE Succeed
  <2>1. CASE step < 9
    <3>1. pc' = "open" /\ step' = step + 1 /\ pico' = Acquired(step') /\ UNCHANGED <<handle, call>>
      BY <1>1, <1>2, <2>1, LadderSteps, AcquiredNext DEF Succeed
    <3>2. held' = pico' \ {"definition"}
      BY <1>2 DEF Succeed
    <3> QED
      BY <1>1, <2>1, <3>1, <3>2 DEF Acquired, DeviceInv
  <2>2. CASE step = 9
    <3>1. pc' = "idle" /\ pico' = Things /\ ~handle'
      BY <1>1, <1>2, <2>2, LadderSteps, AcquiredNext DEF Succeed, Return
    <3>2. held' = pico' \ {"definition"}
      BY <1>2 DEF Succeed
    <3> QED
      BY <3>1, <3>2 DEF DeviceInv
  <2> QED
    BY <1>1, <2>1, <2>2
<1>3. CASE Fail
  <2>1. PICK left \in SUBSET Gain(Ladder[step]) :
          /\ left # {} => Ladder[step] \in {"initialize", "newEngine"}
          /\ pico' = pico \cup left /\ held' = held \cup left
    BY <1>3 DEF Fail
  <2>2. pc' = FailedAt(Ladder[step]) /\ UNCHANGED <<handle, call>>
    BY <1>3 DEF Fail
  <2>3. CASE step = 1
    <3>1. pico = {} /\ held = {} /\ left \subseteq {"system"}
      BY <1>1, <2>1, <2>3, LadderSteps, AcquiredNext
    <3> QED
      BY <1>1, <2>1, <2>2, <2>3, <3>1, LadderSteps DEF DeviceInv
  <2>4. CASE step = 9
    BY <1>1, <2>1, <2>2, <2>4, LadderSteps DEF Acquired, DeviceInv
  <2>5. CASE step = 2
    BY <1>1, <2>1, <2>2, <2>5, LadderSteps DEF Acquired, DeviceInv
  <2>6. CASE step \in 3 .. 8
    BY <1>1, <2>1, <2>2, <2>6, LadderSteps DEF Acquired, DeviceInv
  <2> QED
    BY <1>1, <2>3, <2>4, <2>5, <2>6
<1> QED
  BY <1>2, <1>3

LEMMA ReleaseKeeps ==
  ASSUME TypeOK, CallInv, HoldInv, DeviceInv, Dispose \/ UnloadSg \/ UnloadTa \/ Terminate
           \/ Shut \/ Free
  PROVE  HoldInv' /\ DeviceInv'
<1> USE DEF HoldInv, DeviceInv, Releasing, Processing, Things, Fields
<1>1. CASE Dispose
  BY <1>1 DEF Dispose, Release, library, CallInv
<1>2. CASE UnloadSg
  BY <1>2 DEF UnloadSg, Release, library
<1>3. CASE UnloadTa
  BY <1>3 DEF UnloadTa, Release, library
<1>4. CASE Terminate
  BY <1>4 DEF Terminate, Return, CallInv
<1>5. CASE Shut
  BY <1>5 DEF Shut, Return, library
<1>6. CASE Free
  BY <1>6 DEF Free, library
<1> QED
  BY <1>1, <1>2, <1>3, <1>4, <1>5, <1>6

LEMMA HoldStep ==
  TypeOK /\ CallInv /\ HoldInv /\ DeviceInv /\ [Next]_vars => HoldInv' /\ DeviceInv'
<1> SUFFICES ASSUME TypeOK, CallInv, HoldInv, DeviceInv, [Next]_vars
             PROVE  HoldInv' /\ DeviceInv'
  OBVIOUS
<1> USE DEF library, Processing, Releasing
<1>1. CASE Consult \/ Construct
  BY <1>1 DEF Consult, Construct, HoldInv, DeviceInv
<1>2. CASE \E iso \in Requests : Open(iso)
  <2>1. UNCHANGED <<held, pico, handle>> /\ pc = "idle" /\ step' = 1
    BY <1>2 DEF Open
  <2>2. CASE pc' = "open" /\ ~IsOpen
    <3>1. pico = {} /\ ~handle
      BY <2>1, <2>2 DEF HoldInv, DeviceInv, CallInv, IsOpen, Things, Fields
    <3> QED
      BY <2>1, <2>2, <3>1 DEF HoldInv, DeviceInv, Acquired, Things, Fields
  <2>3. CASE UNCHANGED <<pc, call>>
    BY <2>1, <2>3 DEF HoldInv, DeviceInv
  <2> QED
    BY <1>2, <2>2, <2>3 DEF Open
<1>3. CASE Close \/ Destroy
  BY <1>3 DEF Close, Destroy, HoldInv, DeviceInv, CallInv, IsOpen, Things, Fields
<1>4. CASE Speaking
  <2>1. CASE OpenDevice
    BY <2>1 DEF OpenDevice, HoldInv, DeviceInv, CallInv
  <2>2. CASE Feed
    BY <2>2 DEF Feed, outside, HoldInv, DeviceInv, IsOpen
  <2>3. CASE (\E n \in TextSizes : Write(n)) \/ Play
    BY <2>3 DEF Write, Play, HoldInv, DeviceInv, CallInv
  <2>4. CASE GiveUp \/ Finish
    BY <2>4 DEF GiveUp, Finish, Return, HoldInv, DeviceInv, CallInv
  <2>5. CASE \/ \E k \in 0 .. BufferSize \div 2, more \in BOOLEAN : Get(k, more)
             \/ Stack \/ SendAndStack \/ Flush
    <3>1. /\ UNCHANGED <<held, pico, handle, call>>
          /\ pc \in {"get", "store", "flush"} /\ pc' \in Processing
      BY <2>5 DEF Get, Stack, SendAndStack, Flush, AfterStore, outside
    <3> QED
      BY <3>1 DEF HoldInv, DeviceInv
  <2> QED
    BY <1>4, <2>1, <2>2, <2>3, <2>4, <2>5 DEF Speaking
<1>5. CASE UNCHANGED vars
  BY <1>5 DEF vars, HoldInv, DeviceInv
<1> QED
  BY <1>1, <1>2, <1>3, <1>4, <1>5, AcquireKeeps, ReleaseKeeps DEF Next, Lifecycle

-----------------------------------------------------------------------------
(* The theorems about open() and close()                                    *)

HoldsInv == CallInv /\ HoldInv /\ DeviceInv

LEMMA HoldsAlways == Spec => [](TypeOK /\ HoldsInv)
<1>1. Init => HoldsInv
  BY DEF Init, HoldsInv, CallInv, HoldInv, DeviceInv, Releasing, Processing, Things, Fields
<1>2. TypeOK /\ HoldsInv /\ [Next]_vars => HoldsInv'
  BY CallStep, HoldStep DEF HoldsInv
<1> QED
  BY <1>1, <1>2, EngineTypes, PTL DEF Spec

(* When open() has failed, at whichever step, when close() has returned    *)
(* and once the engine is destroyed, nothing of Pico is held or left alive *)
(* and the device is not open.                                             *)
THEOREM NoLibraryHeld == Spec => []ClosedHoldsNoLibrary
<1>1. HoldsInv => ClosedHoldsNoLibrary
  BY DEF HoldsInv, CallInv, HoldInv, DeviceInv, ClosedHoldsNoLibrary, IsOpen, Things, Fields
<1> QED
  BY <1>1, HoldsAlways, PTL

(* Nothing is released while something made from it is in use, at each     *)
(* step of open(), of its failure and of close().                          *)
THEOREM NothingStale == Spec => []NothingUsedAfterRelease
<1>1. TypeOK /\ HoldsInv => NothingUsedAfterRelease
  <2> SUFFICES ASSUME TypeOK, HoldsInv, NEW x \in pico PROVE Needs(x) \subseteq pico
    BY DEF NothingUsedAfterRelease, HoldsInv, HoldInv
  <2> USE DEF HoldsInv, HoldInv, Things, Fields
  <2>1. CASE x = "engine"
    <3>1. {"system", "ta", "sg", "definition"} \subseteq pico
      BY <2>1, LadderSteps DEF TypeOK, Acquired, Processing
    <3> QED
      BY <2>1, <3>1 DEF Needs
  <2>2. CASE x \in {"ta", "sg", "definition"}
    <3>1. "system" \in pico
      BY <2>2, LadderSteps DEF TypeOK, Acquired, Processing
    <3> QED
      BY <2>2, <3>1 DEF Needs
  <2>3. CASE x = "system"
    BY <2>3 DEF Needs
  <2> QED
    BY <2>1, <2>2, <2>3
<1> QED
  BY <1>1, HoldsAlways, PTL

(* The fields that have a block before the step s of an engine's first     *)
(* open().                                                                 *)
Given(s) ==
  (IF s > 1 THEN {"memory"} ELSE {}) \cup (IF s > 4 THEN {"taName"} ELSE {})
    \cup (IF s > 5 THEN {"sgName"} ELSE {})

LEMMA GivenNext ==
  /\ Given(1) = {} /\ Given(9) = Blocks
  /\ \A s \in 1 .. 8 : /\ Given(s) \cup Block(Ladder[s]) = Given(s + 1)
                      /\ Given(s) \cap Block(Ladder[s]) = {}
  /\ Block(Ladder[9]) = {}
<1>1. /\ Block(Ladder[1]) = {"memory"} /\ Block(Ladder[4]) = {"taName"}
      /\ Block(Ladder[5]) = {"sgName"}
      /\ \A s \in {2, 3, 6, 7, 8, 9} : Block(Ladder[s]) = {}
  BY DEF Ladder, Block
<1>2. /\ Given(1) = {} /\ \A s \in {2, 3, 4} : Given(s) = {"memory"}
      /\ Given(5) = {"memory", "taName"} /\ \A s \in {6, 7, 8, 9} : Given(s) = Blocks
  BY DEF Given, Blocks
<1>3. \A s \in {1, 4, 5} : /\ Given(s) \cup Block(Ladder[s]) = Given(s + 1)
                          /\ Given(s) \cap Block(Ladder[s]) = {}
  BY <1>1, <1>2 DEF Blocks
<1>4. \A s \in {2, 3, 6, 7, 8} : /\ Given(s) \cup Block(Ladder[s]) = Given(s + 1)
                                /\ Given(s) \cap Block(Ladder[s]) = {}
  BY <1>1, <1>2
<1>5. \A s \in 1 .. 8 : s \in {1, 4, 5} \/ s \in {2, 3, 6, 7, 8}
  OBVIOUS
<1> QED
  BY <1>1, <1>2, <1>3, <1>4, <1>5

(* The first open() of an engine gives each field its block once; only a   *)
(* further one finds a block where it puts another.                        *)
HeapInv ==
  /\ opens = 0 => blocks = {} /\ lost = {}
  /\ opens = 1 => lost = {} /\ (pc = "open" => blocks = Given(step))
  /\ pc = "open" => opens # 0 /\ Given(step) \subseteq blocks
  /\ pc = "unborn" => opens = 0
  /\ pico # {} => "memory" \in blocks
  /\ IsOpen => blocks = Blocks

LEMMA AllocateKeeps ==
  ASSUME TypeOK, TypeOK', HoldsInv, HeapInv, Succeed \/ Fail
  PROVE  HeapInv'
<1>1. /\ step \in 1 .. 9 /\ pc = "open" /\ opens # 0 /\ Allocate /\ UNCHANGED opens
      /\ pc' # "unborn" /\ Given(step) \subseteq blocks /\ blocks \subseteq Blocks
      /\ pico = Acquired(step) /\ held = pico \ {"definition"} /\ blocks' \subseteq Blocks
      /\ opens = 1 => lost = {} /\ blocks = Given(step)
  BY LadderSteps
  DEF TypeOK, HoldsInv, HoldInv, HeapInv, Succeed, Fail, FailedAt, Return, Allocate
<1>2. opens = 1 => lost' = {} /\ blocks' = Given(step) \cup Block(Ladder[step])
  <2>1. Given(step) \cap Block(Ladder[step]) = {}
    BY <1>1, GivenNext
  <2> QED
    BY <1>1, <2>1 DEF Allocate
<1>3. pc' = "open" => /\ step \in 1 .. 8 /\ step' = step + 1
                      /\ Given(step) \cup Block(Ladder[step]) = Given(step')
  BY <1>1, LadderSteps, GivenNext DEF Succeed, Fail, FailedAt, Return
<1>4. "memory" \in blocks'
  <2>1. CASE step = 1
    BY <1>1, <2>1 DEF Allocate, Block, Ladder
  <2>2. CASE step # 1
    BY <1>1, <2>2 DEF Allocate, Given
  <2> QED
    BY <2>1, <2>2
<1>5. IsOpen' => blocks' = Blocks
  <2>1. CASE step = 9
    BY <1>1, <2>1, GivenNext DEF Allocate
  <2>2. CASE step # 9
    <3>1. "engine" \notin Gain(Ladder[step])
      BY <1>1, <2>2 DEF Gain, Ladder
    <3>2. "engine" \notin held'
      BY <1>1, <3>1 DEF Succeed, Fail, Acquired
    <3> QED
      BY <3>2 DEF IsOpen
  <2> QED
    BY <2>1, <2>2
<1> QED
  BY <1>1, <1>2, <1>3, <1>4, <1>5 DEF HeapInv, Allocate

LEMMA HeapStep == TypeOK /\ TypeOK' /\ HoldsInv /\ HeapInv /\ [Next]_vars => HeapInv'
<1> SUFFICES ASSUME TypeOK, TypeOK', HoldsInv, HeapInv, [Next]_vars PROVE HeapInv'
  OBVIOUS
<1> USE DEF library, heap, IsOpen
<1>1. CASE Consult \/ Construct
  BY <1>1 DEF Consult, Construct, HeapInv
<1>2. CASE \E iso \in Requests : Open(iso)
  <2>1. UNCHANGED <<held, pico, blocks, lost>> /\ pc = "idle" /\ step' = 1 /\ pc' # "unborn"
    BY <1>2 DEF Open
  <2>2. CASE opens' = (IF opens = 0 THEN 1 ELSE 2)
    BY <2>1, <2>2, GivenNext DEF HeapInv
  <2>3. CASE UNCHANGED <<pc, opens>>
    BY <2>1, <2>3 DEF HeapInv
  <2> QED
    BY <1>2, <2>2, <2>3 DEF Open
<1>3. CASE Close \/ Destroy
  BY <1>3 DEF Close, Destroy, HeapInv
<1>4. CASE Dispose \/ UnloadSg \/ UnloadTa
  BY <1>4 DEF Dispose, UnloadSg, UnloadTa, Release, HeapInv
<1>5. CASE Terminate \/ Shut
  BY <1>5 DEF Terminate, Shut, Return, HeapInv
<1>6. CASE Free
  BY <1>6 DEF Free, HeapInv, HoldsInv, HoldInv
<1>7. CASE Speaking
  <2>1. UNCHANGED <<held, pico, blocks, lost, opens>> /\ pc' \notin {"open", "unborn"}
    BY <1>7
    DEF Speaking, Write, Play, GiveUp, Feed, OpenDevice, Get, Stack, SendAndStack, Flush,
        Finish, Return, AfterStore, outside
  <2> QED
    BY <2>1 DEF HeapInv
<1>8. CASE UNCHANGED vars
  BY <1>8 DEF vars, HeapInv
<1> QED
  BY <1>1, <1>2, <1>3, <1>4, <1>5, <1>6, <1>7, <1>8, AllocateKeeps DEF Next, Lifecycle

(* What lives in Pico has its memory until it is gone, an open engine has  *)
(* all its blocks, and an engine that is opened once loses none, whichever *)
(* call fails.                                                             *)
THEOREM BlocksKept == Spec => []BlocksOutlivePico
<1>1. Init => HeapInv
  BY DEF Init, HeapInv, IsOpen
<1>2. TypeOK /\ HeapInv => BlocksOutlivePico
  BY DEF HeapInv, BlocksOutlivePico, TypeOK
<1> QED
  BY <1>1, <1>2, HeapStep, HoldsAlways, PTL DEF Spec

(* open() goes on with a voice of the registry only. *)
OpensKnown == call = "open" => voice \in voices

LEMMA KnownStep == CallInv /\ OpensKnown /\ [Next]_vars => OpensKnown'
<1> SUFFICES ASSUME CallInv, OpensKnown, [Next]_vars PROVE OpensKnown'
  OBVIOUS
<1> USE DEF OpensKnown, CallInv, Return, known, registry, statics
<1>1. CASE Consult \/ Construct
  BY <1>1 DEF Consult, Construct
<1>2. CASE \E iso \in Requests : Open(iso)
  BY <1>2 DEF Open, Accepts, Exists, Voice
<1>3. CASE Succeed \/ Fail \/ Close \/ Destroy \/ Terminate \/ Shut \/ Free
  BY <1>3 DEF Succeed, Fail, Close, Destroy, Terminate, Shut, Free
<1>4. CASE Dispose \/ UnloadSg \/ UnloadTa
  BY <1>4 DEF Dispose, UnloadSg, UnloadTa, Release
<1>5. CASE Speaking
  BY <1>5
  DEF Speaking, Write, Play, GiveUp, Feed, OpenDevice, Get, Stack, SendAndStack, Flush,
      Finish, outside
<1>6. CASE UNCHANGED vars
  BY <1>6 DEF vars
<1> QED
  BY <1>1, <1>2, <1>3, <1>4, <1>5, <1>6 DEF Next, Lifecycle

(* Pico is only given the files of a voice that has both, for any disk and *)
(* whatever is installed meanwhile.                                        *)
THEOREM FilesThere == Spec => []OpensWithFiles
<1>1. Init => OpensKnown
  BY DEF Init, OpensKnown
<1>2. VoicesInv /\ OpensKnown => OpensWithFiles
  BY VoicesAssumption DEF VoicesInv, OpensKnown, OpensWithFiles
<1>3. HoldsInv => CallInv
  BY DEF HoldsInv
<1> QED
  BY <1>1, <1>2, <1>3, KnownStep, VoicesAlways, HoldsAlways, PTL DEF Spec

-----------------------------------------------------------------------------
(* The samples                                                              *)

(* How many samples came before the lot in hand, and how many of them have *)
(* left the buffer.                                                        *)
Taken == IF pc = "store" THEN retrieved - chunk ELSE retrieved
Sent  == Taken - Len(buffer)

Increasing(s) == \A i, j \in 1 .. Len(s) : i < j => s[i] < s[j]

(* The buffer holds the samples that follow those sent, the device has     *)
(* taken some of those sent, in their order, or all of them.               *)
PlayInv ==
  /\ Len(buffer) <= Taken
  /\ \A i \in 1 .. Len(buffer) : buffer[i] = Sent + i
  /\ \A i \in 1 .. Len(played) : played[i] <= Sent
  /\ whole => Len(played) = Sent /\ \A i \in 1 .. Len(played) : played[i] = i
  /\ pc = "feed" => buffer = <<>>

SampleInv == Increasing(played) /\ (call = "play" => PlayInv)

LEMMA Lengths ==
  ASSUME TypeInv
  PROVE  /\ Len(buffer) \in Nat /\ Len(played) \in Nat /\ Taken \in Nat
         /\ retrieved \in Nat /\ chunk \in Nat /\ Sent \in Int
         /\ \A i \in 1 .. Len(buffer) : buffer[i] \in Nat
         /\ \A i \in 1 .. Len(played) : played[i] \in Nat
<1>1. retrieved \in Nat /\ chunk \in Nat /\ (pc = "store" => chunk <= retrieved)
  BY Sizes DEF TypeInv, TypeOK, LotSizes
<1>2. Len(buffer) \in Nat /\ Len(played) \in Nat
  BY LenProperties DEF TypeInv, TypeOK
<1>3. Taken \in Nat /\ Sent \in Int
  BY <1>1, <1>2 DEF Taken, Sent
<1>4. /\ \A i \in 1 .. Len(buffer) : buffer[i] \in 1 .. MaxSamples
      /\ \A i \in 1 .. Len(played) : played[i] \in 1 .. MaxSamples
  BY ElementOfSeq DEF TypeInv, TypeOK
<1> QED
  BY <1>1, <1>2, <1>3, <1>4, Sizes

(* The device goes on where it was: what it takes of the buffer follows    *)
(* what it has taken.                                                      *)
LEMMA SendMoves ==
  ASSUME TypeInv, SampleInv, call = "play", Send
  PROVE  /\ Increasing(played')
         /\ \A i \in 1 .. Len(played') : played'[i] <= Taken
         /\ whole' => Len(played') = Taken /\ \A i \in 1 .. Len(played') : played'[i] = i
<1>1. PICK n \in 0 .. Len(buffer) :
        /\ played' = played \o SubSeq(buffer, 1, n)
        /\ whole' => n = Len(buffer) /\ whole
  <2>1. CASE played' = played \o buffer /\ UNCHANGED whole
    <3>1. SubSeq(buffer, 1, Len(buffer)) = buffer /\ Len(buffer) \in 0 .. Len(buffer)
      BY Lengths, SubSeqFull DEF TypeInv, TypeOK
    <3> QED
      BY <2>1, <3>1
  <2>2. CASE /\ whole' = FALSE
             /\ \E n \in 0 .. Len(buffer) - 1 : played' = played \o SubSeq(buffer, 1, n)
    <3>1. PICK n \in 0 .. Len(buffer) - 1 : played' = played \o SubSeq(buffer, 1, n)
      BY <2>2
    <3>2. n \in 0 .. Len(buffer) /\ ~whole'
      BY <2>2, <3>1, Lengths
    <3> QED
      BY <3>1, <3>2
  <2> QED
    BY <2>1, <2>2 DEF Send
<1> DEFINE p == Len(played)
           part == SubSeq(buffer, 1, n)
<1>2. /\ p \in Nat /\ n \in Nat /\ n <= Len(buffer) /\ Len(buffer) \in Nat
      /\ Taken \in Nat /\ Sent = Taken - Len(buffer)
  BY Lengths DEF Sent
<1>3. part \in Seq(Nat) /\ Len(part) = n /\ \A i \in 1 .. n : part[i] = Sent + i
  <2>1. \A i \in 1 .. n : i \in 1 .. Len(buffer) /\ buffer[i] = Sent + i /\ buffer[i] \in Nat
    BY <1>2, Lengths DEF SampleInv, PlayInv
  <2>2. part \in Seq(Nat) /\ Len(part) = n
    BY <1>2, <2>1, SubSeqProperties
  <2>3. \A i \in 1 .. n : part[i] = buffer[i]
    BY <1>2, <2>1 DEF TypeInv, TypeOK
  <2> QED
    BY <2>1, <2>2, <2>3
<1>4. played \in Seq(Nat)
  BY Lengths, SeqMonotonic, Sizes DEF TypeInv, TypeOK
<1> HIDE DEF part
<1>5. /\ Len(played') = p + n
      /\ \A i \in 1 .. p : played'[i] = played[i]
      /\ \A i \in p + 1 .. p + n : played'[i] = Sent + (i - p)
  BY <1>1, <1>2, <1>3, <1>4, ConcatProperties DEF part
<1>6. \A i \in 1 .. p : played[i] \in Nat /\ played[i] <= Sent
  BY Lengths DEF SampleInv, PlayInv
<1>7. \A i, j \in 1 .. p : i < j => played[i] < played[j]
  BY DEF SampleInv, Increasing
<1> HIDE DEF p
<1>8. \A i \in 1 .. p + n : i \in 1 .. p \/ i \in p + 1 .. p + n
  BY <1>2
<1>9. Sent \in Int
  BY <1>2
<1>10. Increasing(played')
  <2> SUFFICES ASSUME NEW i \in 1 .. p + n, NEW j \in 1 .. p + n, i < j
               PROVE  played'[i] < played'[j]
    BY <1>5 DEF Increasing
  <2>1. CASE j \in 1 .. p
    BY <1>2, <1>5, <1>7, <2>1
  <2>2. CASE j \in p + 1 .. p + n
    BY <1>2, <1>5, <1>6, <1>8, <1>9, <2>2
  <2> QED
    BY <1>8, <2>1, <2>2
<1>11. \A i \in 1 .. Len(played') : played'[i] <= Taken
  BY <1>2, <1>5, <1>6, <1>8
<1>12. whole' => Len(played') = Taken /\ \A i \in 1 .. Len(played') : played'[i] = i
  <2> SUFFICES ASSUME whole'
               PROVE  Len(played') = Taken /\ \A i \in 1 .. Len(played') : played'[i] = i
    OBVIOUS
  <2>1. n = Len(buffer) /\ p = Sent /\ \A i \in 1 .. p : played[i] = i
    BY <1>1 DEF SampleInv, PlayInv, p
  <2> QED
    BY <1>2, <1>5, <1>8, <2>1
<1> QED
  BY <1>10, <1>11, <1>12

LEMMA SampleStep ==
  TypeInv /\ TypeInv' /\ CallInv /\ SampleInv /\ [Next]_vars => SampleInv'
<1> SUFFICES ASSUME TypeInv, TypeInv', CallInv, SampleInv, [Next]_vars
             PROVE  SampleInv'
  OBVIOUS
<1> USE DEF library, heap, speech, known, outside
<1>1. CASE Lifecycle
  <2>1. UNCHANGED played /\ call' # "play"
    <3> USE DEF CallInv, Releasing, Return
    <3>1. CASE Consult \/ Construct \/ \E iso \in Requests : Open(iso)
      BY <3>1 DEF Consult, Construct, Open
    <3>2. CASE Succeed \/ Fail \/ Close \/ Destroy \/ Terminate \/ Shut \/ Free
      BY <3>2 DEF Succeed, Fail, Close, Destroy, Terminate, Shut, Free
    <3>3. CASE Dispose \/ UnloadSg \/ UnloadTa
      BY <3>3 DEF Dispose, UnloadSg, UnloadTa, Release
    <3> QED
      BY <1>1, <3>1, <3>2, <3>3 DEF Lifecycle
  <2> QED
    BY <2>1 DEF SampleInv, Increasing
<1>2. CASE (\E n \in TextSizes : Write(n)) \/ GiveUp \/ Finish
  <2>1. CASE \E n \in TextSizes : Write(n)
    <3>1. UNCHANGED played /\ call' # "play"
      BY <2>1 DEF Write, CallInv
    <3> QED
      BY <3>1 DEF SampleInv, Increasing
  <2>2. CASE GiveUp \/ Finish
    <3>1. played' = <<>> /\ call' # "play"
      BY <2>2 DEF GiveUp, Finish, Return, Forget
    <3> QED
      BY <3>1 DEF SampleInv, Increasing
  <2> QED
    BY <1>2, <2>1, <2>2
<1>3. CASE Play
  <2>1. /\ buffer' = <<>> /\ played' = <<>> /\ retrieved' = 0 /\ pc' = "feed"
        /\ Len(buffer') = 0 /\ Len(played') = 0
    BY <1>3 DEF Play
  <2>2. Taken' = 0 /\ Sent' = 0
    <3>1. Taken' = 0
      BY <2>1 DEF Taken
    <3>2. Sent' = 0 - 0
      BY <2>1, <3>1 DEF Sent
    <3> QED
      BY <3>1, <3>2
  <2>3. Increasing(played')
    BY <2>1 DEF Increasing
  <2>4. PlayInv'
    BY <2>1, <2>2 DEF PlayInv
  <2> QED
    BY <2>3, <2>4 DEF SampleInv
<1> DEFINE Same == UNCHANGED <<call, played, whole>>
<1>4. CASE Feed \/ OpenDevice \/ \E k \in 0 .. BufferSize \div 2, more \in BOOLEAN : Get(k, more)
  <2>1. Same /\ UNCHANGED buffer /\ pc # "store" /\ pc' # "feed"
    BY <1>4 DEF Feed, OpenDevice, Get, AfterStore
  <2>2. Taken' = Taken
    <3>1. CASE Feed \/ OpenDevice
      BY <3>1 DEF Feed, OpenDevice, Taken
    <3>2. CASE \E k \in 0 .. BufferSize \div 2, more \in BOOLEAN : Get(k, more)
      <4>1. PICK k \in LotSizes, more \in BOOLEAN : Get(k, more)
        BY <3>2 DEF LotSizes
      <4>2. k \in Nat /\ retrieved \in Nat
        BY <4>1, Sizes, Lengths
      <4>3. /\ pc = "get" /\ retrieved' = retrieved + k /\ chunk' = k
            /\ IF k > 0 THEN pc' = "store" ELSE pc' \in {"get", "flush"}
        BY <4>1 DEF Get, AfterStore
      <4> QED
        BY <4>2, <4>3 DEF Taken
    <3> QED
      BY <1>4, <3>1, <3>2
  <2>3. Sent' = Sent
    BY <2>1, <2>2 DEF Sent
  <2>4. call = "play" => PlayInv
    BY DEF SampleInv
  <2>5. call' = "play" => PlayInv'
    BY <2>1, <2>2, <2>3, <2>4 DEF PlayInv
  <2> QED
    BY <2>1, <2>2, <2>5 DEF SampleInv, Increasing
<1>5. CASE Stack
  <2>1. /\ pc = "store" /\ call = "play" /\ Same /\ buffer' = buffer \o NewSamples
        /\ UNCHANGED retrieved /\ pc' \in {"get", "flush"}
    BY <1>5 DEF Stack, AfterStore, CallInv, Processing
  <2>2. /\ NewSamples \in Seq(1 .. MaxSamples) /\ Len(NewSamples) = chunk
        /\ \A i \in 1 .. chunk : NewSamples[i] = retrieved - chunk + i
    BY <2>1, SamplesType DEF NewSamples
  <2>3. /\ Len(buffer) \in Nat /\ chunk \in Nat /\ retrieved \in Nat
        /\ Taken = retrieved - chunk /\ Taken' = retrieved
    BY <2>1, Lengths DEF Taken
  <2>4. /\ Len(buffer') = Len(buffer) + chunk
        /\ \A i \in 1 .. Len(buffer) + chunk :
             buffer'[i] = IF i <= Len(buffer) THEN buffer[i] ELSE NewSamples[i - Len(buffer)]
    BY <2>1, <2>2, ConcatProperties DEF TypeInv, TypeOK
  <2>5. Sent' = Sent
    BY <2>3, <2>4 DEF Sent
  <2>6. PlayInv
    BY <2>1 DEF SampleInv
  <2>7. \A i \in 1 .. Len(buffer') : buffer'[i] = Sent' + i
    <3> SUFFICES ASSUME NEW i \in 1 .. Len(buffer) + chunk PROVE buffer'[i] = Sent + i
      BY <2>4, <2>5
    <3>1. CASE i <= Len(buffer)
      BY <2>3, <2>4, <2>6, <3>1 DEF PlayInv
    <3>2. CASE ~(i <= Len(buffer))
      <4>1. i - Len(buffer) \in 1 .. chunk
        BY <2>3, <3>2
      <4>2. buffer'[i] = retrieved - chunk + (i - Len(buffer))
        BY <2>2, <2>4, <3>2, <4>1
      <4> QED
        BY <2>3, <4>2 DEF Sent
    <3> QED
      BY <3>1, <3>2
  <2>8. Len(buffer') <= Taken'
    BY <2>3, <2>4, <2>6 DEF PlayInv
  <2> QED
    BY <2>1, <2>5, <2>6, <2>7, <2>8 DEF SampleInv, Increasing, PlayInv
<1>6. CASE SendAndStack
  <2>1. /\ pc = "store" /\ call = "play" /\ Send /\ buffer' = NewSamples
        /\ UNCHANGED <<call, retrieved>> /\ pc' \in {"get", "flush"}
    BY <1>6 DEF SendAndStack, Restacked, AfterStore, CallInv, Processing
  <2>2. /\ Len(buffer') = chunk /\ chunk \in Nat /\ retrieved \in Nat
        /\ \A i \in 1 .. chunk : buffer'[i] = retrieved - chunk + i
    BY <2>1, SamplesType, Lengths DEF NewSamples
  <2>3. Taken' = retrieved /\ Sent' = retrieved - chunk /\ Taken = retrieved - chunk
    BY <2>1, <2>2 DEF Taken, Sent
  <2>4. Len(buffer') <= Taken'
    BY <2>2, <2>3, Lengths
  <2> QED
    BY <2>1, <2>2, <2>3, <2>4, SendMoves DEF SampleInv, PlayInv
<1>7. CASE Flush
  <2>1. /\ pc = "flush" /\ call = "play" /\ buffer' = <<>> /\ Len(<<>>) = 0
        /\ UNCHANGED <<call, retrieved>> /\ pc' = "feed"
    BY <1>7 DEF Flush, CallInv, Processing
  <2>2. Taken' = retrieved /\ Sent' = retrieved /\ Taken = retrieved /\ retrieved \in Nat
    BY <2>1, Lengths DEF Taken, Sent
  <2>3. CASE buffer = <<>>
    <3>1. UNCHANGED <<played, whole, buffer>> /\ Sent' = Sent
      BY <1>7, <2>1, <2>2, <2>3 DEF Flush, Sent
    <3> QED
      BY <2>1, <2>2, <2>3, <3>1 DEF SampleInv, Increasing, PlayInv
  <2>4. CASE buffer # <<>>
    <3>1. Send
      BY <1>7, <2>4 DEF Flush
    <3> QED
      BY <2>1, <2>2, <3>1, SendMoves DEF SampleInv, PlayInv
  <2> QED
    BY <2>3, <2>4
<1>8. CASE UNCHANGED vars
  BY <1>8 DEF vars, SampleInv, Increasing, PlayInv, Taken, Sent
<1> QED
  BY <1>1, <1>2, <1>3, <1>4, <1>5, <1>6, <1>7, <1>8 DEF Next, Speaking

LEMMA SamplesAlways == Spec => [](TypeInv /\ SampleInv)
<1>1. Init => SampleInv
  BY DEF Init, SampleInv, Increasing
<1>2. HoldsInv => CallInv
  BY DEF HoldsInv
<1> QED
  BY <1>1, <1>2, SampleStep, TypeAlways, HoldsAlways, PTL DEF Spec

(* No sample overtakes another or is played twice, and while the device    *)
(* takes all it is sent none is lost, for any number of samples, any sizes *)
(* of the buffer and of what Pico returns.                                 *)
THEOREM InOrder == Spec => []SamplesInOrder
<1>1. TypeInv /\ SampleInv => SamplesInOrder
  <2> SUFFICES ASSUME TypeInv, SampleInv, whole, call = "play"
               PROVE  played \o buffer \o (IF pc = "store" THEN NewSamples ELSE <<>>)
                        = [i \in 1 .. retrieved |-> i]
    BY DEF SamplesInOrder, SampleInv, Increasing
  <2> DEFINE lot == IF pc = "store" THEN NewSamples ELSE <<>>
             rest == retrieved - Taken
             all == [i \in 1 .. retrieved |-> i]
  <2>1. /\ played \in Seq(Nat) /\ buffer \in Seq(Nat)
        /\ Len(played) \in Nat /\ Len(buffer) \in Nat /\ Taken \in Nat /\ retrieved \in Nat
    BY Lengths, SeqMonotonic, Sizes DEF TypeInv, TypeOK
  <2>2. lot \in Seq(Nat) /\ Len(lot) = rest /\ \A i \in 1 .. rest : lot[i] = Taken + i
    <3>1. CASE pc = "store"
      <4>1. NewSamples \in Seq(1 .. MaxSamples) /\ Len(NewSamples) = chunk /\ chunk \in Nat
        BY <3>1, SamplesType
      <4>2. NewSamples \in Seq(Nat)
        BY <4>1, SeqMonotonic, Sizes
      <4>3. \A i \in 1 .. chunk : NewSamples[i] = retrieved - chunk + i
        BY DEF NewSamples
      <4> QED
        BY <2>1, <3>1, <4>1, <4>2, <4>3 DEF Taken
    <3>2. CASE pc # "store"
      BY <2>1, <3>2 DEF Taken
    <3> QED
      BY <3>1, <3>2
  <2>3. /\ Len(played) = Sent /\ Len(buffer) = Taken - Sent
        /\ \A i \in 1 .. Len(played) : played[i] = i
        /\ \A i \in 1 .. Len(buffer) : buffer[i] = Sent + i
    BY <2>1 DEF SampleInv, PlayInv, Sent
  <2> HIDE DEF lot
  <2> HIDE DEF rest
  <2>4. /\ played \o buffer \in Seq(Nat) /\ Len(played \o buffer) = Taken
        /\ \A i \in 1 .. Taken : (played \o buffer)[i] = i
    <3>1. Sent \in Nat /\ Len(played) + Len(buffer) = Taken
      BY <2>1, <2>3
    <3>2. /\ played \o buffer \in Seq(Nat) /\ Len(played \o buffer) = Taken
          /\ \A i \in 1 .. Taken :
               (played \o buffer)[i] = IF i <= Len(played) THEN played[i]
                                                         ELSE buffer[i - Len(played)]
      BY <2>1, <3>1, ConcatProperties
    <3>3. ASSUME NEW i \in 1 .. Taken PROVE (played \o buffer)[i] = i
      <4>1. CASE i <= Len(played)
        BY <2>1, <2>3, <3>2, <4>1
      <4>2. CASE ~(i <= Len(played))
        <5>1. i - Len(played) \in 1 .. Len(buffer)
          BY <2>1, <3>1, <4>2
        <5>2. (played \o buffer)[i] = Sent + (i - Len(played))
          BY <2>3, <3>2, <4>2, <5>1
        <5> QED
          BY <2>3, <3>1, <5>2
      <4> QED
        BY <4>1, <4>2
    <3> QED
      BY <3>2, <3>3
  <2>5. /\ (played \o buffer) \o lot \in Seq(Nat)
        /\ Len((played \o buffer) \o lot) = retrieved
        /\ \A i \in 1 .. retrieved : ((played \o buffer) \o lot)[i] = i
    <3> DEFINE front == played \o buffer
    <3>1. rest \in Int /\ Taken + rest = retrieved
      BY <2>1 DEF rest
    <3>2. front \in Seq(Nat) /\ Len(front) = Taken /\ \A i \in 1 .. Taken : front[i] = i
      BY <2>4
    <3> HIDE DEF front
    <3>3. /\ front \o lot \in Seq(Nat) /\ Len(front \o lot) = retrieved
          /\ \A i \in 1 .. retrieved :
               (front \o lot)[i] = IF i <= Taken THEN front[i] ELSE lot[i - Taken]
      BY <2>1, <2>2, <3>1, <3>2, ConcatProperties
    <3>4. ASSUME NEW i \in 1 .. retrieved PROVE (front \o lot)[i] = i
      <4>1. CASE i <= Taken
        BY <2>1, <3>2, <3>3, <4>1
      <4>2. CASE ~(i <= Taken)
        <5>1. i - Taken \in 1 .. rest
          BY <2>1, <3>1, <4>2
        <5>2. (front \o lot)[i] = Taken + (i - Taken)
          BY <2>2, <3>3, <4>2, <5>1
        <5> QED
          BY <2>1, <5>2
      <4> QED
        BY <4>1, <4>2
    <3> QED
      BY <3>3, <3>4 DEF front
  <2>6. all \in Seq(Nat) /\ Len(all) = retrieved /\ \A i \in 1 .. retrieved : all[i] = i
    BY <2>1
  <2>7. (played \o buffer) \o lot = all
    BY <2>5, <2>6, SeqEqual
  <2> QED
    BY <2>7 DEF lot
<1> QED
  BY <1>1, SamplesAlways, PTL

(* The length kept is what is left to feed, or negative, or the text is    *)
(* too long for it.                                                        *)
LengthInv ==
  call = "play" => /\ size + 1 < 32768 => fed + remaining = size + 1
                   /\ size + 1 >= 32768 /\ size + 1 < 65536 => remaining < 0

LEMMA LengthStep == TypeInv /\ CallInv /\ LengthInv /\ [Next]_vars => LengthInv'
<1> SUFFICES ASSUME TypeInv, CallInv, LengthInv, [Next]_vars, call' = "play"
             PROVE  LengthInv'
  BY DEF LengthInv
<1> USE DEF CallInv
<1>1. CASE Play
  <2>1. size \in Nat /\ size + 1 \in Nat
    BY Sizes DEF TypeInv, TypeOK
  <2>2. /\ size + 1 < 32768 => Int16(size + 1) = size + 1
        /\ size + 1 >= 32768 /\ size + 1 < 65536 => Int16(size + 1) < 0
    BY <2>1, Int16Type
  <2>3. remaining' = Int16(size + 1) /\ fed' = 0 /\ UNCHANGED size
    BY <1>1 DEF Play
  <2> QED
    BY <2>1, <2>2, <2>3 DEF LengthInv
<1>2. CASE Feed
  <2>1. PICK n \in 0 .. remaining : remaining' = remaining - n /\ fed' = fed + n
    BY <1>2 DEF Feed
  <2>2. remaining \in Int /\ fed \in Nat /\ size \in Nat
    BY Sizes DEF TypeInv, TypeOK, Int16s
  <2>3. n \in Nat /\ remaining >= 0
    BY <2>2
  <2>4. call = "play" /\ UNCHANGED size
    BY <1>2 DEF Feed, outside, Processing
  <2> QED
    BY <2>1, <2>2, <2>3, <2>4 DEF LengthInv
<1>3. CASE Lifecycle
  BY <1>3
  DEF Lifecycle, Consult, Construct, Open, Succeed, Fail, Close, Destroy, Dispose, UnloadSg,
      UnloadTa, Release, Terminate, Shut, Free, Return, Releasing
<1>4. CASE Speaking /\ ~Play /\ ~Feed
  <2>1. UNCHANGED <<size, call, remaining, fed>>
    BY <1>4
    DEF Speaking, Write, GiveUp, OpenDevice, Get, Stack, SendAndStack, Flush, Finish, Return,
        outside, speech
  <2> QED
    BY <2>1 DEF LengthInv
<1>5. CASE UNCHANGED vars
  BY <1>5 DEF vars, speech, LengthInv
<1> QED
  BY <1>1, <1>2, <1>3, <1>4, <1>5 DEF Next

LEMMA LengthAlways == Spec => [](TypeInv /\ CallInv /\ LengthInv)
<1>1. Init => LengthInv
  BY DEF Init, LengthInv
<1>2. HoldsInv => CallInv
  BY DEF HoldsInv
<1> QED
  BY <1>1, <1>2, LengthStep, TypeAlways, HoldsAlways, PTL DEF Spec

(* play() returns true only when the device has every sample Pico returned, *)
(* short writes apart, and Pico every byte of the text and its final 0, if  *)
(* they are fewer than 65536: the text of no length assumed, and of a       *)
(* longer one nothing claimed.                                              *)
THEOREM SuccessSpoken == Spec => SuccessMeansSpoken
<1>1. TypeInv /\ SampleInv /\ CallInv /\ LengthInv /\ [Next]_vars
        => [call = "play" /\ call' = "none" /\ answer' = "played"
              => /\ size + 1 < 65536 => fed = size + 1
                 /\ whole => Len(played) = retrieved]_vars
  <2> SUFFICES ASSUME TypeInv, SampleInv, CallInv, LengthInv, Next,
                      call = "play", call' = "none", answer' = "played"
               PROVE  /\ size + 1 < 65536 => fed = size + 1
                      /\ whole => Len(played) = retrieved
    OBVIOUS
  <2>1. CASE Finish
    <3>1. remaining = 0 /\ pc = "feed" /\ Len(buffer) = 0
      BY <2>1 DEF Finish, AllFed, SampleInv, PlayInv
    <3>2. whole => Len(played) = retrieved
      BY <3>1, Lengths DEF SampleInv, PlayInv, Sent, Taken
    <3>3. size + 1 < 65536 => fed = size + 1
      <4>1. size \in Nat /\ fed \in Nat
        BY Sizes DEF TypeInv, TypeOK
      <4> QED
        BY <3>1, <4>1 DEF LengthInv
    <3> QED
      BY <3>2, <3>3
  <2>2. ~Lifecycle
    BY DEF Lifecycle, Consult, Construct, Open, Succeed, Fail, Close, Destroy, Dispose,
           UnloadSg, UnloadTa, Release, Terminate, Shut, Free, Return, CallInv, Releasing
  <2>3. CASE Speaking /\ ~Finish
    BY <2>3
    DEF Speaking, Write, Play, GiveUp, Feed, OpenDevice, Get, Stack, SendAndStack, Flush,
        Return, outside, CallInv
  <2> QED
    BY <2>1, <2>2, <2>3 DEF Next, Speaking
<1> QED
  BY <1>1, SamplesAlways, LengthAlways, PTL DEF Spec, SuccessMeansSpoken

-----------------------------------------------------------------------------
(* What the engine promises to the parser                                   *)

(* process() comes to the end of the text with an open engine only, since  *)
(* only Pico takes the final 0, unless the length kept is 0 from the start. *)
Wrapped == Int16(size + 1) = 0
FedInv == pc = "feed" /\ remaining = 0 => IsOpen \/ Wrapped

LEMMA FedStep == TypeInv /\ HoldsInv /\ FedInv /\ [Next]_vars => FedInv'
<1> SUFFICES ASSUME TypeInv, HoldsInv, FedInv, [Next]_vars, pc' = "feed", remaining' = 0
             PROVE  IsOpen' \/ Wrapped'
  BY DEF FedInv
<1> USE DEF Return
<1>1. CASE Lifecycle
  BY <1>1
  DEF Lifecycle, Consult, Construct, Open, Succeed, Fail, FailedAt, Close, Destroy, Dispose,
      UnloadSg, UnloadTa, Release, Terminate, Shut, Free
<1>2. CASE Play
  BY <1>2 DEF Play, Wrapped
<1>3. CASE Flush
  BY <1>3
  DEF Flush, outside, library, HoldsInv, HoldInv, Processing, Things, Fields, IsOpen
<1>4. CASE Speaking /\ ~Play /\ ~Flush
  BY <1>4
  DEF Speaking, Write, GiveUp, Feed, OpenDevice, Get, AfterStore, Stack, SendAndStack, Finish
<1>5. CASE UNCHANGED vars
  BY <1>5 DEF vars, library, speech, FedInv, IsOpen, Wrapped
<1> QED
  BY <1>1, <1>2, <1>3, <1>4, <1>5 DEF Next

LEMMA FedAlways == Spec => [](TypeInv /\ HoldsInv /\ FedInv)
<1>1. Init => FedInv
  BY DEF Init, FedInv
<1> QED
  BY <1>1, FedStep, TypeAlways, HoldsAlways, PTL DEF Spec

ServiceOpen == IsOpen /\ call # "open"
ServiceSuccess == answer \in {"opened", "played"}

LEMMA LifecycleServes ==
  ASSUME TypeInv, HoldsInv, Lifecycle
  PROVE  Service!Next \/ UNCHANGED <<ServiceOpen, ServiceSuccess>>
<1> USE DEF ServiceOpen, ServiceSuccess, IsOpen, library
<1>1. CASE Consult \/ Construct
  BY <1>1 DEF Consult, Construct
<1>2. CASE \E iso \in Requests : Open(iso)
  <2>1. UNCHANGED held /\ pc = "idle" /\ call = "none"
    BY <1>2 DEF Open, HoldsInv, CallInv
  <2>2. CASE ~IsOpen /\ call' = "open" /\ UNCHANGED answer
    BY <2>1, <2>2
  <2>3. CASE answer' = "refused" /\ UNCHANGED call
    BY <2>1, <2>3 DEF Service!Next, Service!Open, Service!Refuse
  <2> QED
    BY <1>2, <2>2, <2>3 DEF Open
<1>3. CASE Succeed
  <2>1. call = "open" /\ (step # Len(Ladder) => UNCHANGED <<call, answer>>)
    BY <1>3 DEF Succeed, HoldsInv, CallInv
  <2>2. CASE step = Len(Ladder)
    <3>1. "engine" \in held' /\ call' = "none" /\ answer' = "opened"
      BY <1>3, <2>2, LadderSteps DEF Succeed, Return
    <3> QED
      BY <2>1, <3>1 DEF Service!Next, Service!Open
  <2> QED
    BY <2>1, <2>2
<1>4. CASE Fail
  BY <1>4 DEF Fail, HoldsInv, CallInv
<1>5. CASE Close \/ Destroy \/ Free
  BY <1>5 DEF Close, Destroy, Free, HoldsInv, CallInv
<1>6. CASE Dispose
  <2>1. UNCHANGED <<call, answer>> /\ "engine" \notin held'
    BY <1>6 DEF Dispose, Release
  <2> QED
    BY <2>1 DEF Service!Next, Service!Close
<1>7. CASE UnloadSg \/ UnloadTa
  BY <1>7 DEF UnloadSg, UnloadTa, Release
<1>8. CASE Terminate
  <2>1. "engine" \notin held /\ "engine" \notin held'
    BY <1>8 DEF Terminate, HoldsInv, HoldInv, Things, Fields
  <2>2. CASE call # "open"
    BY <1>8, <2>1, <2>2 DEF Terminate
  <2>3. CASE call = "open"
    BY <1>8, <2>1, <2>3 DEF Terminate, Return, Service!Next, Service!Open
  <2> QED
    BY <2>2, <2>3
<1>9. CASE Shut
  BY <1>9 DEF Shut, Return, HoldsInv, CallInv
<1> QED
  BY <1>1, <1>2, <1>3, <1>4, <1>5, <1>6, <1>7, <1>8, <1>9 DEF Lifecycle

LEMMA SpeakingServes ==
  ASSUME TypeInv, HoldsInv, FedInv, Speaking
  PROVE  Service!Next \/ UNCHANGED <<ServiceOpen, ServiceSuccess>>
<1> USE DEF ServiceOpen, ServiceSuccess, IsOpen, library, outside
<1>1. UNCHANGED held /\ call # "open" /\ call' # "open"
  BY DEF Speaking, Write, Play, GiveUp, Feed, OpenDevice, Get, Stack, SendAndStack, Flush,
         Finish, Return, HoldsInv, CallInv, Processing
<1>2. CASE GiveUp
  BY <1>1, <1>2 DEF GiveUp, Return, Service!Next, Service!Play
<1>3. CASE Finish
  <2>1. IsOpen \/ Int16(size + 1) = 0
    BY <1>3 DEF Finish, AllFed, FedInv, Wrapped
  <2> QED
    BY <1>1, <1>3, <2>1 DEF Finish, Return, Service!Next, Service!Play
<1>4. CASE ~GiveUp /\ ~Finish
  <2>1. UNCHANGED answer
    BY <1>4 DEF Speaking, Write, Play, Feed, OpenDevice, Get, Stack, SendAndStack, Flush
  <2> QED
    BY <1>1, <2>1
<1> QED
  BY <1>2, <1>3, <1>4

(* Whatever fails in Pico or in ALSA, and whatever is on the disk, only a  *)
(* successful open() opens the engine, only close() closes it, and play()  *)
(* succeeds on an open engine only, or with a text whose length is kept as *)
(* 0.                                                                      *)
THEOREM EngineServes == Spec => KeepsEngine
<1>1. Init => Service!Init
  BY DEF Init, Service!Init, IsOpen
<1>2. TypeInv /\ HoldsInv /\ FedInv /\ [Next]_vars
        => [Service!Next]_<<ServiceOpen, ServiceSuccess>>
  <2> SUFFICES ASSUME TypeInv, HoldsInv, FedInv, [Next]_vars
               PROVE  Service!Next \/ UNCHANGED <<ServiceOpen, ServiceSuccess>>
    OBVIOUS
  <2>1. CASE UNCHANGED vars
    BY <2>1 DEF vars, library, ServiceOpen, ServiceSuccess, IsOpen
  <2> QED
    BY <2>1, LifecycleServes, SpeakingServes DEF Next
<1>3. TypeInv /\ HoldsInv /\ FedInv /\ [Next]_vars
        => [Service!Next]_<<IsOpen /\ call # "open", answer \in {"opened", "played"}>>
  BY <1>2 DEF ServiceOpen, ServiceSuccess
<1> QED
  BY <1>1, <1>3, FedAlways, PTL DEF Spec, KeepsEngine, Service!Spec

-----------------------------------------------------------------------------
(* formatText()                                                             *)

(* Of the levels that Pico accepts the one that a tag asks for is nearest  *)
(* to the wish, for every wish: the part of WritesMarkup that concerns the *)
(* levels.                                                                 *)
LEMMA ClampIsNearest ==
  \A k \in {"volume", "speed", "pitch"}, wish \in Int :
    /\ Clamp(k, wish) \in Lowest[k] .. Most[k]
    /\ \A v \in Lowest[k] .. Most[k] : Distance(Clamp(k, wish), wish) <= Distance(v, wish)
<1> TAKE k \in {"volume", "speed", "pitch"}, wish \in Int
<1>1. /\ Lowest[k] \in Int /\ Most[k] \in Int /\ Lowest[k] <= Most[k]
  BY DEF Lowest, Most
<1>2. Clamp(k, wish) = IF wish < Lowest[k] THEN Lowest[k]
                       ELSE IF wish > Most[k] THEN Most[k] ELSE wish
  BY <1>1 DEF Clamp
<1>3. Clamp(k, wish) \in Int
  BY <1>1, <1>2
<1> QED
  BY <1>1, <1>2, <1>3 DEF Distance

(* The tags open after each item of what formatText() can return, one item  *)
(* after another: no more than three tags are opened and closed.           *)
LEMMA Unrolled ==
  ASSUME NEW s, Len(s) \in 0 .. 7
  PROVE  /\ OpenAfter(s)[0] = <<>>
         /\ \A n \in 1 .. Len(s) : OpenAfter(s)[n] = After(OpenAfter(s)[n - 1], s[n])
<1> DEFINE o1 == After(<<>>, s[1])
           o2 == After(o1, s[2])
           o3 == After(o2, s[3])
           o4 == After(o3, s[4])
           o5 == After(o4, s[5])
           o6 == After(o5, s[6])
           o7 == After(o6, s[7])
           o == <<o1, o2, o3, o4, o5, o6, o7>>
           f == [n \in 0 .. Len(s) |-> IF n = 0 THEN <<>> ELSE o[n]]
           Follows(g) == g = [n \in 0 .. Len(s) |->
                                IF n = 0 THEN <<>> ELSE After(g[n - 1], s[n])]
<1>1. Follows(f)
  <2> SUFFICES ASSUME NEW n \in 0 .. Len(s)
               PROVE  f[n] = IF n = 0 THEN <<>> ELSE After(f[n - 1], s[n])
    OBVIOUS
  <2> DEFINE L == Len(s)
  <2>0. L \in 0 .. 7 /\ n \in 0 .. L
    OBVIOUS
  <2> HIDE DEF L
  <2>1. n \in 0 .. 7 /\ (n # 0 => n - 1 \in 0 .. L)
    BY <2>0
  <2> USE DEF L
  <2> HIDE DEF o1, o2, o3, o4, o5, o6, o7
  <2>2. CASE n = 0
    BY <2>2
  <2>3. CASE n = 1
    BY <2>1, <2>3 DEF o1
  <2>4. CASE n = 2
    BY <2>1, <2>4 DEF o2
  <2>5. CASE n = 3
    BY <2>1, <2>5 DEF o3
  <2>6. CASE n = 4
    BY <2>1, <2>6 DEF o4
  <2>7. CASE n = 5
    BY <2>1, <2>7 DEF o5
  <2>8. CASE n = 6
    BY <2>1, <2>8 DEF o6
  <2>9. CASE n = 7
    BY <2>1, <2>9 DEF o7
  <2> QED
    BY <2>1, <2>2, <2>3, <2>4, <2>5, <2>6, <2>7, <2>8, <2>9
<1> HIDE DEF f
<1>2. OpenAfter(s) = CHOOSE g : Follows(g)
  BY DEF OpenAfter
<1> HIDE DEF Follows
<1>3. Follows(OpenAfter(s))
  BY <1>1, <1>2
<1> QED
  BY <1>3 DEF Follows

(* What opening a tag, closing the innermost and the text do. *)
LEMMA Opened ==
  ASSUME NEW st \in Seq(Kinds), NEW k \in Kinds, NEW v
  PROVE  /\ After(st, OpenTag(k, v)) = Append(st, k)
         /\ After(Append(st, k), CloseTag(k)) = st
         /\ After(st, Text) = st
<1>1. After(st, OpenTag(k, v)) = Append(st, k)
  BY DEF After, OpenTag
<1>2. After(st, Text) = st
  BY DEF After, Text
<1>3. /\ Append(st, k) # <<>> /\ Last(Append(st, k)) = k
      /\ Front(Append(st, k)) = st
  BY DEF Last, Front
<1>4. CloseTag(k).kind = "close" /\ CloseTag(k).of = k
  BY DEF CloseTag
<1> QED
  BY <1>1, <1>2, <1>3, <1>4 DEF After

(* What comes after does not change what was open before. *)
LEMMA Prefix ==
  ASSUME NEW I, NEW s \in Seq(I), NEW t \in Seq(I), Len(s) + Len(t) \in 0 .. 7
  PROVE  /\ s \o t \in Seq(I) /\ Len(s \o t) = Len(s) + Len(t)
         /\ \A n \in 0 .. Len(s) : OpenAfter(s \o t)[n] = OpenAfter(s)[n]
<1> DEFINE st == s \o t
           L == Len(s)
           Same(n) == n <= L => OpenAfter(st)[n] = OpenAfter(s)[n]
<1>1. /\ st \in Seq(I) /\ Len(st) = Len(s) + Len(t)
      /\ \A n \in 1 .. Len(s) : st[n] = s[n]
  BY ConcatProperties
<1>2. L \in 0 .. 7 /\ Len(st) \in 0 .. 7 /\ L <= Len(st)
  <2> DEFINE M == Len(t)
             N == Len(st)
  <2>1. L \in Nat /\ M \in Nat /\ L + M \in 0 .. 7 /\ N = L + M
    BY <1>1
  <2> HIDE DEF L, M, N
  <2>2. L \in 0 .. 7 /\ N \in 0 .. 7 /\ L <= N
    BY <2>1
  <2> QED
    BY <2>2 DEF N
<1>3. /\ OpenAfter(s)[0] = <<>>
      /\ \A n \in 1 .. L : OpenAfter(s)[n] = After(OpenAfter(s)[n - 1], s[n])
  BY <1>2, Unrolled
<1>4. /\ OpenAfter(st)[0] = <<>>
      /\ \A n \in 1 .. Len(st) : OpenAfter(st)[n] = After(OpenAfter(st)[n - 1], st[n])
  BY <1>2, Unrolled
<1>5. \A n \in 1 .. L : st[n] = s[n]
  BY <1>1
<1> HIDE DEF st, L
<1>6. Same(0)
  BY <1>3, <1>4
<1>7. ASSUME NEW n \in 1 .. 7, Same(n - 1)
      PROVE  Same(n)
  <2> SUFFICES ASSUME n <= L
               PROVE  OpenAfter(st)[n] = OpenAfter(s)[n]
    OBVIOUS
  <2>1. n \in 1 .. L /\ n \in 1 .. Len(st) /\ n - 1 <= L
    BY <1>2
  <2> QED
    BY <1>3, <1>4, <1>5, <1>7, <2>1
<1> HIDE DEF Same
<1>8. Same(1)
  BY <1>6, <1>7
<1>9. Same(2)
  BY <1>7, <1>8
<1>10. Same(3)
  BY <1>7, <1>9
<1>11. Same(4)
  BY <1>7, <1>10
<1>12. Same(5)
  BY <1>7, <1>11
<1>13. Same(6)
  BY <1>7, <1>12
<1>14. Same(7)
  BY <1>7, <1>13
<1>15. \A n \in 0 .. 7 : Same(n)
  BY <1>6, <1>8, <1>9, <1>10, <1>11, <1>12, <1>13, <1>14
<1>16. \A n \in 0 .. L : OpenAfter(st)[n] = OpenAfter(s)[n]
  BY <1>2, <1>15 DEF Same
<1> QED
  BY <1>1, <1>16 DEF st, L

(* One more item. *)
LEMMA OneMore ==
  ASSUME NEW I, NEW s \in Seq(I), NEW e \in I, Len(s) \in 0 .. 6
  PROVE  /\ s \o <<e>> \in Seq(I) /\ Len(s \o <<e>>) = Len(s) + 1
         /\ (s \o <<e>>)[Len(s) + 1] = e
         /\ OpenTags(s \o <<e>>) = After(OpenTags(s), e)
<1> DEFINE st == s \o <<e>>
           L == Len(s)
           N == Len(st)
<1>1. <<e>> \in Seq(I) /\ Len(<<e>>) = 1
  OBVIOUS
<1>2. st \in Seq(I) /\ N = L + 1 /\ st[L + 1] = e
  BY <1>1, ConcatProperties
<1>3. /\ L \in 0 .. L /\ L + Len(<<e>>) \in 0 .. 7
      /\ N \in 0 .. 7 /\ L + 1 \in 1 .. N /\ (L + 1) - 1 = L
  <2>1. L \in 0 .. 6
    OBVIOUS
  <2> HIDE DEF L, N
  <2> QED
    BY <1>1, <1>2, <2>1
<1>4. OpenAfter(st)[L] = OpenAfter(s)[L]
  BY <1>1, <1>3, Prefix
<1> HIDE DEF st
<1>5. OpenAfter(st)[L + 1] = After(OpenAfter(st)[L], st[L + 1])
  <2>1. \A n \in 1 .. N : OpenAfter(st)[n] = After(OpenAfter(st)[n - 1], st[n])
    BY <1>3, Unrolled
  <2> HIDE DEF L, N
  <2> QED
    BY <1>3, <2>1
<1> QED
  BY <1>2, <1>4, <1>5 DEF OpenTags, st

Items(wish) ==
  {OpenTag(k, wish[k]) : k \in Kinds} \cup {CloseTag(k) : k \in Kinds} \cup {Text}

(* Up to n items that leave the tags of st open, the innermost last. *)
Leaves(s, wish, n, st) ==
  /\ s \in Seq(Items(wish)) /\ Len(s) \in 0 .. n
  /\ st \in Seq(Kinds) /\ OpenTags(s) = st

(* The tag of k, when there is one. *)
Name(k, wish) == IF IsSet(wish[k]) THEN <<k>> ELSE <<>>

LEMMA ItemStep ==
  ASSUME NEW wish, NEW n \in 0 .. 6, NEW s, NEW st, NEW e \in Items(wish),
         Leaves(s, wish, n, st), After(st, e) \in Seq(Kinds)
  PROVE  Leaves(s \o <<e>>, wish, n + 1, After(st, e))
<1> DEFINE I == Items(wish)
           L == Len(s)
           M == Len(s \o <<e>>)
<1> HIDE DEF I
<1>1. e \in I /\ s \in Seq(I) /\ L \in 0 .. n /\ OpenTags(s) = st
  BY DEF Leaves, I
<1>2. L \in 0 .. 6
  <2> HIDE DEF L
  <2> QED
    BY <1>1
<1>3. /\ s \o <<e>> \in Seq(I) /\ M = L + 1
      /\ OpenTags(s \o <<e>>) = After(OpenTags(s), e)
  BY <1>1, <1>2, OneMore
<1>4. M \in 0 .. n + 1
  <2> HIDE DEF L, M
  <2> QED
    BY <1>1, <1>3
<1> QED
  BY <1>1, <1>3, <1>4 DEF Leaves, I

LEMMA NoneStep ==
  ASSUME NEW wish, NEW n \in 0 .. 6, NEW s, NEW st, Leaves(s, wish, n, st)
  PROVE  /\ Leaves(s \o <<>>, wish, n + 1, st)
         /\ st \o <<>> = st
<1> DEFINE I == Items(wish)
           L == Len(s)
<1> HIDE DEF I
<1>1. s \in Seq(I) /\ L \in 0 .. n
  BY DEF Leaves, I
<1>2. L \in 0 .. n + 1
  <2> HIDE DEF L
  <2> QED
    BY <1>1
<1>3. s \o <<>> = s
  BY <1>1
<1>4. st \o <<>> = st
  BY DEF Leaves
<1> QED
  BY <1>2, <1>3, <1>4 DEF Leaves

LEMMA OpeningStep ==
  ASSUME NEW wish, NEW k \in Kinds, NEW n \in 0 .. 6, NEW s, NEW st,
         Leaves(s, wish, n, st)
  PROVE  Leaves(s \o Opening(k, wish), wish, n + 1, st \o Name(k, wish))
<1>1. CASE IsSet(wish[k])
  <2>1. OpenTag(k, wish[k]) \in Items(wish)
    BY DEF Items
  <2>2. st \in Seq(Kinds)
    BY DEF Leaves
  <2>3. After(st, OpenTag(k, wish[k])) = Append(st, k)
    BY <2>2, Opened
  <2>4. Append(st, k) = st \o <<k>> /\ Append(st, k) \in Seq(Kinds)
    BY <2>2
  <2>5. Opening(k, wish) = <<OpenTag(k, wish[k])>> /\ Name(k, wish) = <<k>>
    BY <1>1 DEF Opening, Name
  <2> QED
    BY <2>1, <2>3, <2>4, <2>5, ItemStep
<1>2. CASE ~IsSet(wish[k])
  <2>1. Opening(k, wish) = <<>> /\ Name(k, wish) = <<>>
    BY <1>2 DEF Opening, Name
  <2> QED
    BY <2>1, NoneStep
<1> QED
  BY <1>1, <1>2

LEMMA ClosingStep ==
  ASSUME NEW wish, NEW k \in Kinds, NEW n \in 0 .. 6, NEW s, NEW st \in Seq(Kinds),
         Leaves(s, wish, n, st \o Name(k, wish))
  PROVE  Leaves(s \o Closing(k, wish), wish, n + 1, st)
<1>1. CASE IsSet(wish[k])
  <2>1. CloseTag(k) \in Items(wish)
    BY DEF Items
  <2>2. st \o Name(k, wish) = Append(st, k)
    BY <1>1 DEF Name
  <2>3. After(Append(st, k), CloseTag(k)) = st
    BY Opened
  <2>4. Closing(k, wish) = <<CloseTag(k)>>
    BY <1>1 DEF Closing
  <2> QED
    BY <2>1, <2>2, <2>3, <2>4, ItemStep
<1>2. CASE ~IsSet(wish[k])
  <2>1. Closing(k, wish) = <<>> /\ Name(k, wish) = <<>>
    BY <1>2 DEF Closing, Name
  <2>2. st \o <<>> = st
    OBVIOUS
  <2> QED
    BY <2>1, <2>2, NoneStep
<1> QED
  BY <1>1, <1>2

LEMMA NamesType ==
  ASSUME NEW wish, NEW k \in Kinds
  PROVE  /\ Name(k, wish) \in Seq(Kinds)
         /\ Range(Name(k, wish)) = IF IsSet(wish[k]) THEN {k} ELSE {}
BY DEF Name, Range

LEMMA Joined ==
  ASSUME NEW I, NEW s \in Seq(I), NEW t \in Seq(I)
  PROVE  s \o t \in Seq(I) /\ Range(s \o t) = Range(s) \cup Range(t)
<1>1. s \o t \in Seq(I)
  OBVIOUS
<1>2. Range(s \o t) = Range(s) \cup Range(t)
  BY RangeConcatenation
<1> QED
  BY <1>1, <1>2

LEMMA Joined3 ==
  ASSUME NEW I, NEW s \in Seq(I), NEW t \in Seq(I), NEW u \in Seq(I)
  PROVE  Range((s \o t) \o u) = (Range(s) \cup Range(t)) \cup Range(u)
<1> DEFINE st == s \o t
<1>1. st \in Seq(I) /\ Range(st) = Range(s) \cup Range(t)
  BY Joined
<1> HIDE DEF st
<1>2. Range(st \o u) = Range(st) \cup Range(u)
  BY <1>1, Joined
<1> QED
  BY <1>1, <1>2 DEF st

LEMMA TagsType ==
  ASSUME NEW wish, NEW k \in Kinds
  PROVE  Opening(k, wish) \in Seq(Items(wish)) /\ Closing(k, wish) \in Seq(Items(wish))
<1>1. OpenTag(k, wish[k]) \in Items(wish) /\ CloseTag(k) \in Items(wish)
  BY DEF Items
<1> QED
  BY <1>1 DEF Opening, Closing

(* What formatText() returns for any three levels. *)
LEMMA AllWellFormed ==
  ASSUME NEW wish \in [Kinds -> Int]
  PROVE  WellFormed(wish)
<1> DEFINE a == Opening("volume", wish)
           b == Opening("speed", wish)
           c == Opening("pitch", wish)
           x == Closing("pitch", wish)
           y == Closing("speed", wish)
           z == Closing("volume", wish)
           na == Name("volume", wish)
           nb == Name("speed", wish)
           nc == Name("pitch", wish)
           before == (a \o b) \o c
           open == (na \o nb) \o nc
           text == before \o <<Text>>
           rest == (x \o y) \o z
           s == ((text \o x) \o y) \o z
<1>1. "volume" \in Kinds /\ "speed" \in Kinds /\ "pitch" \in Kinds
  BY DEF Kinds
<1>2. na \in Seq(Kinds) /\ nb \in Seq(Kinds) /\ nc \in Seq(Kinds)
  BY <1>1, NamesType
<1>3. Leaves(<<>>, wish, 0, <<>>)
  <2>1. OpenTags(<<>>) = <<>>
    BY Unrolled DEF OpenTags
  <2> QED
    BY <2>1 DEF Leaves
<1>4. /\ a \in Seq(Items(wish)) /\ b \in Seq(Items(wish)) /\ c \in Seq(Items(wish))
      /\ x \in Seq(Items(wish)) /\ y \in Seq(Items(wish)) /\ z \in Seq(Items(wish))
  BY <1>1, TagsType
<1>5. \A k \in Kinds, n \in 0 .. 6, m \in 1 .. 7 : \A q, st :
        m = n + 1 /\ Leaves(q, wish, n, st)
          => Leaves(q \o Opening(k, wish), wish, m, st \o Name(k, wish))
  BY OpeningStep
<1>6. \A k \in Kinds, n \in 0 .. 6, m \in 1 .. 7, st \in Seq(Kinds) : \A q :
        m = n + 1 /\ Leaves(q, wish, n, st \o Name(k, wish))
          => Leaves(q \o Closing(k, wish), wish, m, st)
  BY ClosingStep
<1>7. FormatText(wish) = s /\ s = text \o rest /\ rest \in Seq(Items(wish))
  <2> DEFINE I == Items(wish)
             ab == a \o b
             tx == text \o x
             xy == x \o y
  <2>1. /\ x \in Seq(I) /\ y \in Seq(I) /\ z \in Seq(I)
        /\ a \in Seq(I) /\ b \in Seq(I) /\ c \in Seq(I)
    BY <1>4
  <2>2. Text \in I
    BY DEF Items
  <2> HIDE DEF a, b, c, x, y, z, I
  <2>3. ab \in Seq(I) /\ xy \in Seq(I)
    BY <2>1
  <2>4. text \in Seq(I)
    <3> HIDE DEF ab
    <3>1. before \in Seq(I)
      BY <2>1, <2>3 DEF ab
    <3> HIDE DEF before
    <3> QED
      BY <2>2, <3>1
  <2> HIDE DEF text
  <2>5. tx \o y = text \o xy
    BY <2>1, <2>4
  <2> HIDE DEF xy
  <2>6. (text \o xy) \o z = text \o (xy \o z) /\ xy \o z \in Seq(I)
    BY <2>1, <2>3, <2>4
  <2>7. s = text \o (xy \o z)
    BY <2>5, <2>6
  <2> QED
    BY <2>6, <2>7 DEF FormatText, ClosingTags, a, b, c, x, y, z, text, xy, I
<1> HIDE DEF before, open, text, rest, s
<1>8. /\ Leaves(before, wish, 3, open) /\ na \o nb \in Seq(Kinds)
      /\ open \in Seq(Kinds)
  <2>1. Leaves(<<>> \o a, wish, 1, <<>> \o na)
    <3> DEFINE e == <<>>
    <3> HIDE DEF e
    <3>1. Leaves(e, wish, 0, e)
      BY <1>3 DEF e
    <3>2. Leaves(e \o a, wish, 1, e \o na)
      BY <1>1, <3>1, OpeningStep
    <3> QED
      BY <3>2 DEF e
  <2>2. <<>> \o na = na /\ <<>> \o a = a
    <3> HIDE DEF a, na
    <3> QED
      BY <1>2, <1>4
  <2>3. Leaves(a \o b, wish, 2, na \o nb)
    BY <1>1, <1>5, <2>1, <2>2
  <2>4. Leaves((a \o b) \o c, wish, 3, (na \o nb) \o nc)
    BY <1>1, <1>5, <2>3
  <2> QED
    BY <1>2, <2>3, <2>4 DEF before, open, Leaves
<1>9. Leaves(text, wish, 4, open)
  <2>1. Text \in Items(wish) /\ After(open, Text) = open
    BY <1>1, <1>8, Opened DEF Items
  <2> QED
    BY <1>8, <2>1, ItemStep DEF text
<1>10. Leaves(s, wish, 7, <<>>)
  <2> DEFINE nab == na \o nb
  <2>0. open = nab \o Name("pitch", wish) /\ nab \in Seq(Kinds)
    BY <1>8 DEF open
  <2> HIDE DEF nab
  <2>1. Leaves(text \o x, wish, 5, nab)
    BY <1>1, <1>9, <2>0, ClosingStep
  <2>2. Leaves((text \o x) \o y, wish, 6, na)
    BY <1>1, <1>2, <2>1, ClosingStep DEF nab
  <2>3. na = <<>> \o na /\ <<>> \in Seq(Kinds)
    <3> HIDE DEF na
    <3> QED
      BY <1>2
  <2>4. Leaves(((text \o x) \o y) \o z, wish, 7, <<>>)
    <3> DEFINE e == <<>>
               t == (text \o x) \o y
    <3> HIDE DEF e, t
    <3>1. Leaves(t, wish, 6, e \o Name("volume", wish)) /\ e \in Seq(Kinds)
      BY <2>2, <2>3 DEF e, t
    <3>2. Leaves(t \o z, wish, 7, e)
      BY <1>1, <3>1, ClosingStep
    <3> QED
      BY <3>2 DEF e, t
  <2> QED
    BY <2>4 DEF s
<1>11. /\ s \in Seq(Items(wish)) /\ OpenTags(s) = <<>>
  BY <1>10 DEF Leaves
<1>12. \E i \in DOMAIN s :
         s[i] = Text /\ Range(OpenAfter(s)[i]) = {k \in Kinds : IsSet(wish[k])}
  <2> DEFINE I == Items(wish)
             L == Len(before)
  <2>1. /\ before \in Seq(I) /\ L \in 0 .. 3 /\ text \in Seq(I) /\ rest \in Seq(I)
        /\ OpenTags(text) = open
    BY <1>7, <1>8, <1>9 DEF Leaves
  <2>2. s = text \o rest
    BY <1>7
  <2>3. Len(text) = L + 1 /\ text[L + 1] = Text
    <3>1. Text \in I
      BY DEF Items
    <3> QED
      BY <2>1, <3>1, AppendProperties DEF text
  <2>4. Len(s) \in 0 .. 7
    BY <1>10 DEF Leaves
  <2>5. Len(s) = Len(text) + Len(rest)
    BY <2>1, <2>2, ConcatProperties
  <2>6. /\ \A n \in 1 .. Len(text) : s[n] = text[n]
        /\ \A n \in 0 .. Len(text) : OpenAfter(s)[n] = OpenAfter(text)[n]
    <3> HIDE DEF I
    <3> QED
      BY <2>1, <2>2, <2>4, <2>5, Prefix, ConcatProperties
  <2>7. Len(rest) \in Nat
    BY <2>1
  <2>8. L + 1 \in DOMAIN s /\ s[L + 1] = Text /\ OpenAfter(s)[L + 1] = open
    <3>1. DOMAIN s = 1 .. Len(s)
      BY <1>11
    <3> DEFINE M == Len(text)
               K == Len(rest)
    <3>2. /\ L \in 0 .. 3 /\ M = L + 1 /\ K \in Nat /\ Len(s) = M + K
          /\ \A n \in 1 .. M : s[n] = text[n]
          /\ \A n \in 0 .. M : OpenAfter(s)[n] = OpenAfter(text)[n]
      BY <2>1, <2>3, <2>5, <2>6, <2>7
    <3>3. OpenAfter(text)[M] = open
      BY <2>1 DEF OpenTags
    <3> HIDE DEF L, M, K
    <3>4. L + 1 \in 1 .. M /\ L + 1 \in 0 .. M /\ L + 1 \in 1 .. M + K
      BY <3>2
    <3> QED
      BY <2>3, <3>1, <3>2, <3>3, <3>4
  <2>9. Range(open) = {k \in Kinds : IsSet(wish[k])}
    <3>1. Range(open) = (Range(na) \cup Range(nb)) \cup Range(nc)
      BY <1>2, Joined3 DEF open
    <3> QED
      BY <1>1, <3>1, NamesType DEF na, nb, nc, Kinds
  <2> QED
    BY <2>8, <2>9
<1>13. \A i \in DOMAIN s : s[i].kind = "open" =>
         LET k == s[i].of
         IN /\ s[i].level \in Lowest[k] .. Most[k]
            /\ \A v \in Lowest[k] .. Most[k] :
                 Distance(s[i].level, wish[k]) <= Distance(v, wish[k])
  <2> SUFFICES ASSUME NEW i \in DOMAIN s, s[i].kind = "open"
               PROVE  /\ s[i].level \in Lowest[s[i].of] .. Most[s[i].of]
                      /\ \A v \in Lowest[s[i].of] .. Most[s[i].of] :
                           Distance(s[i].level, wish[s[i].of]) <= Distance(v, wish[s[i].of])
    OBVIOUS
  <2>1. s[i] \in Items(wish)
    BY <1>11
  <2>2. PICK k \in Kinds : s[i] = OpenTag(k, wish[k])
    BY <2>1 DEF Items, CloseTag, Text
  <2>3. s[i].of = k /\ s[i].level = Clamp(k, wish[k])
    BY <2>2 DEF OpenTag
  <2>4. k \in {"volume", "speed", "pitch"} /\ wish[k] \in Int
    BY DEF Kinds
  <2> QED
    BY <2>3, <2>4, ClampIsNearest
<1> QED
  BY <1>7, <1>11, <1>12, <1>13 DEF WellFormed

(* Whatever the levels, formatText() returns tags that are closed innermost *)
(* first, with the text inside those wished for, each asking Pico for the  *)
(* level nearest to the wish among those it accepts.                       *)
THEOREM TextsMarked == Spec => []WritesMarkup
<1>1. FormatIsWellFormed
  BY LevelsAssumption, AllWellFormed DEF FormatIsWellFormed, Wishes
<1>2. WritesMarkup
  BY <1>1 DEF WritesMarkup
<1> QED
  BY <1>2, PTL

=============================================================================
