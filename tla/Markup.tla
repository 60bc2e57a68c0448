------------------------------- MODULE Markup -------------------------------
(***************************************************************************)
(* formatText() of the speech engine (src/tts_engine.cpp): the tags put    *)
(* around a text for the volume, the speed and the pitch that differ from  *)
(* 100, each brought within the range that Pico accepts.                   *)
(*                                                                         *)
(* A definition whose comment begins with "Mistake:" is used by nothing:   *)
(* it is the one after it as a plausible bug would make it.                *)
(***************************************************************************)
EXTENDS Integers, Sequences, SequencesExt

CONSTANT Levels   (* arguments for a volume, a speed or a pitch *)

ASSUME LevelsAssumption == Levels \subseteq Int

Kinds  == {"volume", "speed", "pitch"}
Lowest == [volume |-> 0, speed |-> 20, pitch |-> 50]
Most   == [volume |-> 500, speed |-> 500, pitch |-> 200]

(* -1 stands for no wish, and so does 100. *)
IsSet(v) == v # 100 /\ v >= 0

Clamp(k, v) == CASE v < Lowest[k] -> Lowest[k]
                 [] v > Most[k]   -> Most[k]
                 [] OTHER         -> v

Text          == [kind |-> "text"]
OpenTag(k, v) == [kind |-> "open", of |-> k, level |-> Clamp(k, v)]
CloseTag(k)   == [kind |-> "close", of |-> k]

Opening(k, wish) == IF IsSet(wish[k]) THEN <<OpenTag(k, wish[k])>> ELSE <<>>
Closing(k, wish) == IF IsSet(wish[k]) THEN <<CloseTag(k)>> ELSE <<>>

(* Mistake: the tags are closed in the order in which they were opened. *)
ClosedInOrder(wish) ==
  Closing("volume", wish) \o Closing("speed", wish) \o Closing("pitch", wish)
ClosingTags(wish) ==
  Closing("pitch", wish) \o Closing("speed", wish) \o Closing("volume", wish)

FormatText(wish) ==
  Opening("volume", wish) \o Opening("speed", wish) \o Opening("pitch", wish)
    \o <<Text>> \o ClosingTags(wish)
-----------------------------------------------------------------------------
Wishes == [Kinds -> Levels]

(* The tags open after an item, when those in the stack were before it.  A *)
(* tag closed out of turn stays for ever.                                  *)
After(stack, item) ==
  CASE item.kind = "text" -> stack
    [] item.kind = "open" -> Append(stack, item.of)
    [] item.kind = "close" /\ stack # <<>> /\ Last(stack) = item.of -> Front(stack)
    [] OTHER -> Append(stack, "out of turn")

(* The tags open after the first n items of s, for each n. *)
OpenAfter(s) ==
  LET open[n \in 0 .. Len(s)] == IF n = 0 THEN <<>> ELSE After(open[n - 1], s[n])
  IN open

OpenTags(s) == OpenAfter(s)[Len(s)]

Distance(a, b) == IF a < b THEN b - a ELSE a - b

(* Whatever the levels, every tag is closed, innermost first; at the text  *)
(* the tags wished for are open; and Pico is asked for the level nearest   *)
(* to the wish among those it accepts.                                     *)
WellFormed(wish) ==
  LET s == FormatText(wish)
  IN /\ OpenTags(s) = <<>>
     /\ \E i \in DOMAIN s :
          s[i] = Text /\ Range(OpenAfter(s)[i]) = {k \in Kinds : IsSet(wish[k])}
     /\ \A i \in DOMAIN s : s[i].kind = "open" =>
          LET k == s[i].of
          IN /\ s[i].level \in Lowest[k] .. Most[k]
             /\ \A v \in Lowest[k] .. Most[k] :
                  Distance(s[i].level, wish[k]) <= Distance(v, wish[k])

FormatIsWellFormed == \A wish \in Wishes : WellFormed(wish)
=============================================================================
