-------------------------------- MODULE Dtmf --------------------------------
(***************************************************************************)
(* The DTMF decoder, class Piphons::Dtmf (src/dtmf.cpp).                   *)
(*                                                                         *)
(* The HT9170 puts the code of a key on its data pins and raises its DV    *)
(* pin.  The interrupt thread of that pin runs keyIsr, which reads the     *)
(* data pins one after the other, queues the key and calls the user        *)
(* handler; the application reads the queue, from the handler or from a    *)
(* thread of its own.                                                      *)
(*                                                                         *)
(* A key is the set of the data pins that are high.  With four pins every  *)
(* code has a character in Dtmf::Private::keys, so that the test of the    *)
(* code against keys.size() never fails and the character stands for the   *)
(* code.  Every section of the mutex is one action.                        *)
(*                                                                         *)
(* A definition whose comment begins with "Mistake:" is used by no action: *)
(* it is the one after it as a plausible bug would make it.                *)
(***************************************************************************)
EXTENDS Naturals, Sequences

CONSTANTS
  PinCount,     (* data pins: 4 in the program                            *)
  Usages,       (* the ways in which the decoder is used, see Usage       *)
  NoKey,        (* nothing has been read yet                              *)
  MaxFifo       (* the decoder presents no key beyond this many unread    *)

(* spaced:       is a key read before the decoder presents the next, and   *)
(*               are the data pins inputs before open()?                   *)
(* handlerReads: does the user handler call read()?                        *)
(* clientReads:  does the application call read() from its own thread?     *)
Usage == [spaced : BOOLEAN, handlerReads : BOOLEAN, clientReads : BOOLEAN]

ASSUME DtmfAssumption ==
  /\ PinCount \in Nat \ {0}
  /\ Usages \subseteq Usage
  /\ MaxFifo \in Nat
  /\ \A k \in SUBSET (0 .. PinCount - 1) : NoKey # k

Pins == 0 .. PinCount - 1
Keys == SUBSET Pins

VARIABLES
  usage,      (* chosen once                                              *)
  isOpen,     (* fields of Dtmf::Private                                  *)
  handler,    (* is userKeyHandler set?                                   *)
  fifo,
  attached,   (* has the DV pin an interrupt attached?                    *)
  irq,        (* is it pending?                                           *)
  ready,      (* are the data pins inputs?                                *)
  code,       (* the key the decoder presents                             *)
  got,        (* the key the last successful read() returned              *)
  pc,         (* of the "client" and of the "key" interrupt thread        *)
  keyIsr      (* locals of the running keyIsr: the next pin to read and   *)
              (* the pins found high                                      *)

vars == <<usage, isOpen, handler, fifo, attached, irq, ready, code, got, pc, keyIsr>>

ClientPc == {"idle", "attached", "detached"}
KeyPc    == {"idle", "read", "push", "call", "handler"}
NoCode   == [next |-> 0, high |-> {}]

Go(t, l) == pc' = [pc EXCEPT ![t] = l]

Init ==
  /\ usage \in Usages
  /\ isOpen = FALSE
  /\ handler = FALSE
  /\ fifo = <<>>
  /\ attached = FALSE
  /\ irq = FALSE
  /\ ready = usage.spaced
  /\ code \in Keys
  /\ got = NoKey
  /\ pc = [client |-> "idle", key |-> "idle"]
  /\ keyIsr = NoCode

-----------------------------------------------------------------------------
(* The client.                                                              *)

(* open() attaches the interrupt before it makes the data pins inputs. *)
Open ==
  /\ pc["client"] = "idle"
  /\ ~isOpen
  /\ attached' = TRUE
  /\ Go("client", "attached")
  /\ UNCHANGED <<usage, isOpen, handler, fifo, irq, ready, code, got, keyIsr>>

Opened ==
  /\ pc["client"] = "attached"
  /\ ready' = TRUE
  /\ isOpen' = TRUE
  /\ Go("client", "idle")
  /\ UNCHANGED <<usage, handler, fifo, attached, irq, code, got, keyIsr>>

(* Mistake: close() leaves the interrupt attached. *)
NotDetached == UNCHANGED <<attached, irq>>

(* detachInterrupt stops the thread of the pin ... *)
Detach == attached' = FALSE /\ irq' = FALSE

Close ==
  /\ pc["client"] = "idle"
  /\ isOpen
  /\ Detach
  /\ Go("client", "detached")
  /\ UNCHANGED <<usage, isOpen, handler, fifo, ready, code, got, keyIsr>>

(* Mistake: close() returns while keyIsr is running. *)
NotAwaited == TRUE

(* ... then waits for it. *)
IsrEnded == pc["key"] = "idle"

Closed ==
  /\ pc["client"] = "detached"
  /\ IsrEnded
  /\ isOpen' = FALSE
  /\ Go("client", "idle")
  /\ UNCHANGED <<usage, handler, fifo, attached, irq, ready, code, got, keyIsr>>

SetKeyHandler(v) ==
  /\ pc["client"] = "idle"
  /\ handler' = v
  /\ UNCHANGED <<usage, isOpen, fifo, attached, irq, ready, code, got, pc, keyIsr>>

(* Mistake: the newest key is taken first. *)
TakeNewest ==
  /\ fifo # <<>>
  /\ got' = fifo[Len(fifo)]
  /\ fifo' = SubSeq(fifo, 1, Len(fifo) - 1)

(* read(), when it finds a key; otherwise it returns -1 and changes nothing. *)
Take ==
  /\ fifo # <<>>
  /\ got' = Head(fifo)
  /\ fifo' = Tail(fifo)

ClientRead ==
  /\ usage.clientReads
  /\ pc["client"] = "idle"
  /\ Take
  /\ UNCHANGED <<usage, isOpen, handler, attached, irq, ready, code, pc, keyIsr>>

-----------------------------------------------------------------------------
(* keyIsr                                                                   *)

(* Mistake: without a handler the interrupt is left alone. *)
DueIfHandled == attached /\ irq /\ handler
Due == attached /\ irq

(* The interrupt is taken and the DV pin read, which erases it. *)
Dispatch ==
  /\ pc["key"] = "idle"
  /\ Due
  /\ irq' = FALSE
  /\ keyIsr' = NoCode
  /\ Go("key", "read")
  /\ UNCHANGED <<usage, isOpen, handler, fifo, attached, ready, code, got>>

(* A pin that is not an input yet may read as anything. *)
Level(p) == IF ready THEN {p \in code} ELSE BOOLEAN

(* Mistake: one pin too many is read. *)
PastLastPin(p) == p = PinCount
LastPin(p) == p + 1 = PinCount

ReadPin ==
  /\ pc["key"] = "read"
  /\ \E v \in Level(keyIsr.next) :
       keyIsr' = [next |-> keyIsr.next + 1,
                  high |-> keyIsr.high \cup (IF v THEN {keyIsr.next} ELSE {})]
  /\ Go("key", IF LastPin(keyIsr.next) THEN "push" ELSE "read")
  /\ UNCHANGED <<usage, isOpen, handler, fifo, attached, irq, ready, code, got>>

(* Mistake: the key of code 0 is taken for no key. *)
QueuedNonZero(k) == IF k = {} THEN fifo ELSE Append(fifo, k)
Queued(k) == Append(fifo, k)

Push ==
  /\ pc["key"] = "push"
  /\ fifo' = Queued(keyIsr.high)
  /\ keyIsr' = NoCode
  /\ Go("key", "call")
  /\ UNCHANGED <<usage, isOpen, handler, attached, irq, ready, code, got>>

Call ==
  /\ pc["key"] = "call"
  /\ Go("key", IF handler THEN "handler" ELSE "idle")
  /\ UNCHANGED <<usage, isOpen, handler, fifo, attached, irq, ready, code, got, keyIsr>>

RunHandler ==
  /\ pc["key"] = "handler"
  /\ \/ usage.handlerReads /\ Take
     \/ (usage.handlerReads => fifo = <<>>) /\ UNCHANGED <<fifo, got>>
  /\ Go("key", "idle")
  /\ UNCHANGED <<usage, isOpen, handler, attached, irq, ready, code, keyIsr>>

-----------------------------------------------------------------------------
(* The decoder presents a key.  An edge while one is pending adds nothing.  *)
Press(k) ==
  /\ Len(fifo) < MaxFifo
  /\ usage.spaced => ~irq /\ pc["key"] # "read"
  /\ code' = k
  /\ irq' = attached
  /\ UNCHANGED <<usage, isOpen, handler, fifo, attached, ready, got, pc, keyIsr>>

-----------------------------------------------------------------------------
Client    == \/ Open \/ Opened \/ Close \/ Closed \/ ClientRead
             \/ \E v \in BOOLEAN : SetKeyHandler(v)
KeyThread == Dispatch \/ ReadPin \/ Push \/ Call \/ RunHandler

Next == Client \/ KeyThread \/ \E k \in Keys : Press(k)

Spec == Init /\ [][Next]_vars

(* The interrupt thread runs, and so does the client inside open() and     *)
(* close().                                                                *)
Fairness == WF_vars(KeyThread) /\ WF_vars(Opened) /\ WF_vars(Closed)
FairSpec == Spec /\ Fairness

-----------------------------------------------------------------------------
TypeOK ==
  /\ usage \in Usages
  /\ isOpen \in BOOLEAN
  /\ handler \in BOOLEAN
  /\ fifo \in Seq(Keys)
  /\ attached \in BOOLEAN
  /\ irq \in BOOLEAN
  /\ ready \in BOOLEAN
  /\ code \in Keys
  /\ got \in Keys \cup {NoKey}
  /\ pc \in [{"client", "key"} -> ClientPc \cup KeyPc]
  /\ pc["client"] \in ClientPc /\ pc["key"] \in KeyPc
  /\ keyIsr \in [next : 0 .. PinCount, high : Keys]

(* Once close() has returned keyIsr is not running and cannot start, so    *)
(* that ~Dtmf() may free the object.                                       *)
ClosedIsQuiet ==
  ~isOpen /\ pc["client"] = "idle" => ~attached /\ ~irq /\ pc["key"] = "idle"

(* As long as only handlers read, each finds a key: the -1 that keyIsr of  *)
(* the demos would print as a character never comes.                       *)
HandlerFindsKey ==
  pc["key"] = "handler" /\ ~usage.clientReads => fifo # <<>>

(* The keys on their way to the application, oldest first. *)
Pending ==
  fifo \o (IF pc["key"] = "push" THEN <<keyIsr.high>> ELSE <<>>)
       \o (IF irq \/ pc["key"] = "read" THEN <<code>> ELSE <<>>)

Stream == INSTANCE OrderedDelivery
            WITH Item <- Keys, Nothing <- NoKey,
                 queue <- IF usage.spaced THEN Pending ELSE <<>>,
                 last <- IF usage.spaced THEN got ELSE NoKey

(* As long as a key is read before the next is presented, the application  *)
(* reads the keys of the caller, whole, once each and in order, whichever  *)
(* thread calls read(); only close() may lose one, the newest.  Nothing is *)
(* claimed of keys that come faster.                                       *)
DeliversKeys == Stream!Spec

(* A key presented while the line is open reaches the queue. *)
KeyQueued == irq ~> pc["key"] = "call" \/ ~attached

(* close() returns, even if keys keep coming. *)
CloseReturns == pc["client"] = "detached" ~> pc["client"] = "idle"
=============================================================================
