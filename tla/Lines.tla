-------------------------------- MODULE Lines --------------------------------
(***************************************************************************)
(* Line objects that are constructed, copied, assigned, swapped and        *)
(* destroyed (src/daa.cpp), on the Toueris board (src/toueris/daa.cpp).    *)
(*                                                                         *)
(* An object owns a Private through its d_ptr; the interrupt of the ring   *)
(* pin is attached with a Private as its data.  All objects name the same  *)
(* pins.  A copy is made field by field, isOpen included, so that closing  *)
(* one of two such objects takes the interrupt from both.                  *)
(*                                                                         *)
(* The hook of the Toueris board is a latching relay: a pulse of 5 ms on   *)
(* one of two coils moves it, and a LED on the hook pin of the library     *)
(* tells where it is.  A copy is a Piphons::Daa::Private and drives the    *)
(* LED only.                                                               *)
(*                                                                         *)
(* ringIsr is reduced to what it does to the hook; module Daa has the      *)
(* rest.  The objects of a behaviour may instead be decoders, of class     *)
(* Dtmf (src/dtmf.cpp): the same operations, the interrupt of the DV pin,  *)
(* no hook, and a queue of keys that is copied like any field.             *)
(*                                                                         *)
(* A definition whose comment begins with "Mistake:" is used by no action: *)
(* it is the one after it as a plausible bug would make it.                *)
(***************************************************************************)
EXTENDS Naturals, FiniteSets

CONSTANTS
  Classes,    (* the classes whose objects are to be looked at            *)
  Objects,    (* the variables of the application                         *)
  Privates,   (* the addresses a Private may have                         *)
  None        (* no Private                                               *)

ASSUME LinesAssumption == Classes \subseteq {"Daa", "Dtmf"} /\ None \notin Privates

Threads == {"client", "ring"}

(* latching: is it a Toueris::Daa::Private? *)
PrivateRecord == [isOpen : BOOLEAN, latching : BOOLEAN]

(* A call of Private::offhook(on): waiting for the end of the pulse or     *)
(* about to write the LED.  Is it the only one in progress?                *)
HookCall == [at : {"none", "pulse", "led"}, on : BOOLEAN, alone : BOOLEAN]
NoCall   == [at |-> "none", on |-> FALSE, alone |-> FALSE]

VARIABLES
  class,      (* of the objects, chosen once                              *)
  d,          (* the d_ptr of each object, None before its construction   *)
  heap,       (* the Privates that have been allocated and not freed      *)
  attached,   (* the data of the ring pin's interrupt                     *)
  isr,        (* the data of the ringIsr that is running                  *)
  hooked,     (* has it called offhook() yet?                             *)
  pc,         (* of the client: where it is in its operation              *)
  work,       (* what it is doing, and to which Private                   *)
  call,       (* the hook call of each thread                             *)
  coils,      (* the coils that are under current                         *)
  relay,      (* does the relay seize the line?                           *)
  led,
  told        (* history: has a hook call moved relay and LED without     *)
              (* another interfering, and none of them since?             *)

board  == <<call, coils, relay, led, told>>
memory == <<class, d, heap>>
vars   == <<memory, attached, isr, hooked, pc, work, board>>

NoWork == [op |-> "none", on |-> None]

Init ==
  /\ class \in Classes
  /\ d = [o \in Objects |-> None]
  /\ heap = <<>>
  /\ attached = None /\ isr = None /\ hooked = FALSE
  /\ pc = "idle" /\ work = NoWork
  /\ call = [t \in Threads |-> NoCall]
  /\ coils = {} /\ relay \in BOOLEAN /\ led \in BOOLEAN /\ told = FALSE

HasHook == class = "Daa"

Allocated == DOMAIN heap
With(p, fields) ==
  [x \in Allocated \cup {p} |-> IF x = p THEN fields ELSE heap[x]]
Without(p) == [x \in Allocated \ {p} |-> heap[x]]

-----------------------------------------------------------------------------
(* The hook of the board                                                    *)

(* Mistake: the coils are taken for each other. *)
OtherCoil(on) == IF on THEN "reset" ELSE "set"
Coil(on) == IF on THEN "set" ELSE "reset"

(* Where the relay may be with this current: pulses that meet leave it     *)
(* anywhere.                                                               *)
Position(current) == IF current = {} THEN {relay}
                     ELSE IF coils = {} THEN {current = {"set"}} ELSE BOOLEAN

Drive(current) == coils' = current /\ relay' \in Position(current)

Busy(t) == call[t].at # "none"

(* Thread t calls offhook(on) of p: a Private of the board starts a pulse, *)
(* a copy writes the LED.                                                  *)
Offhook(t, p, on) ==
  LET alone == \A u \in Threads : ~Busy(u)
  IN IF heap[p].latching
       THEN /\ Drive(coils \cup {Coil(on)})
            /\ call' = [u \in Threads |->
                          IF u = t THEN [at |-> "pulse", on |-> on, alone |-> alone]
                                   ELSE [call[u] EXCEPT !.alone = FALSE]]
            /\ told' = FALSE
            /\ UNCHANGED led
       ELSE led' = on /\ told' = FALSE /\ UNCHANGED <<call, coils, relay>>

(* Mistake: the current of the coil is left on when the line is seized. *)
LeftOn(on) == IF on THEN {} ELSE {Coil(on)}
SwitchedOff(on) == {Coil(on)}

EndPulse(t) ==
  /\ call[t].at = "pulse"
  /\ Drive(coils \ SwitchedOff(call[t].on))
  /\ call' = [call EXCEPT ![t].at = "led"]
  /\ UNCHANGED <<memory, attached, isr, hooked, pc, work, led, told>>

WriteLed(t) ==
  /\ call[t].at = "led"
  /\ led' = call[t].on
  /\ told' = call[t].alone
  /\ call' = [call EXCEPT ![t] = NoCall]
  /\ UNCHANGED <<memory, attached, isr, hooked, pc, work, coils, relay>>

-----------------------------------------------------------------------------
(* The client                                                               *)

Idle == pc = "idle" /\ ~Busy("client")
Alive(o) == d[o] # None

(* The client starts op on p at label l. *)
Begin(op, p, l) == work' = [op |-> op, on |-> p] /\ pc' = l
Done == work' = NoWork /\ pc' = "idle"

Construct(o, p) ==
  /\ Idle
  /\ ~Alive(o) /\ p \notin Allocated
  /\ d' = [d EXCEPT ![o] = p]
  /\ heap' = With(p, [isOpen |-> FALSE, latching |-> HasHook])
  /\ UNCHANGED <<class, attached, isr, hooked, pc, work, board>>

(* A copy has the fields of the other, but that of a line drives no coil. *)
LineCopy(p)    == [heap[p] EXCEPT !.latching = FALSE]
DecoderCopy(p) == heap[p]
CopyOf(p) == IF HasHook THEN LineCopy(p) ELSE DecoderCopy(p)

Copy(o, other, p) ==
  /\ Idle
  /\ ~Alive(o) /\ Alive(other) /\ p \notin Allocated
  /\ d' = [d EXCEPT ![o] = p]
  /\ heap' = With(p, CopyOf(d[other]))
  /\ UNCHANGED <<class, attached, isr, hooked, pc, work, board>>

Swap(o, other) ==
  /\ Idle
  /\ Alive(o) /\ Alive(other)
  /\ d' = [d EXCEPT ![o] = d[other], ![other] = d[o]]
  /\ UNCHANGED <<class, heap, attached, isr, hooked, pc, work, board>>

(* The temporary copy is swapped with the target, whose former Private its *)
(* destructor then closes and frees.                                       *)
Assign(o, other, p) ==
  /\ Idle
  /\ Alive(o) /\ Alive(other) /\ p \notin Allocated
  /\ heap' = With(p, CopyOf(d[other]))
  /\ d' = [d EXCEPT ![o] = p]
  /\ Begin("free", d[o], "close")
  /\ UNCHANGED <<class, attached, isr, hooked, board>>

Destroy(o) ==
  /\ Idle
  /\ Alive(o)
  /\ d' = [d EXCEPT ![o] = None]
  /\ Begin("free", d[o], "close")
  /\ UNCHANGED <<class, heap, attached, isr, hooked, board>>

(* close() does nothing when the object is not open. *)
Close(o) ==
  /\ Idle
  /\ Alive(o)
  /\ Begin("close", d[o], "close")
  /\ UNCHANGED <<memory, attached, isr, hooked, board>>

(* Mistake: the destructor does not close the line. *)
ClosedByCaller(p) == work.op = "close" /\ heap[p].isOpen
NeedsClosing(p) == heap[p].isOpen

HangUp ==
  /\ pc = "close"
  /\ NeedsClosing(work.on)
  /\ IF HasHook THEN Offhook("client", work.on, FALSE) ELSE UNCHANGED board
  /\ pc' = "detach"
  /\ UNCHANGED <<memory, attached, isr, hooked, work>>

(* Whoever's interrupt it is. *)
Detach ==
  /\ pc = "detach" /\ ~Busy("client")
  /\ attached' = None
  /\ pc' = "join"
  /\ UNCHANGED <<memory, isr, hooked, work, board>>

Join ==
  /\ pc = "join"
  /\ isr = None
  /\ heap' = [heap EXCEPT ![work.on].isOpen = FALSE]
  /\ pc' = "close"
  /\ UNCHANGED <<class, d, attached, isr, hooked, work, board>>

(* Mistake: the Private of a destroyed object is never freed. *)
Kept(p) == heap
(* Mistake: the Private of an object that is only closed is freed too. *)
FreedAnyway(p) == Without(p)
Freed(p) == IF work.op = "free" THEN Without(p) ELSE heap

Closed ==
  /\ pc = "close"
  /\ ~NeedsClosing(work.on)
  /\ heap' = Freed(work.on)
  /\ Done
  /\ UNCHANGED <<class, d, attached, isr, hooked, board>>

(* open() of a Private of the board first switches both coils off, which   *)
(* cuts a pulse short.  It does nothing, successfully, on an open object.  *)
Open(o) ==
  /\ Idle
  /\ Alive(o) /\ ~heap[d[o]].isOpen
  /\ Begin("open", d[o], IF HasHook THEN "hook" ELSE "attach")
  /\ IF heap[d[o]].latching /\ coils # {}
       THEN /\ coils' = {} /\ relay' \in BOOLEAN
            /\ call' = [t \in Threads |-> [call[t] EXCEPT !.alone = FALSE]]
       ELSE UNCHANGED <<call, coils, relay>>
  /\ UNCHANGED <<memory, attached, isr, hooked, led, told>>

OpenHook ==
  /\ pc = "hook"
  /\ Offhook("client", work.on, FALSE)
  /\ pc' = "attach"
  /\ UNCHANGED <<memory, attached, isr, hooked, work>>

(* What attachInterrupt() does to an interrupt that is attached already is *)
(* not known here: it stays, or it is replaced once its ISR has ended.     *)
Attach ==
  /\ pc = "attach" /\ ~Busy("client")
  /\ \/ attached' = work.on /\ (attached # None => isr = None)
     \/ attached # None /\ UNCHANGED attached
  /\ pc' = "opened"
  /\ UNCHANGED <<memory, isr, hooked, work, board>>

Opened ==
  /\ pc = "opened"
  /\ heap' = [heap EXCEPT ![work.on].isOpen = TRUE]
  /\ Done
  /\ UNCHANGED <<class, d, attached, isr, hooked, board>>

ClientHook(o, on) ==
  /\ Idle
  /\ HasHook /\ Alive(o) /\ heap[d[o]].isOpen
  /\ Offhook("client", d[o], on)
  /\ UNCHANGED <<memory, attached, isr, hooked, pc, work>>

-----------------------------------------------------------------------------
(* ringIsr, or keyIsr                                                       *)

RingDispatch ==
  /\ isr = None
  /\ attached # None
  /\ isr' = attached /\ hooked' = FALSE
  /\ UNCHANGED <<memory, attached, pc, work, board>>

(* It answers a line that is on hook, if it has rung often enough, and     *)
(* hangs up one that is off hook; the LED that it goes by may have changed *)
(* since it looked.                                                        *)
RingHook(on) ==
  /\ HasHook /\ isr # None /\ ~hooked
  /\ Offhook("ring", isr, on)
  /\ hooked' = TRUE
  /\ UNCHANGED <<memory, attached, isr, pc, work>>

RingReturn ==
  /\ isr # None /\ ~Busy("ring")
  /\ isr' = None
  /\ UNCHANGED <<memory, attached, hooked, pc, work, board>>

-----------------------------------------------------------------------------
Client ==
  \/ \E o \in Objects :
       \/ Destroy(o) \/ Close(o) \/ Open(o)
       \/ \E on \in BOOLEAN : ClientHook(o, on)
       \/ \E p \in Privates : Construct(o, p)
       \/ \E other \in Objects :
            \/ Swap(o, other)
            \/ \E p \in Privates : Copy(o, other, p) \/ Assign(o, other, p)
  \/ HangUp \/ Detach \/ Join \/ Closed \/ OpenHook \/ Attach \/ Opened

Next == \/ Client
        \/ RingDispatch \/ RingReturn \/ \E on \in BOOLEAN : RingHook(on)
        \/ \E t \in Threads : EndPulse(t) \/ WriteLed(t)

Spec == Init /\ [][Next]_vars

-----------------------------------------------------------------------------
TypeOK ==
  /\ class \in Classes
  /\ d \in [Objects -> Allocated \cup {None}]
  /\ Allocated \subseteq Privates /\ heap \in [Allocated -> PrivateRecord]
  /\ attached \in Privates \cup {None} /\ isr \in Privates \cup {None}
  /\ pc \in {"idle", "close", "detach", "join", "hook", "attach", "opened"}
  /\ work \in [op : {"none", "open", "close", "free"}, on : Privates \cup {None}]
  /\ call \in [Threads -> HookCall]
  /\ coils \subseteq {"set", "reset"}
  /\ {hooked, relay, led, told} \subseteq BOOLEAN

(* Whatever is copied, assigned or swapped, also while an ISR runs: the    *)
(* Private that an interrupt carries has not been freed, and its object is *)
(* open, or being opened.                                                  *)
IsrDataAlive ==
  /\ {attached, isr} \subseteq Allocated \cup {None}
  /\ attached # None => heap[attached].isOpen \/ work = [op |-> "open", on |-> attached]

(* Between two operations every Private has one owner: none has leaked and *)
(* none will be freed twice.                                               *)
OwnedOnce ==
  Idle => /\ {d[o] : o \in {o \in Objects : Alive(o)}} = Allocated
          /\ \A o, other \in Objects : Alive(o) /\ d[o] = d[other] => o = other

(* A coil that is made for pulses is under current only during one.        *)
CoilsRest ==
  \A c \in coils : \E t \in Threads : call[t].at = "pulse" /\ Coil(call[t].on) = c

(* isOffhook(), which reads the LED, tells where the relay is, as long as  *)
(* the last hook call met no other and no copy has moved the LED since.    *)
LedTellsRelay == told => relay = led
=============================================================================
