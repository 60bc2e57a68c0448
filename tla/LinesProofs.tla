----------------------------- MODULE LinesProofs -----------------------------
(***************************************************************************)
(* What the runs check of line objects and decoders that are constructed,  *)
(* copied, assigned, swapped and destroyed, and of the hook of the Toueris *)
(* board, proved for any objects and any addresses.                        *)
(***************************************************************************)
EXTENDS Lines, TLAPS

-----------------------------------------------------------------------------
(* The inductive invariant                                                  *)

Pcs == {"idle", "close", "detach", "join", "hook", "attach", "opened"}

(* TypeOK as the provers need it, the functions by what they give. *)
TypeInv ==
  /\ class \in Classes
  /\ DOMAIN d = Objects /\ \A o \in Objects : d[o] \in Allocated \cup {None}
  /\ d = [o \in Objects |-> d[o]]
  /\ Allocated \subseteq Privates
  /\ heap = [p \in Allocated |-> heap[p]]
  /\ \A p \in Allocated : heap[p] \in PrivateRecord
  /\ attached \in Privates \cup {None} /\ isr \in Privates \cup {None}
  /\ pc \in Pcs
  /\ work \in [op : {"none", "open", "close", "free"}, on : Privates \cup {None}]
  /\ call \in [Threads -> HookCall]
  /\ coils \subseteq {"set", "reset"}
  /\ hooked \in BOOLEAN /\ relay \in BOOLEAN /\ led \in BOOLEAN /\ told \in BOOLEAN

(* Where the client is tells what it does, and to a Private that exists.   *)
WorkInv ==
  /\ pc = "idle" => work = NoWork
  /\ pc \in {"hook", "attach", "opened"} => work.op = "open"
  /\ pc \in {"close", "detach", "join"} => work.op \in {"close", "free"}
  /\ pc # "idle" => work.on \in Allocated

(* A Private has one owner: an object, or the client that is freeing it.   *)
OwnerInv ==
  /\ \A o, other \in Objects : Alive(o) /\ d[o] = d[other] => o = other
  /\ \A p \in Allocated : \/ \E o \in Objects : d[o] = p
                          \/ work.op = "free" /\ work.on = p
  /\ work.op = "free" => \A o \in Objects : d[o] # work.on

(* What an interrupt carries is open, or being opened; after the client    *)
(* has detached the interrupt, until it is done, none is attached.         *)
IsrInv ==
  /\ \A p \in {attached, isr} : p # None =>
       p \in Allocated /\ (heap[p].isOpen \/ work = [op |-> "open", on |-> p])
  /\ pc = "join" => attached = None

(* A hook call belongs to a client that waits for it, or to an ISR that    *)
(* has made its call.                                                      *)
BusyInv ==
  /\ Busy("client") => pc \in {"idle", "detach", "attach"}
  /\ Busy("ring") => isr # None /\ hooked

(* A call that meets no other moves the relay by a current of its own.     *)
AloneInv ==
  \A t \in Threads : call[t].alone =>
    /\ Busy(t) /\ \A u \in Threads : u # t => ~Busy(u)
    /\ call[t].at = "pulse" => coils = {Coil(call[t].on)}
    /\ relay = call[t].on

(* Once it has told, the board is at rest. *)
ToldInv == told => relay = led /\ \A t \in Threads : ~Busy(t)

HookInv == CoilsRest /\ AloneInv /\ ToldInv

IInv == WorkInv /\ OwnerInv /\ IsrInv /\ BusyInv /\ HookInv


-----------------------------------------------------------------------------
(* The steps by what they leave alone                                       *)

(* Those in which a call of offhook() starts: in thread t, of p. *)
HookStep(t, p, on) ==
  /\ Offhook(t, p, on)
  /\ memory' = memory /\ attached' = attached /\ isr' = isr
  /\ \/ /\ t = "client" /\ hooked' = hooked
        /\ \/ pc = "close" /\ pc' = "detach" /\ work' = work /\ p = work.on
           \/ pc = "hook" /\ pc' = "attach" /\ work' = work /\ p = work.on
           \/ pc = "idle" /\ ~Busy("client") /\ pc' = pc /\ work' = work
     \/ /\ t = "ring" /\ isr # None /\ ~hooked /\ hooked' = TRUE
        /\ pc' = pc /\ work' = work

HookSteps == \E t \in Threads, p \in Privates \cup {None}, on \in BOOLEAN : HookStep(t, p, on)

(* Those that leave the board alone. *)
ObjectSteps == \E o \in Objects :
  \/ Destroy(o) \/ Close(o)
  \/ \E p \in Privates : Construct(o, p)
  \/ \E other \in Objects :
       \/ Swap(o, other)
       \/ \E p \in Privates : Copy(o, other, p) \/ Assign(o, other, p)

CallSteps == (HangUp /\ ~HasHook) \/ Detach \/ Join \/ Closed \/ Attach \/ Opened
IsrSteps  == RingDispatch \/ RingReturn
OpenSteps == \E o \in Objects : Open(o)
PulseSteps == \E t \in Threads : EndPulse(t) \/ WriteLed(t)

LEMMA Steps ==
  ASSUME TypeInv, WorkInv, Next
  PROVE  ObjectSteps \/ CallSteps \/ IsrSteps \/ OpenSteps \/ PulseSteps \/ HookSteps
<1> USE DEF HookSteps, HookStep
<1>1. CASE HangUp
  <2>1. CASE HasHook
    <3>1. HookStep("client", work.on, FALSE)
      BY <1>1, <2>1 DEF HangUp, memory
    <3> QED
      BY <3>1 DEF TypeInv, Threads
  <2> QED
    BY <1>1, <2>1 DEF CallSteps
<1>2. CASE OpenHook
  <2>1. HookStep("client", work.on, FALSE)
    BY <1>2 DEF OpenHook, memory
  <2> QED
    BY <2>1 DEF TypeInv, Threads
<1>3. CASE \E o \in Objects, on \in BOOLEAN : ClientHook(o, on)
  <2>1. PICK o \in Objects, on \in BOOLEAN : ClientHook(o, on)
    BY <1>3
  <2>2. HookStep("client", d[o], on) /\ d[o] \in Privates \cup {None}
    BY <2>1 DEF ClientHook, memory, Idle, TypeInv
  <2> QED
    BY <2>2 DEF Threads
<1>4. CASE \E on \in BOOLEAN : RingHook(on)
  <2>1. PICK on \in BOOLEAN : RingHook(on)
    BY <1>4
  <2>2. HookStep("ring", isr, on)
    BY <2>1 DEF RingHook, memory
  <2> QED
    BY <2>2 DEF TypeInv, Threads
<1>5. CASE \E o \in Objects : Open(o)
  BY <1>5 DEF OpenSteps
<1>6. CASE RingDispatch \/ RingReturn
  BY <1>6 DEF IsrSteps
<1>7. CASE \E t \in Threads : EndPulse(t) \/ WriteLed(t)
  BY <1>7 DEF PulseSteps
<1>8. CASE Detach \/ Join \/ Closed \/ Attach \/ Opened
  BY <1>8 DEF CallSteps
<1> HIDE DEF HookSteps, HookStep
<1> QED
  BY <1>1, <1>2, <1>3, <1>4, <1>5, <1>6, <1>7, <1>8 DEF Next, Client, ObjectSteps

-----------------------------------------------------------------------------
(* Types                                                                    *)

(* The fields of a record of which one is changed. *)
LEMMA CallFields ==
  ASSUME NEW c \in HookCall
  PROVE  /\ [c EXCEPT !.alone = FALSE] \in HookCall
         /\ [c EXCEPT !.at = "led"] \in HookCall
         /\ [c EXCEPT !.alone = FALSE].at = c.at /\ [c EXCEPT !.alone = FALSE].on = c.on
         /\ [c EXCEPT !.alone = FALSE].alone = FALSE
         /\ [c EXCEPT !.at = "led"].at = "led" /\ [c EXCEPT !.at = "led"].on = c.on
         /\ [c EXCEPT !.at = "led"].alone = c.alone
BY DEF HookCall

LEMMA PrivateFields ==
  ASSUME NEW r \in PrivateRecord
  PROVE  /\ [r EXCEPT !.latching = FALSE] \in PrivateRecord
         /\ [r EXCEPT !.latching = FALSE].isOpen = r.isOpen
         /\ \A b \in BOOLEAN : /\ [r EXCEPT !.isOpen = b] \in PrivateRecord
                               /\ [r EXCEPT !.isOpen = b].isOpen = b
BY DEF PrivateRecord

LEMMA Swapped ==
  ASSUME TypeInv, NEW o \in Objects, NEW other \in Objects,
         d' = [d EXCEPT ![o] = d[other], ![other] = d[o]]
  PROVE  /\ d' = [x \in Objects |-> d'[x]]
         /\ \A x \in Objects :
              d'[x] = IF x = other THEN d[o] ELSE IF x = o THEN d[other] ELSE d[x]
<1> DEFINE half == [d EXCEPT ![o] = d[other]]
<1>1. /\ half = [x \in Objects |-> half[x]]
      /\ \A x \in Objects : half[x] = IF x = o THEN d[other] ELSE d[x]
  BY DEF TypeInv
<1>2. d' = [half EXCEPT ![other] = d[o]]
  OBVIOUS
<1> HIDE DEF half
<1> QED
  BY <1>1, <1>2

LEMMA OffhookTypes ==
  ASSUME TypeInv, NEW t \in Threads, NEW p, NEW on \in BOOLEAN, Offhook(t, p, on)
  PROVE  /\ call' \in [Threads -> HookCall] /\ coils' \subseteq {"set", "reset"}
         /\ relay' \in BOOLEAN /\ led' \in BOOLEAN /\ told' \in BOOLEAN
<1> USE DEF TypeInv, HookCall, Threads
<1>1. CASE heap[p].latching
  <2>1. Position(coils \cup {Coil(on)}) \subseteq BOOLEAN
    BY DEF Position
  <2>2. relay' \in BOOLEAN /\ coils' = coils \cup {Coil(on)}
    BY <1>1, <2>1 DEF Offhook, Drive
  <2>3. call' \in [Threads -> HookCall]
    <3> DEFINE alone == \A u \in Threads : ~Busy(u)
    <3>1. call' = [u \in Threads |->
                     IF u = t THEN [at |-> "pulse", on |-> on, alone |-> alone]
                              ELSE [call[u] EXCEPT !.alone = FALSE]]
      BY <1>1 DEF Offhook
    <3>2. [at |-> "pulse", on |-> on, alone |-> alone] \in HookCall
      <4>1. alone \in BOOLEAN
        OBVIOUS
      <4> HIDE DEF alone
      <4> QED
        BY <4>1
    <3>3. \A u \in Threads : [call[u] EXCEPT !.alone = FALSE] \in HookCall
      BY CallFields
    <3> HIDE DEF alone
    <3> QED
      BY <3>1, <3>2, <3>3
  <2>4. led' = led /\ told' = FALSE
    BY <1>1 DEF Offhook
  <2> QED
    BY <2>2, <2>3, <2>4 DEF Coil
<1>2. CASE ~heap[p].latching
  BY <1>2 DEF Offhook
<1> QED
  BY <1>1, <1>2

LEMMA TypeStep == TypeInv /\ WorkInv /\ OwnerInv /\ [Next]_vars => TypeInv'
<1> SUFFICES ASSUME TypeInv, WorkInv, OwnerInv, [Next]_vars PROVE TypeInv'
  OBVIOUS
<1> USE DEF TypeInv, memory, board, Pcs
<1>1. CASE ObjectSteps
  <2> USE DEF Idle, Alive, Begin, Allocated, With
  <2>1. PICK o \in Objects :
          \/ Destroy(o) \/ Close(o)
          \/ \E p \in Privates : Construct(o, p)
          \/ \E other \in Objects :
               \/ Swap(o, other)
               \/ \E p \in Privates : Copy(o, other, p) \/ Assign(o, other, p)
    BY <1>1 DEF ObjectSteps
  <2>2. CASE Destroy(o) \/ Close(o)
    BY <2>2 DEF Destroy, Close
  <2>3. CASE \E p \in Privates : Construct(o, p)
    <3>1. PICK p \in Privates : Construct(o, p)
      BY <2>3
    <3>2. [isOpen |-> FALSE, latching |-> HasHook] \in PrivateRecord
      <4>1. HasHook \in BOOLEAN
        BY DEF HasHook
      <4> QED
        BY <4>1 DEF PrivateRecord
    <3> DEFINE fresh == [isOpen |-> FALSE, latching |-> HasHook]
    <3> HIDE DEF fresh
    <3>3. /\ d' = [d EXCEPT ![o] = p] /\ fresh \in PrivateRecord
          /\ heap' = [x \in DOMAIN heap \cup {p} |-> IF x = p THEN fresh ELSE heap[x]]
      BY <3>1, <3>2 DEF Construct, fresh
    <3>4. /\ DOMAIN d' = Objects /\ d' = [x \in Objects |-> d'[x]]
          /\ \A x \in Objects : d'[x] \in (DOMAIN heap)' \cup {None}
      BY <3>3
    <3>5. /\ (DOMAIN heap)' = DOMAIN heap \cup {p} /\ heap' = [x \in (DOMAIN heap)' |-> heap'[x]]
          /\ \A x \in (DOMAIN heap)' : heap'[x] \in PrivateRecord
      BY <3>3
    <3> QED
      BY <3>1, <3>4, <3>5 DEF Construct
  <2>4. CASE \E other \in Objects : Swap(o, other)
    <3>1. PICK other \in Objects : Swap(o, other)
      BY <2>4
    <3>2. /\ d' = [d EXCEPT ![o] = d[other], ![other] = d[o]] /\ UNCHANGED heap
      BY <3>1 DEF Swap
    <3>3. /\ d' = [x \in Objects |-> d'[x]]
          /\ \A x \in Objects :
               d'[x] = IF x = other THEN d[o] ELSE IF x = o THEN d[other] ELSE d[x]
      BY <3>2, Swapped
    <3>4. DOMAIN d' = Objects /\ \A x \in Objects : d'[x] \in DOMAIN heap \cup {None}
      BY <3>3
    <3> QED
      BY <3>1, <3>3, <3>4 DEF Swap
  <2>5. CASE \E other \in Objects, p \in Privates : Copy(o, other, p) \/ Assign(o, other, p)
    <3>1. PICK other \in Objects, p \in Privates : Copy(o, other, p) \/ Assign(o, other, p)
      BY <2>5
    <3>2. CopyOf(d[other]) \in PrivateRecord
      <4>1. d[other] \in DOMAIN heap /\ heap[d[other]] \in PrivateRecord
        BY <3>1 DEF Copy, Assign
      <4> QED
        BY <4>1, PrivateFields DEF CopyOf, LineCopy, DecoderCopy
    <3> DEFINE fresh == CopyOf(d[other])
    <3> HIDE DEF fresh
    <3>3. /\ d' = [d EXCEPT ![o] = p] /\ fresh \in PrivateRecord
          /\ heap' = [x \in DOMAIN heap \cup {p} |-> IF x = p THEN fresh ELSE heap[x]]
      BY <3>1, <3>2 DEF Copy, Assign, fresh
    <3>4. /\ DOMAIN d' = Objects /\ d' = [x \in Objects |-> d'[x]]
          /\ \A x \in Objects : d'[x] \in (DOMAIN heap)' \cup {None}
      BY <3>3
    <3>5. /\ (DOMAIN heap)' = DOMAIN heap \cup {p} /\ heap' = [x \in (DOMAIN heap)' |-> heap'[x]]
          /\ \A x \in (DOMAIN heap)' : heap'[x] \in PrivateRecord
      BY <3>3
    <3> QED
      BY <3>1, <3>4, <3>5 DEF Copy, Assign
  <2> QED
    BY <2>1, <2>2, <2>3, <2>4, <2>5
<1>2. CASE CallSteps
  <2> USE DEF Allocated, Done
  <2>1. CASE (HangUp /\ ~HasHook) \/ Detach
    BY <2>1 DEF HangUp, Detach
  <2>2. CASE Join \/ Opened
    <3>1. PICK b \in BOOLEAN : heap' = [heap EXCEPT ![work.on].isOpen = b]
      BY <2>2 DEF Join, Opened
    <3>2. work.on \in DOMAIN heap
      BY <2>2 DEF Join, Opened, WorkInv
    <3>3. /\ DOMAIN heap' = DOMAIN heap /\ heap' = [x \in DOMAIN heap |-> heap'[x]]
          /\ \A x \in DOMAIN heap : heap'[x] \in PrivateRecord
      <4> DEFINE fresh == [heap[work.on] EXCEPT !.isOpen = b]
      <4>1. heap' = [heap EXCEPT ![work.on] = fresh]
        BY <3>1
      <4>2. fresh \in PrivateRecord
        BY <3>2, PrivateFields
      <4> HIDE DEF fresh
      <4> QED
        BY <3>2, <4>1, <4>2
    <3> QED
      BY <2>2, <3>3 DEF Join, Opened, NoWork
  <2>3. CASE Closed
    <3>1. heap' = heap \/ heap' = [x \in DOMAIN heap \ {work.on} |-> heap[x]]
      BY <2>3 DEF Closed, Freed, Without
    <3>2. \A o \in Objects : work.op = "free" => d[o] # work.on
      BY DEF OwnerInv
    <3> QED
      BY <2>3, <3>1, <3>2 DEF Closed, Freed, Without, NoWork
  <2>4. CASE Attach
    BY <2>4 DEF Attach
  <2> QED
    BY <1>2, <2>1, <2>2, <2>3, <2>4 DEF CallSteps
<1>3. CASE IsrSteps
  BY <1>3 DEF IsrSteps, RingDispatch, RingReturn, Allocated
<1>4. CASE OpenSteps
  <2>1. PICK o \in Objects : Open(o)
    BY <1>4 DEF OpenSteps
  <2>2. /\ call' \in [Threads -> HookCall] /\ coils' \subseteq {"set", "reset"}
        /\ relay' \in BOOLEAN
    <3>1. \A t \in Threads : [call[t] EXCEPT !.alone = FALSE] \in HookCall
      BY CallFields
    <3>2. \/ UNCHANGED <<call, coils, relay>>
          \/ /\ coils' = {} /\ relay' \in BOOLEAN
             /\ call' = [t \in Threads |-> [call[t] EXCEPT !.alone = FALSE]]
      BY <2>1 DEF Open
    <3> QED
      BY <3>1, <3>2
  <2> QED
    BY <2>1, <2>2 DEF Open, Idle, Alive, Begin, Allocated
<1>5. CASE PulseSteps
  <2>1. PICK t \in Threads : EndPulse(t) \/ WriteLed(t)
    BY <1>5 DEF PulseSteps
  <2>2. CASE EndPulse(t)
    <3>1. relay' \in BOOLEAN /\ coils' \subseteq coils
      BY <2>2 DEF EndPulse, Drive, Position
    <3>2. call' \in [Threads -> HookCall]
      <4>1. call' = [call EXCEPT ![t] = [call[t] EXCEPT !.at = "led"]]
        BY <2>2 DEF EndPulse
      <4> QED
        BY <4>1, CallFields
    <3> QED
      BY <2>2, <3>1, <3>2 DEF EndPulse, Allocated
  <2>3. CASE WriteLed(t)
    <3>1. NoCall \in HookCall /\ call[t].on \in BOOLEAN /\ call[t].alone \in BOOLEAN
      BY DEF NoCall, HookCall
    <3> QED
      BY <2>3, <3>1 DEF WriteLed, Allocated
  <2> QED
    BY <2>1, <2>2, <2>3
<1>6. CASE HookSteps
  <2>1. PICK t \in Threads, p \in Privates \cup {None}, on \in BOOLEAN : HookStep(t, p, on)
    BY <1>6 DEF HookSteps
  <2>2. Offhook(t, p, on)
    BY <2>1 DEF HookStep
  <2>3. /\ call' \in [Threads -> HookCall] /\ coils' \subseteq {"set", "reset"}
        /\ relay' \in BOOLEAN /\ led' \in BOOLEAN /\ told' \in BOOLEAN
    BY <2>2, OffhookTypes
  <2>4. /\ UNCHANGED <<class, d, heap, attached, isr, work>>
        /\ pc' \in Pcs /\ hooked' \in BOOLEAN
    BY <2>1 DEF HookStep
  <2> QED
    BY <2>3, <2>4 DEF Allocated
<1>7. CASE UNCHANGED vars
  BY <1>7 DEF vars, Allocated
<1> QED
  BY <1>1, <1>2, <1>3, <1>4, <1>5, <1>6, <1>7, Steps

-----------------------------------------------------------------------------
(* Owners                                                                   *)

LEMMA WorkStep == TypeInv /\ WorkInv /\ [Next]_vars => WorkInv'
<1> SUFFICES ASSUME TypeInv, WorkInv, [Next]_vars PROVE WorkInv'
  OBVIOUS
<1> USE DEF WorkInv, TypeInv, memory, board
<1>1. CASE ObjectSteps
  <2> USE DEF Idle, Alive, Begin, Allocated, With, NoWork
  <2>1. PICK o \in Objects :
          \/ Destroy(o) \/ Close(o)
          \/ \E p \in Privates : Construct(o, p)
          \/ \E other \in Objects :
               \/ Swap(o, other)
               \/ \E p \in Privates : Copy(o, other, p) \/ Assign(o, other, p)
    BY <1>1 DEF ObjectSteps
  <2>2. CASE Destroy(o) \/ Close(o)
    BY <2>2 DEF Destroy, Close
  <2>3. CASE \E other \in Objects : Swap(o, other)
    BY <2>3 DEF Swap
  <2>4. CASE \E p \in Privates : Construct(o, p) \/ \E other \in Objects : Copy(o, other, p)
    BY <2>4 DEF Construct, Copy
  <2>5. CASE \E other \in Objects, p \in Privates : Assign(o, other, p)
    BY <2>5 DEF Assign
  <2> QED
    BY <2>1, <2>2, <2>3, <2>4, <2>5
<1>2. CASE CallSteps
  BY <1>2
  DEF CallSteps, HangUp, Detach, Join, Closed, Attach, Opened, Done, Allocated, NoWork
<1>3. CASE IsrSteps
  BY <1>3 DEF IsrSteps, RingDispatch, RingReturn, Allocated
<1>4. CASE OpenSteps
  BY <1>4, LinesAssumption DEF OpenSteps, Open, Idle, Alive, Begin, Allocated
<1>5. CASE PulseSteps
  BY <1>5 DEF PulseSteps, EndPulse, WriteLed, Allocated
<1>6. CASE HookSteps
  BY <1>6 DEF HookSteps, HookStep, Allocated
<1>7. CASE UNCHANGED vars
  BY <1>7 DEF vars, Allocated
<1> QED
  BY <1>1, <1>2, <1>3, <1>4, <1>5, <1>6, <1>7, Steps

LEMMA OwnerStep == TypeInv /\ WorkInv /\ OwnerInv /\ [Next]_vars => OwnerInv'
<1> SUFFICES ASSUME TypeInv, WorkInv, OwnerInv, [Next]_vars PROVE OwnerInv'
  OBVIOUS
<1> USE DEF memory, board
<1>1. CASE ObjectSteps
  <2> USE DEF Idle, Alive, Begin
  <2>1. PICK o \in Objects :
          \/ Destroy(o) \/ Close(o)
          \/ \E p \in Privates : Construct(o, p)
          \/ \E other \in Objects :
               \/ Swap(o, other)
               \/ \E p \in Privates : Copy(o, other, p) \/ Assign(o, other, p)
    BY <1>1 DEF ObjectSteps
  <2>2. work = NoWork /\ NoWork.op = "none"
    BY <2>1 DEF Destroy, Close, Construct, Swap, Copy, Assign, WorkInv, NoWork
  <2>3. /\ \A x \in Objects : d[x] = None \/ d[x] \in Allocated
        /\ \A q \in Allocated : q # None /\ \E x \in Objects : d[x] = q
    BY <2>2, LinesAssumption DEF TypeInv, OwnerInv
  <2>4. CASE Destroy(o)
    <3>1. /\ work' = [op |-> "free", on |-> d[o]] /\ d[o] # None /\ UNCHANGED heap
          /\ \A x \in Objects : d'[x] = IF x = o THEN None ELSE d[x]
      BY <2>4 DEF Destroy, TypeInv
    <3> QED
      BY <2>3, <3>1 DEF OwnerInv, Allocated
  <2>5. CASE Close(o)
    BY <2>2, <2>5 DEF Close, OwnerInv, Allocated
  <2>6. CASE \E p \in Privates : \/ Construct(o, p)
                                 \/ \E other \in Objects : Copy(o, other, p)
    <3>1. PICK p \in Privates : \/ Construct(o, p)
                                \/ \E other \in Objects : Copy(o, other, p)
      BY <2>6
    <3>2. /\ UNCHANGED work /\ d[o] = None /\ p \notin Allocated /\ p # None
          /\ \A x \in Objects : d'[x] = IF x = o THEN p ELSE d[x]
          /\ Allocated' = Allocated \cup {p}
      BY <3>1, LinesAssumption DEF Construct, Copy, TypeInv, With, Allocated
    <3> QED
      BY <2>2, <2>3, <3>2 DEF OwnerInv
  <2>7. CASE \E other \in Objects : Swap(o, other)
    <3>1. PICK other \in Objects : Swap(o, other)
      BY <2>7
    <3>2. \A x \in Objects :
            d'[x] = IF x = other THEN d[o] ELSE IF x = o THEN d[other] ELSE d[x]
      BY <3>1, Swapped DEF Swap
    <3>3. UNCHANGED <<heap, work>>
      BY <3>1 DEF Swap
    <3> QED
      BY <2>2, <2>3, <3>2, <3>3 DEF OwnerInv, Allocated
  <2>8. CASE \E other \in Objects, p \in Privates : Assign(o, other, p)
    <3>1. PICK other \in Objects, p \in Privates : Assign(o, other, p)
      BY <2>8
    <3>2. /\ work' = [op |-> "free", on |-> d[o]] /\ d[o] # None
          /\ p \notin Allocated /\ p # None
          /\ \A x \in Objects : d'[x] = IF x = o THEN p ELSE d[x]
          /\ Allocated' = Allocated \cup {p}
      BY <3>1, LinesAssumption DEF Assign, TypeInv, With, Allocated
    <3> QED
      BY <2>3, <3>2 DEF OwnerInv
  <2> QED
    BY <2>1, <2>4, <2>5, <2>6, <2>7, <2>8
<1>2. CASE CallSteps
  <2>1. CASE (HangUp /\ ~HasHook) \/ Detach \/ Attach
    BY <2>1 DEF HangUp, Detach, Attach, OwnerInv, Alive, Allocated
  <2>2. CASE Join \/ Opened
    <3>1. /\ d' = d /\ Allocated' = Allocated
          /\ work' = work \/ (work.op = "open" /\ work' = NoWork)
      <4>1. CASE Join
        BY <4>1 DEF Join, Allocated
      <4>2. CASE Opened
        BY <4>2 DEF Opened, Done, WorkInv, Allocated
      <4> QED
        BY <2>2, <4>1, <4>2
    <3> QED
      BY <3>1 DEF OwnerInv, Alive, NoWork
  <2>3. CASE Closed
    <3>1. /\ UNCHANGED d /\ work' = NoWork
          /\ Allocated' = IF work.op = "free" THEN Allocated \ {work.on} ELSE Allocated
      BY <2>3 DEF Closed, Done, Freed, Without, Allocated
    <3> QED
      BY <3>1 DEF OwnerInv, Alive, NoWork
  <2> QED
    BY <1>2, <2>1, <2>2, <2>3 DEF CallSteps
<1>3. CASE OpenSteps
  BY <1>3 DEF OpenSteps, Open, Idle, Begin, OwnerInv, Alive, Allocated, WorkInv, NoWork
<1>4. CASE IsrSteps \/ PulseSteps \/ HookSteps \/ UNCHANGED vars
  <2>1. UNCHANGED <<d, heap, work>>
    BY <1>4 DEF IsrSteps, RingDispatch, RingReturn, PulseSteps, EndPulse, WriteLed, HookSteps,
                HookStep, vars
  <2> QED
    BY <2>1 DEF OwnerInv, Alive, Allocated
<1> QED
  BY <1>1, <1>2, <1>3, <1>4, Steps

-----------------------------------------------------------------------------
(* Interrupts                                                               *)

LEMMA IsrStep == TypeInv /\ WorkInv /\ IsrInv /\ [Next]_vars => IsrInv'
<1> SUFFICES ASSUME TypeInv, WorkInv, IsrInv, [Next]_vars PROVE IsrInv'
  OBVIOUS
<1> USE DEF memory, board
<1>1. CASE ObjectSteps \/ OpenSteps
  <2>1. /\ pc = "idle" /\ pc' # "join" /\ UNCHANGED <<attached, isr>>
        /\ \/ heap' = heap
           \/ \E p \in Privates \ Allocated : \E fresh : heap' = With(p, fresh)
    BY <1>1 DEF ObjectSteps, OpenSteps, Open, Destroy, Close, Construct, Swap, Copy, Assign, Idle,
                Begin
  <2>2. \A q \in Allocated : q \in Allocated' /\ heap'[q] = heap[q]
    BY <2>1 DEF With, Allocated
  <2>3. work = NoWork /\ NoWork.op = "none"
    BY <2>1 DEF WorkInv, NoWork
  <2> QED
    BY <2>1, <2>2, <2>3 DEF IsrInv
<1>2. CASE CallSteps
  <2>1. CASE (HangUp /\ ~HasHook) \/ Detach
    BY <2>1 DEF HangUp, Detach, IsrInv, Allocated
  <2>2. CASE Join
    BY <2>2 DEF Join, IsrInv
  <2>3. CASE Closed
    <3>1. /\ UNCHANGED <<attached, isr>> /\ pc' = "idle" /\ ~heap[work.on].isOpen
          /\ work.op # "open"
      BY <2>3 DEF Closed, Done, NeedsClosing, WorkInv
    <3>2. \A q \in Allocated \ {work.on} : q \in Allocated' /\ heap'[q] = heap[q]
      BY <2>3 DEF Closed, Freed, Without, Allocated
    <3> QED
      BY <3>1, <3>2 DEF IsrInv
  <2>4. CASE Attach
    <3>1. /\ UNCHANGED <<heap, isr, work>> /\ pc' = "opened"
          /\ attached' = attached \/ attached' = work.on
          /\ work.op = "open" /\ work.on \in Allocated
      BY <2>4 DEF Attach, WorkInv
    <3>2. work = [op |-> "open", on |-> work.on]
      BY <3>1 DEF TypeInv
    <3> QED
      BY <3>1, <3>2 DEF IsrInv, Allocated
  <2>5. CASE Opened
    <3>1. /\ UNCHANGED <<attached, isr>> /\ pc' = "idle"
          /\ heap' = [heap EXCEPT ![work.on].isOpen = TRUE]
          /\ work.on \in Allocated /\ heap[work.on] \in PrivateRecord
      BY <2>5 DEF Opened, Done, WorkInv, TypeInv
    <3>2. heap'[work.on].isOpen
      BY <3>1, PrivateFields DEF Allocated
    <3>3. /\ Allocated' = Allocated
          /\ \A q \in Allocated \ {work.on} : heap'[q] = heap[q]
      BY <3>1 DEF Allocated
    <3> QED
      BY <3>1, <3>2, <3>3 DEF IsrInv
  <2> QED
    BY <1>2, <2>1, <2>2, <2>3, <2>4, <2>5 DEF CallSteps
<1>3. CASE IsrSteps
  BY <1>3 DEF IsrSteps, RingDispatch, RingReturn, IsrInv, Allocated
<1>4. CASE PulseSteps \/ HookSteps \/ UNCHANGED vars
  <2>1. UNCHANGED <<heap, attached, isr, work>> /\ (pc' = "join" => pc = "join")
    BY <1>4 DEF PulseSteps, EndPulse, WriteLed, HookSteps, HookStep, vars
  <2> QED
    BY <2>1 DEF IsrInv, Allocated
<1> QED
  BY <1>1, <1>2, <1>3, <1>4, Steps

-----------------------------------------------------------------------------
(* The hook of the board                                                    *)

(* What a call of offhook() does to the calls and the coils. *)
LEMMA OffhookMoves ==
  ASSUME TypeInv, NEW t \in Threads, NEW p, NEW on \in BOOLEAN, Offhook(t, p, on)
  PROVE  /\ told' = FALSE
         /\ \/ UNCHANGED <<call, coils, relay>>
            \/ /\ coils' = coils \cup {Coil(on)}
               /\ coils = {} => relay' = on
               /\ call'[t].at = "pulse" /\ call'[t].on = on
               /\ call'[t].alone = (\A u \in Threads : ~Busy(u))
               /\ \A u \in Threads \ {t} :
                    /\ call'[u].at = call[u].at /\ call'[u].on = call[u].on
                    /\ ~call'[u].alone
<1>1. CASE heap[p].latching
  <2> DEFINE alone == \A u \in Threads : ~Busy(u)
  <2>1. /\ told' = FALSE /\ Drive(coils \cup {Coil(on)})
        /\ call' = [u \in Threads |->
                      IF u = t THEN [at |-> "pulse", on |-> on, alone |-> alone]
                               ELSE [call[u] EXCEPT !.alone = FALSE]]
    BY <1>1 DEF Offhook
  <2>2. \A u \in Threads : call[u] \in HookCall
    BY DEF TypeInv
  <2>3. coils' = coils \cup {Coil(on)} /\ (coils = {} => relay' = on)
    BY <2>1 DEF Drive, Position, Coil
  <2> HIDE DEF alone
  <2>4. call'[t].at = "pulse" /\ call'[t].on = on /\ call'[t].alone = alone
    BY <2>1
  <2>5. \A u \in Threads \ {t} :
          /\ call'[u].at = call[u].at /\ call'[u].on = call[u].on
          /\ ~call'[u].alone
    BY <2>1, <2>2, CallFields
  <2> QED
    BY <2>1, <2>3, <2>4, <2>5 DEF alone
<1>2. CASE ~heap[p].latching
  BY <1>2 DEF Offhook
<1> QED
  BY <1>1, <1>2

(* Only the pulse that ends and the LED that is written move a call on.    *)
LEMMA PulseMoves ==
  ASSUME TypeInv, NEW t \in Threads, EndPulse(t) \/ WriteLed(t)
  PROVE  /\ Busy(t) /\ \A u \in Threads \ {t} : call'[u] = call[u]
         /\ EndPulse(t) => /\ call[t].at = "pulse" /\ call'[t].at = "led"
                           /\ call'[t].on = call[t].on /\ call'[t].alone = call[t].alone
         /\ WriteLed(t) => /\ call[t].at = "led" /\ call'[t].at = "none"
                           /\ ~call'[t].alone
<1>1. \A u \in Threads : call[u] \in HookCall
  BY DEF TypeInv
<1>2. CASE EndPulse(t)
  <2>1. /\ call[t].at = "pulse"
        /\ call' = [call EXCEPT ![t] = [call[t] EXCEPT !.at = "led"]]
    BY <1>2 DEF EndPulse
  <2> QED
    BY <1>1, <1>2, <2>1, CallFields DEF Busy, WriteLed, TypeInv
<1>3. CASE WriteLed(t)
  <2>1. call[t].at = "led" /\ call' = [call EXCEPT ![t] = NoCall]
    BY <1>3 DEF WriteLed
  <2> QED
    BY <1>3, <2>1 DEF Busy, EndPulse, TypeInv, NoCall
<1> QED
  BY <1>2, <1>3

(* open() leaves every call where it is, and none of them alone on the     *)
(* board if a current is cut.                                              *)
LEMMA OpenMoves ==
  ASSUME TypeInv, OpenSteps
  PROVE  /\ led' = led /\ told' = told
         /\ \/ call' = call /\ coils' = coils /\ relay' = relay
            \/ /\ coils # {} /\ coils' = {}
               /\ \A u \in Threads : call'[u].at = call[u].at /\ ~call'[u].alone
<1>1. \A u \in Threads : call[u] \in HookCall
  BY DEF TypeInv
<1>2. /\ led' = led /\ told' = told
      /\ \/ call' = call /\ coils' = coils /\ relay' = relay
         \/ /\ coils # {} /\ coils' = {}
            /\ call' = [u \in Threads |-> [call[u] EXCEPT !.alone = FALSE]]
  <2>1. PICK o \in Objects : Open(o)
    BY DEF OpenSteps
  <2>2. led' = led /\ told' = told
    BY <2>1 DEF Open
  <2>3. CASE heap[d[o]].latching /\ coils # {}
    BY <2>1, <2>2, <2>3 DEF Open
  <2>4. CASE ~(heap[d[o]].latching /\ coils # {})
    BY <2>1, <2>2, <2>4 DEF Open
  <2> QED
    BY <2>3, <2>4
<1>3. CASE call' = [u \in Threads |-> [call[u] EXCEPT !.alone = FALSE]]
  <2>1. ASSUME NEW u \in Threads PROVE call'[u].at = call[u].at /\ ~call'[u].alone
    <3>1. call'[u] = [call[u] EXCEPT !.alone = FALSE]
      BY <1>3
    <3> QED
      BY <1>1, <3>1, CallFields
  <2> QED
    BY <1>2, <2>1
<1> QED
  BY <1>2, <1>3

LEMMA BusyStep == TypeInv /\ BusyInv /\ [Next]_vars /\ WorkInv => BusyInv'
<1> SUFFICES ASSUME TypeInv, BusyInv, [Next]_vars, WorkInv PROVE BusyInv'
  OBVIOUS
<1>1. "client" \in Threads /\ "ring" \in Threads
  BY DEF Threads
<1>2. CASE ObjectSteps
  <2>1. UNCHANGED <<call, isr, hooked>> /\ ~Busy("client")
    BY <1>2 DEF ObjectSteps, Destroy, Close, Construct, Swap, Copy, Assign, Idle, board
  <2> QED
    BY <2>1 DEF BusyInv, Busy
<1>3. CASE CallSteps
  <2>1. UNCHANGED <<call, isr, hooked>>
    BY <1>3 DEF CallSteps, HangUp, Detach, Join, Closed, Attach, Opened, board
  <2>2. ~Busy("client")
    BY <1>3 DEF CallSteps, HangUp, Detach, Join, Closed, Attach, Opened, BusyInv
  <2> QED
    BY <2>1, <2>2 DEF BusyInv, Busy
<1>4. CASE IsrSteps
  BY <1>4 DEF IsrSteps, RingDispatch, RingReturn, BusyInv, Busy, board
<1>5. CASE OpenSteps
  <2>1. ~Busy("client") /\ UNCHANGED <<isr, hooked>>
    BY <1>5 DEF OpenSteps, Open, Idle
  <2>2. \A u \in Threads : Busy(u)' <=> Busy(u)
    BY <1>5, OpenMoves DEF Busy
  <2> QED
    BY <1>1, <2>1, <2>2 DEF BusyInv
<1>6. CASE PulseSteps
  <2>1. PICK t \in Threads : EndPulse(t) \/ WriteLed(t)
    BY <1>6 DEF PulseSteps
  <2>2. UNCHANGED <<pc, isr, hooked>>
    BY <2>1 DEF EndPulse, WriteLed
  <2>3. \A u \in Threads : Busy(u)' => Busy(u)
    BY <2>1, PulseMoves DEF Busy
  <2> QED
    BY <1>1, <2>2, <2>3 DEF BusyInv
<1>7. CASE HookSteps
  <2>1. PICK t \in Threads, p \in Privates \cup {None}, on \in BOOLEAN : HookStep(t, p, on)
    BY <1>7 DEF HookSteps
  <2>2. \A u \in Threads \ {t} : Busy(u)' <=> Busy(u)
    BY <2>1, OffhookMoves DEF HookStep, Busy
  <2>3. CASE t = "client"
    BY <1>1, <2>1, <2>2, <2>3 DEF HookStep, BusyInv
  <2>4. CASE t = "ring"
    BY <1>1, <2>1, <2>2, <2>4 DEF HookStep, BusyInv
  <2> QED
    BY <2>3, <2>4 DEF Threads
<1>8. CASE UNCHANGED vars
  BY <1>8 DEF vars, board, BusyInv, Busy
<1> QED
  BY <1>2, <1>3, <1>4, <1>5, <1>6, <1>7, <1>8, Steps

LEMMA HookInvStep == TypeInv /\ WorkInv /\ BusyInv /\ HookInv /\ [Next]_vars => HookInv'
<1> SUFFICES ASSUME TypeInv, WorkInv, BusyInv, HookInv, [Next]_vars PROVE HookInv'
  OBVIOUS
<1>1. CASE ObjectSteps \/ CallSteps \/ IsrSteps \/ UNCHANGED vars
  <2>1. UNCHANGED <<call, coils, relay, led, told>>
    BY <1>1
    DEF ObjectSteps, Destroy, Close, Construct, Swap, Copy, Assign, CallSteps, HangUp, Detach, Join,
        Closed, Attach, Opened, IsrSteps, RingDispatch, RingReturn, vars, board
  <2> QED
    BY <2>1 DEF HookInv, CoilsRest, AloneInv, ToldInv, Busy, Coil
<1>2. CASE OpenSteps
  <2>1. CASE UNCHANGED <<call, coils, relay, led, told>>
    BY <2>1 DEF HookInv, CoilsRest, AloneInv, ToldInv, Busy, Coil
  <2>2. CASE /\ coils # {} /\ coils' = {} /\ UNCHANGED told
             /\ \A u \in Threads : call'[u].at = call[u].at /\ ~call'[u].alone
    <3>1. ~told
      BY <2>2 DEF HookInv, CoilsRest, ToldInv, Busy
    <3> QED
      BY <2>2, <3>1 DEF HookInv, CoilsRest, AloneInv, ToldInv
  <2> QED
    BY <1>2, <2>1, <2>2, OpenMoves
<1>3. CASE PulseSteps
  <2>1. PICK t \in Threads : EndPulse(t) \/ WriteLed(t)
    BY <1>3 DEF PulseSteps
  <2>2. CASE EndPulse(t)
    <3>1. /\ coils' = coils \ {Coil(call[t].on)} /\ (coils' = {} => relay' = relay)
          /\ led' = led /\ told' = told
      <4>1. Drive(coils \ {Coil(call[t].on)}) /\ led' = led /\ told' = told
        BY <2>2 DEF EndPulse, SwitchedOff
      <4> QED
        BY <4>1 DEF Drive, Position
    <3>2. /\ call[t].at = "pulse" /\ call'[t].at = "led" /\ Busy(t)
          /\ call'[t].on = call[t].on /\ call'[t].alone = call[t].alone
          /\ \A u \in Threads \ {t} : call'[u] = call[u]
      BY <2>2, PulseMoves
    <3>3. CoilsRest'
      BY <3>1, <3>2 DEF HookInv, CoilsRest, Coil
    <3>4. AloneInv'
      BY <3>1, <3>2 DEF HookInv, AloneInv, Busy, Coil
    <3>5. ToldInv'
      BY <3>1, <3>2 DEF HookInv, ToldInv
    <3> QED
      BY <3>3, <3>4, <3>5 DEF HookInv
  <2>3. CASE WriteLed(t)
    <3>1. led' = call[t].on /\ told' = call[t].alone /\ UNCHANGED <<coils, relay>>
      BY <2>3 DEF WriteLed
    <3>2. /\ call[t].at = "led" /\ call'[t].at = "none" /\ ~call'[t].alone
          /\ \A u \in Threads \ {t} : call'[u] = call[u]
      BY <2>3, PulseMoves
    <3>3. CoilsRest'
      BY <3>1, <3>2 DEF HookInv, CoilsRest, Coil
    <3>4. AloneInv'
      BY <3>1, <3>2 DEF HookInv, AloneInv, Busy, Coil
    <3>5. ToldInv'
      BY <3>1, <3>2 DEF HookInv, AloneInv, ToldInv, Busy
    <3> QED
      BY <3>3, <3>4, <3>5 DEF HookInv
  <2> QED
    BY <2>1, <2>2, <2>3
<1>4. CASE HookSteps
  <2>1. PICK t \in Threads, p \in Privates \cup {None}, on \in BOOLEAN : HookStep(t, p, on)
    BY <1>4 DEF HookSteps
  <2>2. told' = FALSE
    BY <2>1, OffhookMoves DEF HookStep
  <2>3. CASE UNCHANGED <<call, coils, relay>>
    BY <2>2, <2>3 DEF HookInv, CoilsRest, AloneInv, ToldInv, Busy, Coil
  <2>4. CASE /\ coils' = coils \cup {Coil(on)}
             /\ coils = {} => relay' = on
             /\ call'[t].at = "pulse" /\ call'[t].on = on
             /\ call'[t].alone = (\A u \in Threads : ~Busy(u))
             /\ \A u \in Threads \ {t} :
                  /\ call'[u].at = call[u].at /\ call'[u].on = call[u].on
                  /\ ~call'[u].alone
    <3>1. ~Busy(t)
      BY <2>1 DEF HookStep, BusyInv, Threads
    <3>2. CoilsRest'
      BY <2>4, <3>1 DEF HookInv, CoilsRest, Coil, Busy
    <3>3. (\A u \in Threads : ~Busy(u)) => coils = {}
      BY DEF HookInv, CoilsRest, Busy
    <3>4. AloneInv'
      BY <2>4, <3>3 DEF AloneInv, Busy, Coil
    <3> QED
      BY <2>2, <3>2, <3>4 DEF HookInv, ToldInv
  <2> QED
    BY <2>1, <2>3, <2>4, OffhookMoves DEF HookStep
<1> QED
  BY <1>1, <1>2, <1>3, <1>4, Steps

-----------------------------------------------------------------------------
LEMMA Inductive == Spec => [](TypeInv /\ IInv)
<1> DEFINE All == TypeInv /\ IInv
<1>1. Init => All
  <2> SUFFICES ASSUME Init PROVE All
    OBVIOUS
  <2>1. TypeInv
    <3>1. DOMAIN heap = {} /\ heap = [p \in DOMAIN heap |-> heap[p]]
      BY DEF Init
    <3>2. /\ DOMAIN d = Objects /\ d = [o \in Objects |-> d[o]]
          /\ \A o \in Objects : d[o] = None
      BY DEF Init
    <3>3. call \in [Threads -> HookCall]
      BY DEF Init, NoCall, HookCall
    <3>4. /\ class \in Classes /\ pc \in Pcs
          /\ work \in [op : {"none", "open", "close", "free"}, on : Privates \cup {None}]
          /\ attached = None /\ isr = None /\ coils = {}
          /\ hooked \in BOOLEAN /\ relay \in BOOLEAN /\ led \in BOOLEAN /\ told \in BOOLEAN
      BY DEF Init, Pcs, NoWork
    <3> QED
      BY <3>1, <3>2, <3>3, <3>4 DEF TypeInv, Allocated
  <2>2. WorkInv /\ OwnerInv /\ IsrInv /\ BusyInv
    BY DEF Init, WorkInv, OwnerInv, IsrInv, BusyInv, Alive, Allocated, NoWork, NoCall, Busy, Threads
  <2>3. HookInv
    BY DEF Init, HookInv, CoilsRest, AloneInv, ToldInv, NoCall
  <2> QED
    BY <2>1, <2>2, <2>3 DEF IInv
<1>2. All /\ [Next]_vars => All'
  BY TypeStep, WorkStep, OwnerStep, IsrStep, BusyStep, HookInvStep DEF IInv
<1> QED
  BY <1>1, <1>2, PTL DEF Spec

(* Every variable keeps its type: an object points to a Private that has   *)
(* been allocated and not freed, or to none, whatever its class.           *)
THEOREM LinesTypes == Spec => []TypeOK
<1>1. TypeInv => TypeOK
  <2> SUFFICES ASSUME TypeInv PROVE TypeOK
    OBVIOUS
  <2>1. d \in [Objects -> Allocated \cup {None}]
    BY DEF TypeInv
  <2>2. heap \in [Allocated -> PrivateRecord]
    BY DEF TypeInv
  <2> QED
    BY <2>1, <2>2 DEF TypeInv, TypeOK, Pcs
<1> QED
  BY <1>1, Inductive, PTL

(* The Private an interrupt carries has not been freed, and its object is  *)
(* open or being opened, for any number of objects that are copied,        *)
(* assigned, swapped or destroyed while an ISR runs.                       *)
THEOREM IsrSafe == Spec => []IsrDataAlive
<1>1. IsrInv => IsrDataAlive
  BY DEF IsrInv, IsrDataAlive
<1> QED
  BY <1>1, Inductive, PTL DEF IInv

(* Between two operations of the client every Private has exactly one      *)
(* owner: none has leaked and none will be freed twice.                    *)
THEOREM OneOwner == Spec => []OwnedOnce
<1>1. TypeInv /\ WorkInv /\ OwnerInv => OwnedOnce
  <2> SUFFICES ASSUME TypeInv, WorkInv, OwnerInv, Idle
               PROVE  /\ {d[o] : o \in {o \in Objects : Alive(o)}} = Allocated
                      /\ \A o, other \in Objects : Alive(o) /\ d[o] = d[other] => o = other
    BY DEF OwnedOnce
  <2>1. work.op = "none"
    BY DEF Idle, WorkInv, NoWork
  <2>2. \A p \in Allocated : p # None /\ \E o \in Objects : d[o] = p
    BY <2>1, LinesAssumption DEF OwnerInv, TypeInv
  <2>3. \A o \in Objects : Alive(o) => d[o] \in Allocated
    BY DEF TypeInv, Alive
  <2>4. {d[o] : o \in {o \in Objects : Alive(o)}} = Allocated
    BY <2>2, <2>3 DEF Alive
  <2> QED
    BY <2>4 DEF OwnerInv
<1> QED
  BY <1>1, Inductive, PTL DEF IInv

(* A coil of the relay is under current only during a pulse meant for it,  *)
(* however the calls of client and ISR, and open(), meet.                  *)
THEOREM CoilsAtRest == Spec => []CoilsRest
<1>1. HookInv => CoilsRest
  BY DEF HookInv
<1> QED
  BY <1>1, Inductive, PTL DEF IInv

(* What isOffhook() reads from the LED is where the relay is, as long as   *)
(* the last hook call met no other and no copy has moved the LED.          *)
THEOREM LedTold == Spec => []LedTellsRelay
<1>1. HookInv => LedTellsRelay
  BY DEF HookInv, ToldInv, LedTellsRelay
<1> QED
  BY <1>1, Inductive, PTL DEF IInv

=============================================================================
