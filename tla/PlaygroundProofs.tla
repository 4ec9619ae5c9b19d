-------------------------- MODULE PlaygroundProofs --------------------------
(***************************************************************************)
(* First the promises of the render worker client by itself, for any       *)
(* number of renders and validations: each is kept by exactly one party    *)
(* until it is settled, and a call that succeeds gets the output of its    *)
(* own input.  A sequence number belongs to one call for good, so a        *)
(* message, a slot and an answer that carry it speak of that call; and     *)
(* every step that takes a call from one owner gives it to another, or     *)
(* settles it.                                                             *)
(*                                                                         *)
(* Then the page, which is a render client and a live update controller at *)
(* once: what is proved of either holds of it, for any number of edits,    *)
(* renders and validations.  The controller is proved right by itself too, *)
(* for renders that end in any order.                                      *)
(***************************************************************************)
EXTENDS Playground, SequenceTheorems, TLAPS

\* Numbers say whose slot, message or answer it is.
SlotsNamed == \A s \in pending : s \in Slots /\ s.seq = s.call /\ s.call \in Calls
SlotsUnique == \A s, t \in pending : s.call = t.call => s = t

Own(S) == {m \in S : m.seq = m.of}

MessagesNamed ==
    /\ toWorker \in Seq(Own(Messages))
    /\ jobs \subseteq Own(Messages)
    /\ toPage \in Seq(Own(Responses))

HasSlot(c) == \E s \in pending : s.call = c

\* A call has at most one owner, and one only if it is made and not settled.
Kept(c) ==
    /\ ~(HasSlot(c) /\ c \in onPage)
    /\ ~(HasSlot(c) /\ c \in rejecting)
    /\ ~(c \in onPage /\ c \in rejecting)
    /\ (c \in called /\ settled[c] = None)
          <=> (HasSlot(c) \/ c \in onPage \/ c \in rejecting)
    /\ c \notin called => settled[c] = None

SettledOwn(c) == settled[c] = None \/ (settled[c] \in Outcomes /\ (settled[c].ok => settled[c].of = c))

\* The part of the invariant that says where each call is.
CallsKept ==
    /\ settled \in [Calls -> Outcomes \cup {None}]
    /\ onPage \subseteq Calls
    /\ rejecting \subseteq Calls
    /\ called \subseteq Calls
    /\ \A c \in Calls : Kept(c) /\ SettledOwn(c)

IInv == SlotsNamed /\ SlotsUnique /\ MessagesNamed /\ CallsKept
-----------------------------------------------------------------------------
(* Messages.                                                               *)

\* Appending to and taking from a queue of named messages (postMessage, onmessage).
LEMMA QueueFacts ==
  ASSUME NEW S, NEW q \in Seq(S)
  PROVE  /\ \A m \in S : Append(q, m) \in Seq(S)
         /\ q # <<>> => Head(q) \in S /\ Tail(q) \in Seq(S)
  BY HeadTailProperties, AppendProperties

\* A message carries the number of the call it is for (renderWithBrowserTextMetrics).
LEMMA MessageOwn ==
  ASSUME NEW c \in Calls, NEW kind \in Kinds
  PROVE  Message(c, kind) \in Own(Messages)
  BY RenderClientAssumption DEF Message, Messages, Own, SeqOf, Calls

\* An outcome is not the absence of one.
LEMMA OutcomeFacts ==
  ASSUME NEW ok \in BOOLEAN, NEW c \in Calls
  PROVE  /\ [ok |-> ok, of |-> c] \in Outcomes
         /\ [ok |-> ok, of |-> c] # None
         /\ Failure(c) \in Outcomes /\ Failure(c) # None
  <1>1. [ok |-> ok, of |-> c] \in Outcomes
    BY DEF Outcomes
  <1>2. Failure(c) \in Outcomes
    BY DEF Outcomes, Failure
  <1>3. None \notin Outcomes
    BY RenderClientAssumption
  <1> QED BY <1>1, <1>2, <1>3

\* Settling a promise changes that call only, and gives it its own output.
LEMMA SettleFacts ==
  ASSUME CallsKept, NEW c \in Calls, NEW out \in Outcomes, out.ok => out.of = c,
         Settle(c, out)
  PROVE  /\ settled' \in [Calls -> Outcomes \cup {None}]
         /\ \A d \in Calls : d # c => settled'[d] = settled[d]
         /\ settled'[c] # None
         /\ \A d \in Calls : SettledOwn(d)'
  <1>1. settled \in [Calls -> Outcomes \cup {None}]
    BY DEF CallsKept
  <1>2. settled' = [settled EXCEPT ![c] = IF settled[c] = None THEN out ELSE settled[c]]
    BY DEF Settle
  <1>3. None \notin Outcomes
    BY RenderClientAssumption
  <1>4. /\ settled' \in [Calls -> Outcomes \cup {None}]
        /\ \A d \in Calls : d # c => settled'[d] = settled[d]
        /\ settled'[c] = IF settled[c] = None THEN out ELSE settled[c]
    BY <1>1, <1>2
  <1>5. settled'[c] # None
    BY <1>3, <1>4
  <1>6. ASSUME NEW d \in Calls PROVE SettledOwn(d)'
    <2>1. SettledOwn(d)
      BY DEF CallsKept
    <2>2. CASE d # c
      BY <1>4, <2>1, <2>2 DEF SettledOwn
    <2>3. CASE d = c /\ settled[c] # None
      BY <1>4, <2>1, <2>3 DEF SettledOwn
    <2>4. CASE d = c /\ settled[c] = None
      BY <1>4, <2>4 DEF SettledOwn
    <2> QED BY <2>2, <2>3, <2>4
  <1> QED BY <1>4, <1>5, <1>6
-----------------------------------------------------------------------------
(* Slots.                                                                  *)

\* Taking a slot out leaves the slots of the other calls.
LEMMA FreeFacts ==
  ASSUME IInv, NEW s \in pending, pending' = FreeSlot(s)
  PROVE  /\ SlotsNamed' /\ SlotsUnique'
         /\ ~HasSlot(s.call)'
         /\ \A d : d # s.call => (HasSlot(d)' <=> HasSlot(d))
  BY DEF IInv, SlotsNamed, SlotsUnique, HasSlot, FreeSlot

\* Setting a slot, which replaces the slot with the same number if there is one.
LEMMA SetFacts ==
  ASSUME IInv, NEW c \in Calls, NEW kind \in Kinds, NEW slots \in SUBSET pending,
         \A s \in pending : s \notin slots => s.call = c,
         pending' = {s \in slots : s.seq # SeqOf(c)} \cup {Slot(c, kind)}
  PROVE  /\ SlotsNamed' /\ SlotsUnique'
         /\ HasSlot(c)'
         /\ \A d : d # c => (HasSlot(d)' <=> HasSlot(d))
  <1>1. Slot(c, kind) \in Slots /\ Slot(c, kind).seq = c /\ Slot(c, kind).call = c
    BY RenderClientAssumption DEF Slot, Slots, SeqOf, Calls
  <1>2. pending' = {s \in slots : s.call # c} \cup {Slot(c, kind)}
    BY DEF IInv, SlotsNamed, SeqOf
  <1> HIDE DEF Slot
  <1> QED BY <1>1, <1>2 DEF IInv, SlotsNamed, SlotsUnique, HasSlot

\* Deleting the slot of a call whose message could not be posted.
LEMMA DeleteFacts ==
  ASSUME IInv, NEW c \in Calls, NEW slots \in SUBSET pending,
         \A s \in pending : s \notin slots => s.call = c,
         pending' = {s \in slots : s.seq # SeqOf(c)}
  PROVE  /\ SlotsNamed' /\ SlotsUnique'
         /\ ~HasSlot(c)'
         /\ \A d : d # c => (HasSlot(d)' <=> HasSlot(d))
  <1>1. pending' = {s \in slots : s.call # c}
    BY DEF IInv, SlotsNamed, SeqOf
  <1> QED BY <1>1 DEF IInv, SlotsNamed, SlotsUnique, HasSlot
-----------------------------------------------------------------------------
(* The steps that move one call and leave the others where they are.       *)

\* Where a call other than c is does not change.
Elsewhere(c) ==
    \A d \in Calls : d # c =>
        /\ HasSlot(d)' <=> HasSlot(d)
        /\ d \in onPage' <=> d \in onPage
        /\ d \in rejecting' <=> d \in rejecting
        /\ d \in called' <=> d \in called
        /\ settled'[d] = settled[d]

LEMMA OthersKept ==
  ASSUME CallsKept, NEW c \in Calls, Elsewhere(c),
         settled' \in [Calls -> Outcomes \cup {None}],
         onPage' \subseteq Calls, rejecting' \subseteq Calls, called' \subseteq Calls,
         Kept(c)', \A d \in Calls : SettledOwn(d)'
  PROVE  CallsKept'
  <1>1. ASSUME NEW d \in Calls, d # c PROVE Kept(d)'
    <2>1. Kept(d)
      BY DEF CallsKept
    <2> QED BY <1>1, <2>1 DEF Kept, Elsewhere
  <1> QED BY <1>1 DEF CallsKept

\* Settled outcomes do not change when nothing is settled.
LEMMA SettledSame ==
  ASSUME CallsKept, settled' = settled
  PROVE  /\ settled' \in [Calls -> Outcomes \cup {None}]
         /\ \A d \in Calls : SettledOwn(d)'
  BY DEF CallsKept, SettledOwn

\* postMessage for a call that has no owner but perhaps the slot it replaces.
LEMMA PostKeeps ==
  ASSUME IInv, NEW c \in Calls, NEW kind \in Kinds, NEW slots \in SUBSET pending,
         \A s \in pending : s \notin slots => s.call = c,
         Post(c, kind, slots),
         c \notin onPage, c \notin rejecting, settled[c] = None,
         called' = called \cup {c},
         UNCHANGED <<settled, onPage, jobs>>,
         toPage' \in Seq(Own(Responses))
  PROVE  IInv'
  <1>1. CASE Posted(c, kind, slots)
    <2>1. /\ SlotsNamed' /\ SlotsUnique' /\ HasSlot(c)'
          /\ \A d : d # c => (HasSlot(d)' <=> HasSlot(d))
      BY <1>1, SetFacts DEF Posted
    <2>2. rejecting' = rejecting
      BY <1>1 DEF Posted
    <2>3. MessagesNamed'
      <3>1. Append(toWorker, Message(c, kind)) \in Seq(Own(Messages))
        BY MessageOwn, QueueFacts DEF IInv, MessagesNamed
      <3> QED BY <1>1, <3>1 DEF IInv, MessagesNamed, Posted
    <2>4. Kept(c)'
      BY <2>1, <2>2 DEF Kept
    <2>5. Elsewhere(c)
      BY <2>1, <2>2 DEF Elsewhere
    <2>6. CallsKept'
      BY <2>2, <2>4, <2>5, OthersKept, SettledSame DEF IInv, CallsKept
    <2> QED BY <2>1, <2>3, <2>6 DEF IInv
  <1>2. CASE PostThrows(c, slots)
    <2>1. /\ SlotsNamed' /\ SlotsUnique' /\ ~HasSlot(c)'
          /\ \A d : d # c => (HasSlot(d)' <=> HasSlot(d))
      BY <1>2, DeleteFacts DEF PostThrows
    <2>2. rejecting' = rejecting \cup {c} /\ toWorker' = toWorker
      BY <1>2 DEF PostThrows
    <2>3. MessagesNamed'
      BY <2>2 DEF IInv, MessagesNamed
    <2>4. Kept(c)'
      BY <2>1, <2>2 DEF Kept
    <2>5. Elsewhere(c)
      BY <2>1, <2>2 DEF Elsewhere
    <2>6. CallsKept'
      BY <2>2, <2>4, <2>5, OthersKept, SettledSame DEF IInv, CallsKept
    <2> QED BY <2>1, <2>3, <2>6 DEF IInv
  <1> QED BY <1>1, <1>2 DEF Post

\* A call is made once, and starts with a slot or a rejection.
LEMMA CallKeeps ==
  ASSUME IInv, NEW c \in Calls, NEW kind \in Kinds, Call(c, kind)
  PROVE  IInv'
  <1>1. Kept(c) /\ SettledOwn(c) /\ settled[c] \in Outcomes \cup {None}
    BY DEF IInv, CallsKept
  <1>2. c \notin called /\ called' = called \cup {c} /\ Post(c, kind, pending)
    BY DEF Call
  <1>3. UNCHANGED <<settled, onPage, jobs, toPage>>
    BY DEF Call
  <1>4. c \notin onPage /\ c \notin rejecting /\ settled[c] = None
    BY <1>1, <1>2 DEF Kept
  <1> QED BY <1>2, <1>3, <1>4, PostKeeps DEF IInv, MessagesNamed
-----------------------------------------------------------------------------
(* worker.onmessage.                                                       *)

\* The answer at the head of the queue names a call, whose slot it finds.
LEMMA ReceiveFacts ==
  ASSUME IInv, toPage # <<>>, NEW s \in SlotsAt(Head(toPage).seq)
  PROVE  /\ s \in pending /\ s.call \in Calls
         /\ Head(toPage).of = s.call
         /\ Head(toPage) \in Own(Responses)
         /\ Tail(toPage) \in Seq(Own(Responses))
         /\ s.call \notin onPage /\ s.call \notin rejecting
         /\ s.call \in called /\ settled[s.call] = None
  <1>1. s \in pending /\ s.seq = Head(toPage).seq
    BY DEF SlotsAt
  <1>2. s.call \in Calls /\ s.seq = s.call
    BY <1>1 DEF IInv, SlotsNamed
  <1>3. Head(toPage) \in Own(Responses) /\ Tail(toPage) \in Seq(Own(Responses))
    BY QueueFacts DEF IInv, MessagesNamed
  <1>4. Head(toPage).of = s.call
    BY <1>1, <1>2, <1>3 DEF Own
  <1>5. HasSlot(s.call)
    BY <1>1 DEF HasSlot
  <1>6. Kept(s.call)
    BY <1>2 DEF IInv, CallsKept
  <1> QED BY <1>1, <1>2, <1>3, <1>4, <1>5, <1>6 DEF Kept

\* The answer settles the call (resolve or reject of its slot).
LEMMA SettleFromKeeps ==
  ASSUME IInv, toPage # <<>>, NEW s \in SlotsAt(Head(toPage).seq),
         SettleFrom(s, Head(toPage)), toPage' = Tail(toPage),
         UNCHANGED <<called, jobs>>
  PROVE  IInv'
  <1> DEFINE c == s.call
             m == Head(toPage)
             out == [ok |-> Answers(m.type, s.kind), of |-> m.of]
  <1>1. /\ s \in pending /\ c \in Calls /\ m.of = c
        /\ toPage' \in Seq(Own(Responses))
        /\ c \notin onPage /\ c \notin rejecting
        /\ c \in called /\ settled[c] = None
    BY ReceiveFacts
  <1>2. /\ Settle(c, out) /\ pending' = FreeSlot(s)
        /\ UNCHANGED <<onPage, rejecting, toWorker>>
    BY DEF SettleFrom
  <1>3. out \in Outcomes /\ out.of = c
    <2>1. Answers(m.type, s.kind) \in BOOLEAN
      BY DEF Answers
    <2> QED BY <1>1, <2>1, OutcomeFacts
  <1>4. /\ SlotsNamed' /\ SlotsUnique' /\ ~HasSlot(c)'
        /\ \A d : d # c => (HasSlot(d)' <=> HasSlot(d))
    BY <1>1, <1>2, FreeFacts
  <1>5. /\ settled' \in [Calls -> Outcomes \cup {None}]
        /\ \A d \in Calls : d # c => settled'[d] = settled[d]
        /\ settled'[c] # None
        /\ \A d \in Calls : SettledOwn(d)'
    <2> HIDE DEF out, c
    <2> QED BY <1>1, <1>2, <1>3, SettleFacts DEF IInv
  <1>6. Kept(c)'
    BY <1>1, <1>2, <1>4, <1>5 DEF Kept
  <1>7. Elsewhere(c)
    BY <1>2, <1>4, <1>5 DEF Elsewhere
  <1>8. CallsKept'
    <2> HIDE DEF c
    <2> QED BY <1>1, <1>2, <1>5, <1>6, <1>7, OthersKept DEF IInv, CallsKept
  <1>9. MessagesNamed'
    BY <1>1, <1>2 DEF IInv, MessagesNamed
  <1> QED BY <1>4, <1>8, <1>9 DEF IInv

\* The decision frees the slot and the call goes on under the same number.
LEMMA GoOnKeeps ==
  ASSUME IInv, toPage # <<>>, NEW s \in SlotsAt(Head(toPage).seq),
         GoOn(s, Head(toPage)), toPage' = Tail(toPage),
         UNCHANGED <<called, jobs>>
  PROVE  IInv'
  <1>1. /\ s \in pending /\ s.call \in Calls
        /\ toPage' \in Seq(Own(Responses))
        /\ s.call \notin onPage /\ s.call \notin rejecting
        /\ s.call \in called /\ settled[s.call] = None
    BY ReceiveFacts
  <1>2. /\ Post(s.call, Head(toPage).type, FreeSlot(s))
        /\ Head(toPage).type \in Kinds
        /\ UNCHANGED <<settled, onPage>>
    BY DEF GoOn, Kinds
  <1>3. /\ FreeSlot(s) \in SUBSET pending
        /\ \A t \in pending : t \notin FreeSlot(s) => t.call = s.call
    BY DEF FreeSlot
  <1>4. called' = called \cup {s.call}
    BY <1>1
  <1> QED BY <1>1, <1>2, <1>3, <1>4, PostKeeps

\* A call the page takes over, because the worker cannot do it or is too slow.
LEMMA ToPageKeeps ==
  ASSUME IInv, NEW s \in pending, s.call \in Calls,
         s.call \notin onPage, s.call \notin rejecting,
         s.call \in called, settled[s.call] = None,
         onPage' = onPage \cup {s.call}, pending' = FreeSlot(s),
         toPage' \in Seq(Own(Responses)),
         UNCHANGED <<called, settled, rejecting, toWorker, jobs>>
  PROVE  IInv'
  <1>1. /\ SlotsNamed' /\ SlotsUnique' /\ ~HasSlot(s.call)'
        /\ \A d : d # s.call => (HasSlot(d)' <=> HasSlot(d))
    BY FreeFacts
  <1>2. Kept(s.call)'
    BY <1>1 DEF Kept
  <1>3. Elsewhere(s.call)
    BY <1>1 DEF Elsewhere
  <1>4. CallsKept'
    BY <1>2, <1>3, OthersKept, SettledSame DEF IInv, CallsKept
  <1>5. MessagesNamed'
    BY DEF IInv, MessagesNamed
  <1> QED BY <1>1, <1>4, <1>5 DEF IInv

LEMMA ReceiveKeeps ==
  ASSUME IInv, Receive
  PROVE  IInv'
  <1>1. toPage # <<>> /\ toPage' = Tail(toPage) /\ UNCHANGED <<called, jobs>>
    BY DEF Receive
  <1>2. PICK s \in SlotsAt(Head(toPage).seq) :
          \/ SettleFrom(s, Head(toPage))
          \/ GoOn(s, Head(toPage))
          \/ FallBack(s, Head(toPage))
    BY DEF Receive
  <1>3. CASE FallBack(s, Head(toPage))
    <2>1. /\ s \in pending /\ s.call \in Calls
          /\ toPage' \in Seq(Own(Responses))
          /\ s.call \notin onPage /\ s.call \notin rejecting
          /\ s.call \in called /\ settled[s.call] = None
      BY <1>1, ReceiveFacts
    <2> QED BY <1>1, <1>3, <2>1, ToPageKeeps DEF FallBack
  <1> QED BY <1>1, <1>2, <1>3, SettleFromKeeps, GoOnKeeps

LEMMA DropKeeps ==
  ASSUME IInv, Drop
  PROVE  IInv'
  <1>1. /\ toPage' \in Seq(Own(Responses))
        /\ UNCHANGED <<called, settled, pending, onPage, rejecting, toWorker, jobs>>
    BY QueueFacts DEF Drop, workerVars, IInv, MessagesNamed
  <1> QED BY <1>1 DEF IInv, SlotsNamed, SlotsUnique, MessagesNamed, CallsKept,
             Kept, SettledOwn, HasSlot
-----------------------------------------------------------------------------
(* The other steps of the page.                                            *)

\* The timeout of a dynamic render finds the slot of its call, or does nothing.
LEMMA TimeOutKeeps ==
  ASSUME IInv, NEW c \in Calls, TimeOut(c)
  PROVE  IInv'
  <1>1. /\ UNCHANGED <<called, settled, rejecting, toWorker, jobs, toPage>>
        /\ toPage' \in Seq(Own(Responses))
    BY DEF TimeOut, workerVars, IInv, MessagesNamed
  <1>2. CASE \E s \in pending : s.call = c /\ s.kind = "dynamic"
    <2>1. PICK s \in pending : s.call = c /\ s.kind = "dynamic"
      BY <1>2
    <2>2. s = Slot(c, "dynamic")
      BY <2>1 DEF IInv, SlotsNamed, Slots, Slot, SeqOf
    <2>3. onPage' = onPage \cup {s.call} /\ pending' = FreeSlot(s)
      BY <1>2, <2>1, <2>2 DEF TimeOut
    <2>4. /\ s.call \notin onPage /\ s.call \notin rejecting
          /\ s.call \in called /\ settled[s.call] = None
      BY <2>1 DEF IInv, CallsKept, Kept, HasSlot
    <2> QED BY <1>1, <2>1, <2>3, <2>4, ToPageKeeps
  <1>3. CASE ~\E s \in pending : s.call = c /\ s.kind = "dynamic"
    <2>1. UNCHANGED <<onPage, pending>>
      BY <1>3 DEF TimeOut
    <2> QED BY <1>1, <2>1 DEF IInv, SlotsNamed, SlotsUnique, MessagesNamed,
               CallsKept, Kept, SettledOwn, HasSlot
  <1> QED BY <1>2, <1>3

\* An owner other than a slot settles its call (the page's renderer, a rejection).
LEMMA OwnerSettles ==
  ASSUME IInv, NEW c \in Calls, NEW out \in Outcomes, out.of = c, Settle(c, out),
         c \in onPage \/ c \in rejecting,
         onPage' = onPage \ {c}, rejecting' = rejecting \ {c},
         UNCHANGED <<called, pending, toWorker, jobs, toPage>>
  PROVE  IInv'
  <1>1. /\ settled' \in [Calls -> Outcomes \cup {None}]
        /\ \A d \in Calls : d # c => settled'[d] = settled[d]
        /\ settled'[c] # None
        /\ \A d \in Calls : SettledOwn(d)'
    BY SettleFacts DEF IInv
  <1>2. Kept(c)
    BY DEF IInv, CallsKept
  <1>3. Kept(c)'
    BY <1>1, <1>2 DEF Kept, HasSlot
  <1>4. Elsewhere(c)
    BY <1>1 DEF Elsewhere, HasSlot
  <1>5. CallsKept'
    BY <1>1, <1>3, <1>4, OthersKept DEF IInv, CallsKept
  <1>6. SlotsNamed' /\ SlotsUnique' /\ MessagesNamed'
    BY DEF IInv, SlotsNamed, SlotsUnique, MessagesNamed
  <1> QED BY <1>5, <1>6 DEF IInv

LEMMA PageSettlesKeeps ==
  ASSUME IInv, NEW c \in Calls, PageSettles(c)
  PROVE  IInv'
  <1>1. PICK ok \in BOOLEAN : Settle(c, [ok |-> ok, of |-> c])
    BY DEF PageSettles
  <1>2. c \notin rejecting
    BY DEF IInv, CallsKept, Kept, PageSettles
  <1>3. [ok |-> ok, of |-> c] \in Outcomes
    BY OutcomeFacts
  <1> QED BY <1>1, <1>2, <1>3, OwnerSettles DEF PageSettles, workerVars

LEMMA RejectKeeps ==
  ASSUME IInv, NEW c \in Calls, Reject(c)
  PROVE  IInv'
  <1>1. c \notin onPage
    BY DEF IInv, CallsKept, Kept, Reject
  <1>2. Failure(c) \in Outcomes /\ Failure(c).of = c
    BY OutcomeFacts DEF Failure
  <1> QED BY <1>1, <1>2, OwnerSettles DEF Reject, workerVars

\* terminate() rejects every call with a slot; the others keep their owners.
LEMMA TerminateKeeps ==
  ASSUME IInv, Terminate
  PROVE  IInv'
  <1>1. /\ pending' = {} /\ toWorker' = <<>> /\ jobs' = {}
        /\ UNCHANGED <<called, onPage, rejecting, toPage>>
        /\ settled' = [c \in Calls |-> IF settled[c] = None /\ HasSlot(c)
                                       THEN Failure(c) ELSE settled[c]]
    BY DEF Terminate, HasSlot
  <1>2. /\ settled \in [Calls -> Outcomes \cup {None}] /\ onPage \subseteq Calls
        /\ rejecting \subseteq Calls /\ called \subseteq Calls
    BY DEF IInv, CallsKept
  <1>3. settled' \in [Calls -> Outcomes \cup {None}]
    BY <1>1, <1>2, OutcomeFacts
  <1>4. ASSUME NEW c \in Calls PROVE Kept(c)' /\ SettledOwn(c)'
    <2>1. Kept(c) /\ SettledOwn(c)
      BY DEF IInv, CallsKept
    <2>2. ~HasSlot(c)'
      BY <1>1 DEF HasSlot
    <2>3. Failure(c) \in Outcomes /\ Failure(c) # None /\ Failure(c).of = c
      BY OutcomeFacts DEF Failure
    <2>4. settled'[c] = IF settled[c] = None /\ HasSlot(c) THEN Failure(c) ELSE settled[c]
      BY <1>1
    <2>5. Kept(c)'
      BY <1>1, <2>1, <2>2, <2>3, <2>4 DEF Kept
    <2>6. SettledOwn(c)'
      BY <2>1, <2>3, <2>4 DEF SettledOwn
    <2> QED BY <2>5, <2>6
  <1>5. CallsKept'
    BY <1>1, <1>2, <1>3, <1>4 DEF CallsKept
  <1>6. MessagesNamed'
    <2>1. <<>> \in Seq(Own(Messages))
      BY EmptySeq
    <2> QED BY <1>1, <2>1 DEF IInv, MessagesNamed
  <1>7. SlotsNamed' /\ SlotsUnique'
    BY <1>1 DEF SlotsNamed, SlotsUnique
  <1> QED BY <1>5, <1>6, <1>7 DEF IInv
-----------------------------------------------------------------------------
(* The worker: it moves messages and answers under the number of the call.  *)

LEMMA WorkerKeeps ==
  ASSUME IInv, WorkerStep
  PROVE  IInv'
  <1>1. UNCHANGED <<called, settled, pending, onPage, rejecting>>
    BY DEF WorkerStep, Take, ModuleLoads, Answer
  <1>2. MessagesNamed'
    <2>1. CASE Take
      <3>1. Head(toWorker) \in Own(Messages) /\ Tail(toWorker) \in Seq(Own(Messages))
        BY <2>1, QueueFacts DEF Take, IInv, MessagesNamed
      <3> QED BY <2>1, <3>1 DEF Take, IInv, MessagesNamed
    <2>2. ASSUME NEW h \in Handlers, ModuleLoads(h) PROVE MessagesNamed'
      BY <2>2 DEF ModuleLoads, IInv, MessagesNamed
    <2>3. ASSUME NEW a \in jobs, Answer(a) PROVE MessagesNamed'
      <3>1. PICK type \in ResultsOf(a) :
              toPage' = Append(toPage, [seq |-> a.seq, type |-> type, of |-> a.of])
        BY <2>3 DEF Answer
      <3>2. a \in Own(Messages)
        BY DEF IInv, MessagesNamed
      <3>3. a.kind \in Kinds
        BY <3>2 DEF Own, Messages
      <3>4. type \in Results
        BY <3>3 DEF ResultsOf, Results, Kinds
      <3>5. [seq |-> a.seq, type |-> type, of |-> a.of] \in Own(Responses)
        BY <3>2, <3>4 DEF Own, Messages, Responses
      <3>6. toPage' \in Seq(Own(Responses))
        BY <3>1, <3>5, QueueFacts DEF IInv, MessagesNamed
      <3> QED BY <2>3, <3>6 DEF Answer, IInv, MessagesNamed
    <2> QED BY <2>1, <2>2, <2>3 DEF WorkerStep
  <1> QED BY <1>1, <1>2 DEF IInv, SlotsNamed, SlotsUnique, CallsKept, Kept,
             SettledOwn, HasSlot
-----------------------------------------------------------------------------

LEMMA InitIInv == ClientInit => IInv
  <1> SUFFICES ASSUME ClientInit PROVE IInv
    OBVIOUS
  <1>1. <<>> \in Seq(Own(Messages)) /\ <<>> \in Seq(Own(Responses))
    BY EmptySeq
  <1> QED BY <1>1 DEF ClientInit, IInv, SlotsNamed, SlotsUnique, MessagesNamed,
             CallsKept, Kept, SettledOwn, HasSlot

LEMMA NextIInv == IInv /\ [ClientNext]_clientVars => IInv'
  <1> SUFFICES ASSUME IInv, [ClientNext]_clientVars PROVE IInv'
    OBVIOUS
  <1>1. ASSUME NEW c \in Renders, StartRender(c) PROVE IInv'
    <2>1. PICK kind \in {"static", "fitted", "resolve"} : Call(c, kind)
      BY <1>1 DEF StartRender
    <2> QED BY <2>1, CallKeeps DEF Kinds, Calls
  <1>2. ASSUME NEW c \in Checks, StartCheck(c) PROVE IInv'
    BY <1>2, CallKeeps DEF StartCheck, Kinds, Calls
  <1>3. CASE PageStep
    BY <1>3, ReceiveKeeps, DropKeeps, TerminateKeeps, TimeOutKeeps,
       PageSettlesKeeps, RejectKeeps DEF PageStep
  <1>4. CASE WorkerStep
    BY <1>4, WorkerKeeps
  <1>5. CASE UNCHANGED clientVars
    BY <1>5 DEF clientVars, IInv, SlotsNamed, SlotsUnique, MessagesNamed,
       CallsKept, Kept, SettledOwn, HasSlot
  <1> QED BY <1>1, <1>2, <1>3, <1>4, <1>5 DEF ClientNext, ClientStep

LEMMA Invariance == ClientSpec => []IInv
  <1> QED BY InitIInv, NextIInv, PTL DEF ClientSpec

\* One owner until a call is settled, none after.
LEMMA IInvOneOwner == IInv => OneOwner
  <1> SUFFICES ASSUME IInv, NEW c \in called
               PROVE  IF settled[c] = None THEN \E o \in Owners(c) : Owners(c) = {o}
                                           ELSE Owners(c) = {}
    BY DEF OneOwner
  <1>1. c \in Calls /\ Kept(c)
    BY DEF IInv, CallsKept
  <1>2. CASE settled[c] # None
    <2>1. ~HasSlot(c) /\ c \notin onPage /\ c \notin rejecting
      BY <1>1, <1>2 DEF Kept
    <2>2. Owners(c) = {}
      BY <2>1 DEF Owners, HasSlot
    <2> QED BY <1>2, <2>2
  <1>3. CASE settled[c] = None
    <2>1. CASE HasSlot(c)
      <3>1. PICK s \in pending : s.call = c
        BY <2>1 DEF HasSlot
      <3>2. c \notin onPage /\ c \notin rejecting
        BY <1>1, <2>1 DEF Kept
      <3>3. \A t \in pending : t.call = c => t = s
        BY <3>1 DEF IInv, SlotsUnique
      <3>4. Owners(c) = {<<"slot", s.kind>>}
        BY <3>1, <3>2, <3>3 DEF Owners
      <3> QED BY <1>3, <3>4
    <2>2. CASE c \in onPage
      <3>1. ~HasSlot(c) /\ c \notin rejecting
        BY <1>1, <2>2 DEF Kept
      <3>2. Owners(c) = {<<"page", "dynamic">>}
        BY <2>2, <3>1 DEF Owners, HasSlot
      <3> QED BY <1>3, <3>2
    <2>3. CASE c \in rejecting
      <3>1. ~HasSlot(c) /\ c \notin onPage
        BY <1>1, <2>3 DEF Kept
      <3>2. Owners(c) = {<<"rejection", "any">>}
        BY <2>3, <3>1 DEF Owners, HasSlot
      <3> QED BY <1>3, <3>2
    <2> QED BY <1>1, <1>3, <2>1, <2>2, <2>3 DEF Kept
  <1> QED BY <1>2, <1>3

LEMMA IInvOwnOutput == IInv => OwnOutput
  BY DEF IInv, CallsKept, SettledOwn, OwnOutput

\* Every call the render client was given waits for exactly one thing until it is
\* settled, and for nothing afterwards.
THEOREM CallsHaveOneOwner == ClientSpec => []OneOwner
  <1> QED BY Invariance, IInvOneOwner, PTL

\* Every call that succeeds was settled with the output of its own input.
THEOREM CallsGetOwnOutput == ClientSpec => []OwnOutput
  <1> QED BY Invariance, IInvOwnOutput, PTL
-----------------------------------------------------------------------------
(* Types.  Only renders are timed and only renders fall back to the page,  *)
(* since a slot that is not a validation's is a render's.                  *)

TypeInv ==
    /\ timers \subseteq Renders
    /\ onPage \subseteq Renders
    /\ \A s \in pending : s.kind # "validate" => s.call \in Renders
    /\ module \in [Handlers -> {"unloaded", "loading", "loaded", "failed"}]
    /\ terminated \in BOOLEAN

\* Whatever is posted anew was a render's, if it is not a validation.
LEMMA PostTypes ==
  ASSUME TypeInv, NEW c, NEW kind, NEW slots, Post(c, kind, slots), slots \subseteq pending,
         kind # "validate" => c \in Renders
  PROVE  /\ timers' \subseteq Renders
         /\ \A s \in pending' : s.kind # "validate" => s.call \in Renders
  <1>1. pending' \subseteq pending \cup {Slot(c, kind)}
    BY DEF Post, Posted, PostThrows
  <1>2. timers' \subseteq Renders
    <2>1. CASE Posted(c, kind, slots)
      BY <2>1 DEF Posted, TypeInv
    <2>2. CASE PostThrows(c, slots)
      BY <2>2 DEF PostThrows, TypeInv
    <2> QED BY <2>1, <2>2 DEF Post
  <1>3. Slot(c, kind).kind = kind /\ Slot(c, kind).call = c
    BY DEF Slot
  <1> QED BY <1>1, <1>2, <1>3 DEF TypeInv

\* An answer moves its slot's call on, to the page or out of the client.
LEMMA ReceiveTypes ==
  ASSUME TypeInv, Receive
  PROVE  TypeInv'
  <1> DEFINE m == Head(toPage)
  <1>1. PICK s \in SlotsAt(m.seq) : SettleFrom(s, m) \/ GoOn(s, m) \/ FallBack(s, m)
    BY DEF Receive
  <1>2. s \in pending /\ FreeSlot(s) \subseteq pending
    BY DEF SlotsAt, FreeSlot
  <1>3. module' = module /\ terminated' = terminated
    BY DEF Receive
  <1> HIDE DEF m
  <1>4. CASE SettleFrom(s, m)
    BY <1>2, <1>3, <1>4 DEF SettleFrom, TypeInv
  <1>5. CASE GoOn(s, m)
    <2>1. s.call \in Renders /\ Post(s.call, m.type, FreeSlot(s)) /\ onPage' = onPage
      BY <1>2, <1>5 DEF GoOn, TypeInv
    <2> QED BY <1>2, <1>3, <2>1, PostTypes DEF TypeInv
  <1>6. CASE FallBack(s, m)
    BY <1>2, <1>3, <1>6 DEF FallBack, TypeInv
  <1> QED BY <1>1, <1>4, <1>5, <1>6

\* Every step keeps slots and timers apart by what they are for.
LEMMA NextTypeInv == TypeInv /\ [ClientNext]_clientVars => TypeInv'
  <1> SUFFICES ASSUME TypeInv, [ClientNext]_clientVars PROVE TypeInv'
    OBVIOUS
  <1>1. ASSUME NEW c \in Calls, NEW kind, Call(c, kind), kind # "validate" => c \in Renders
        PROVE  TypeInv'
    BY <1>1, PostTypes DEF Call, TypeInv
  <1>2. CASE \E c \in Renders : StartRender(c)
    BY <1>1, <1>2 DEF StartRender, Calls
  <1>3. CASE \E c \in Checks : StartCheck(c)
    BY <1>1, <1>3 DEF StartCheck, Calls
  <1>4. CASE Receive
    BY <1>4, ReceiveTypes
  <1>5. CASE Drop
    BY <1>5 DEF Drop, workerVars, TypeInv
  <1>6. CASE Terminate
    BY <1>6 DEF Terminate, TypeInv
  <1>7. ASSUME NEW c \in Calls, TimeOut(c) PROVE TypeInv'
    BY <1>7 DEF TimeOut, workerVars, FreeSlot, TypeInv
  <1>8. ASSUME NEW c \in Calls, PageSettles(c) PROVE TypeInv'
    BY <1>8 DEF PageSettles, workerVars, TypeInv
  <1>9. ASSUME NEW c \in Calls, Reject(c) PROVE TypeInv'
    BY <1>9 DEF Reject, workerVars, TypeInv
  <1>10. CASE WorkerStep
    <2>1. CASE Take
      BY <2>1 DEF Take, TypeInv
    <2>2. ASSUME NEW h \in Handlers, ModuleLoads(h) PROVE TypeInv'
      BY <2>2 DEF ModuleLoads, TypeInv
    <2>3. ASSUME NEW m \in jobs, Answer(m) PROVE TypeInv'
      BY <2>3 DEF Answer, TypeInv
    <2> QED BY <1>10, <2>1, <2>2, <2>3 DEF WorkerStep
  <1>11. CASE UNCHANGED clientVars
    BY <1>11 DEF clientVars, TypeInv
  <1> QED BY <1>2, <1>3, <1>4, <1>5, <1>6, <1>7, <1>8, <1>9, <1>10, <1>11
          DEF ClientNext, ClientStep, PageStep

\* With the invariant of the messages this is the type invariant.
LEMMA TypesFollow == IInv /\ TypeInv => ClientTypeOK
  <1> SUFFICES ASSUME IInv, TypeInv PROVE ClientTypeOK
    OBVIOUS
  <1>1. Own(Messages) \subseteq Messages /\ Own(Responses) \subseteq Responses
    BY DEF Own
  <1>2. Seq(Own(Messages)) \subseteq Seq(Messages) /\ Seq(Own(Responses)) \subseteq Seq(Responses)
    BY <1>1
  <1>3. toWorker \in Seq(Messages) /\ jobs \subseteq Messages /\ toPage \in Seq(Responses)
    BY <1>1, <1>2 DEF IInv, MessagesNamed
  <1>4. pending \subseteq Slots
    BY DEF IInv, SlotsNamed
  <1> QED BY <1>3, <1>4 DEF IInv, CallsKept, TypeInv, ClientTypeOK

\* Slots, messages and timers of the client are well formed (render-client.ts).
THEOREM ClientTypesKept == ClientSpec => []ClientTypeOK
  <1>1. ClientInit => TypeInv
    BY DEF ClientInit, TypeInv
  <1>2. TypeInv /\ [ClientNext]_clientVars => TypeInv'
    BY NextTypeInv
  <1> QED BY <1>1, <1>2, Invariance, TypesFollow, PTL DEF ClientSpec
-----------------------------------------------------------------------------
(* The page.                                                               *)

\* A render that was called and is not settled is under way for the controller.
OpenIsWaiting == open = {c \in Renders : c \in called /\ settled[c] = None}

PInv == IInv /\ OpenIsWaiting
-----------------------------------------------------------------------------
(* The client's part of a step.                                            *)

\* A number the controller gives out is a render's.
LEMMA TriggerNumber ==
  ASSUME NEW version, Trigger(version)
  PROVE  latestSeq' \in Renders /\ latestSeq' = latestSeq + 1
  BY DEF Trigger

LEMMA NextIsClient == [Next]_vars => [ClientNext]_clientVars
  <1> SUFFICES ASSUME [Next]_vars PROVE [ClientNext]_clientVars
    OBVIOUS
  <1>1. ASSUME EditNow \/ Fire, Rendering PROVE ClientNext
    <2>1. latestSeq' \in Renders
      BY <1>1, TriggerNumber DEF EditNow, Fire
    <2> QED BY <1>1, <2>1 DEF Rendering, ClientNext
  <1>2. CASE Edit
    BY <1>1, <1>2 DEF Edit
  <1>3. CASE TimerFires
    BY <1>1, <1>3 DEF TimerFires
  <1>4. CASE Lint
    BY <1>4 DEF Lint, ClientNext
  <1>5. CASE Works
    BY <1>5 DEF Works, ClientNext
  <1>6. CASE UNCHANGED vars
    BY <1>6 DEF vars
  <1> QED BY <1>2, <1>3, <1>4, <1>5, <1>6 DEF Next

\* A promise that is settled keeps its outcome, and nothing new is called.
LEMMA ClientStepFacts ==
  ASSUME IInv, ClientStep
  PROVE  /\ called' = called
         /\ \A c \in Calls : settled[c] # None => settled'[c] = settled[c]
  <1>1. settled \in [Calls -> Outcomes \cup {None}]
    BY DEF IInv, CallsKept
  <1>2. ASSUME NEW d \in Calls, NEW out, Settle(d, out)
        PROVE  \A c \in Calls : settled[c] # None => settled'[c] = settled[c]
    BY <1>1, <1>2 DEF Settle
  <1>3. CASE Receive
    <2>1. PICK s \in SlotsAt(Head(toPage).seq) :
            \/ SettleFrom(s, Head(toPage))
            \/ GoOn(s, Head(toPage))
            \/ FallBack(s, Head(toPage))
      BY <1>3 DEF Receive
    <2>2. s.call \in Calls
      BY DEF IInv, SlotsNamed, SlotsAt
    <2>3. CASE SettleFrom(s, Head(toPage))
      BY <1>2, <1>3, <2>2, <2>3 DEF SettleFrom, Receive
    <2>4. CASE GoOn(s, Head(toPage))
      BY <1>3, <2>4 DEF GoOn, Receive
    <2>5. CASE FallBack(s, Head(toPage))
      BY <1>3, <2>5 DEF FallBack, Receive
    <2> QED BY <2>1, <2>3, <2>4, <2>5
  <1>4. CASE Drop
    BY <1>4 DEF Drop
  <1>5. CASE Terminate
    <2>1. \A c \in Calls : settled[c] # None => settled'[c] = settled[c]
      BY <1>5 DEF Terminate
    <2> QED BY <1>5, <2>1 DEF Terminate
  <1>6. ASSUME NEW c \in Calls, TimeOut(c) PROVE called' = called /\ settled' = settled
    BY <1>6 DEF TimeOut
  <1>7. ASSUME NEW d \in Calls, PageSettles(d)
        PROVE  /\ called' = called
               /\ \A c \in Calls : settled[c] # None => settled'[c] = settled[c]
    BY <1>2, <1>7 DEF PageSettles
  <1>8. ASSUME NEW d \in Calls, Reject(d)
        PROVE  /\ called' = called
               /\ \A c \in Calls : settled[c] # None => settled'[c] = settled[c]
    BY <1>2, <1>8 DEF Reject
  <1>9. CASE WorkerStep
    BY <1>9 DEF WorkerStep, Take, ModuleLoads, Answer
  <1> QED BY <1>3, <1>4, <1>5, <1>6, <1>7, <1>8, <1>9 DEF ClientStep, PageStep
-----------------------------------------------------------------------------
(* The controller's part of a step.                                        *)

LEMMA InitPInv == Init => PInv
  <1> SUFFICES ASSUME Init PROVE PInv
    OBVIOUS
  <1>1. IInv
    BY InitIInv DEF Init
  <1>2. OpenIsWaiting
    BY DEF Init, ClientInit, LiveInit, OpenIsWaiting
  <1> QED BY <1>1, <1>2 DEF PInv

\* A render that starts is called, waits and is under way.
LEMMA RenderingKeeps ==
  ASSUME PInv, NEW version, Trigger(version), Rendering
  PROVE  OpenIsWaiting'
  <1> DEFINE c == latestSeq'
  <1>1. c \in Renders /\ open' = open \cup {c}
    BY TriggerNumber DEF Trigger
  <1>2. c \notin called /\ called' = called \cup {c} /\ settled' = settled
    BY DEF Rendering, StartRender, Call
  <1>3. settled[c] = None
    BY <1>1, <1>2 DEF PInv, IInv, CallsKept, Kept, Calls
  <1> HIDE DEF c
  <1> QED BY <1>1, <1>2, <1>3 DEF PInv, OpenIsWaiting

\* What the client settles in a step was under way, and ends in that step.
LEMMA WorksFacts ==
  ASSUME PInv, IInv', Works
  PROVE  OpenIsWaiting' /\ Ended \subseteq open
  <1>1. /\ called' = called
        /\ \A c \in Calls : settled[c] # None => settled'[c] = settled[c]
    BY ClientStepFacts DEF PInv, Works
  <1>2. open' = open \ Ended
    BY DEF Works, Noticed
  <1>3. \A c \in Renders : settled'[c] # None => c \in called
    BY <1>1 DEF IInv, CallsKept, Kept, Calls
  <1>4. Ended \subseteq open
    BY <1>3 DEF Ended, PInv, OpenIsWaiting
  <1>5. OpenIsWaiting'
    BY <1>1, <1>2 DEF PInv, OpenIsWaiting, Ended, Calls
  <1> QED BY <1>4, <1>5

LEMMA NextPInv ==
  ASSUME PInv, [Next]_vars
  PROVE  PInv'
  <1>1. IInv'
    BY NextIsClient, NextIInv DEF PInv
  <1>2. CASE Edit
    <2>1. CASE EditNow /\ Rendering
      BY <1>1, <2>1, RenderingKeeps DEF EditNow, PInv
    <2>2. CASE EditLater /\ UNCHANGED clientVars
      BY <1>1, <2>2 DEF EditLater, clientVars, PInv, OpenIsWaiting
    <2> QED BY <1>2, <2>1, <2>2 DEF Edit
  <1>3. CASE TimerFires
    BY <1>1, <1>3, RenderingKeeps DEF TimerFires, Fire, PInv
  <1>4. CASE Lint
    <2>1. PICK d \in Checks : Call(d, "validate") /\ UNCHANGED controller
      BY <1>4 DEF Lint, StartCheck
    <2>2. d \notin Renders
      BY RenderClientAssumption
    <2>3. called' = called \cup {d} /\ settled' = settled /\ open' = open
      BY <2>1 DEF Call, controller
    <2> QED BY <1>1, <2>2, <2>3 DEF PInv, OpenIsWaiting
  <1>5. CASE Works
    BY <1>1, <1>5, WorksFacts DEF PInv
  <1>6. CASE UNCHANGED vars
    BY <1>1, <1>6 DEF vars, clientVars, controller, PInv, OpenIsWaiting
  <1> QED BY <1>2, <1>3, <1>4, <1>5, <1>6 DEF Next

\* The outcomes of a step, for the renders that end in it.
LEMMA WorksIsEnd ==
  ASSUME PInv, IInv', Works
  PROVE  [LiveNext]_liveVars
  <1> DEFINE outcome == [c \in Renders |-> IF c \in Ended THEN settled'[c] ELSE Failure(c)]
  <1>1. Ended \subseteq open /\ Ended \subseteq Renders
    BY WorksFacts DEF Ended
  <1>2. /\ open' = open \ Ended
        /\ Show(Ended, settled')
        /\ UNCHANGED <<text, scheduled, timer, latestSeq, rendered>>
    BY DEF Works, Noticed
  <1>3. outcome \in [Renders -> Outcomes]
    <2>1. ASSUME NEW c \in Renders
          PROVE  (IF c \in Ended THEN settled'[c] ELSE Failure(c)) \in Outcomes
      <3>1. settled'[c] \in Outcomes \cup {None}
        BY DEF IInv, CallsKept, Calls
      <3>2. c \in Ended => settled'[c] # None
        BY DEF Ended
      <3>3. Failure(c) \in Outcomes
        BY OutcomeFacts DEF Calls
      <3> QED BY <3>1, <3>2, <3>3
    <2> QED BY <2>1
  <1>4. \A c \in Ended : outcome[c] = settled'[c]
    BY <1>1
  <1> HIDE DEF outcome
  <1>5. CASE Ended = {}
    <2>1. shown' = shown
      BY <1>2, <1>5 DEF Show
    <2> QED BY <1>2, <1>5, <2>1 DEF liveVars
  <1>6. CASE Ended # {}
    <2>1. Show(Ended, outcome)
      BY <1>2, <1>4 DEF Show
    <2>2. End(Ended, outcome)
      BY <1>1, <1>2, <1>6, <2>1 DEF End
    <2> QED BY <1>1, <1>3, <2>2 DEF LiveNext
  <1> QED BY <1>5, <1>6

LEMMA NextIsController ==
  ASSUME PInv, [Next]_vars
  PROVE  [LiveNext]_liveVars
  <1>1. IInv'
    BY NextPInv DEF PInv
  <1>2. CASE Edit
    BY <1>2 DEF Edit, LiveNext
  <1>3. CASE TimerFires
    BY <1>3 DEF TimerFires, LiveNext
  <1>4. CASE Lint
    BY <1>4 DEF Lint, controller, liveVars
  <1>5. CASE Works
    BY <1>1, <1>5, WorksIsEnd
  <1>6. CASE UNCHANGED vars
    BY <1>6 DEF vars, controller, liveVars
  <1> QED BY <1>2, <1>3, <1>4, <1>5, <1>6 DEF Next
-----------------------------------------------------------------------------

\* The page uses the render client as it was written for: every behaviour of the
\* page is one of the client (bootstrap.ts, the controller's render option).
THEOREM PageRunsClient == Spec => ClientSpec
  <1>1. Init => ClientInit
    BY DEF Init
  <1> QED BY <1>1, NextIsClient, PTL DEF Spec, ClientSpec

\* The promises of the page's renders and validations have one owner each.
THEOREM PageCallsHaveOneOwner == Spec => []OneOwner
  <1> QED BY PageRunsClient, CallsHaveOneOwner, PTL

\* The page ends renders as its controller expects: only renders under way, each
\* once, in whatever order the client settles them (the controller's onResult
\* and onError).
THEOREM PageRunsController == Spec => RunsController
  <1>1. Init => LiveInit
    BY DEF Init
  <1>2. PInv /\ [Next]_vars => PInv'
    BY NextPInv
  <1>3. PInv /\ [Next]_vars => [LiveNext]_liveVars
    BY NextIsController
  <1> QED BY <1>1, InitPInv, <1>2, <1>3, PTL DEF Spec, RunsController, LiveSpec
-----------------------------------------------------------------------------
(* What the preview shows: the live update controller by itself, for any   *)
(* number of edits and any order in which renders end, and so the page's.  *)

\* The newest render is under way or shown, and no number runs ahead of it.
NewestKept ==
    /\ latestSeq \in Nat
    /\ shown.seq \in 0..latestSeq
    /\ open \subseteq 1..latestSeq
    /\ latestSeq \in open \/ shown.seq = latestSeq

LEMMA InitNewestKept == LiveInit => NewestKept
  BY DEF LiveInit, NewestKept, Nothing

\* Starting a render makes it the newest one, and leaves it under way.
LEMMA TriggerKeeps ==
  ASSUME NewestKept, NEW version, Trigger(version), shown' = shown
  PROVE  NewestKept' /\ shown'.seq >= shown.seq
  <1>1. latestSeq' = latestSeq + 1 /\ open' = open \cup {latestSeq + 1}
    BY DEF Trigger
  <1> QED BY <1>1 DEF NewestKept

\* Ending renders shows the newest of all, or leaves it under way.
LEMMA EndKeeps ==
  ASSUME NewestKept, NEW ended, NEW result, End(ended, result)
  PROVE  NewestKept' /\ shown'.seq >= shown.seq
  <1>1. /\ ended \subseteq open /\ open' = open \ ended
        /\ latestSeq' = latestSeq
        /\ shown' = IF latestSeq \in ended
                    THEN [seq |-> latestSeq, result |-> result[latestSeq]]
                    ELSE shown
    BY DEF End, Show
  <1>2. CASE latestSeq \in ended
    <2>1. shown'.seq = latestSeq
      BY <1>1, <1>2
    <2> QED BY <1>1, <2>1 DEF NewestKept
  <1>3. CASE latestSeq \notin ended
    BY <1>1, <1>3 DEF NewestKept
  <1> QED BY <1>2, <1>3

\* Every step keeps the newest render, and shows nothing older.
LEMMA StepKeeps ==
  ASSUME NewestKept, [LiveNext]_liveVars
  PROVE  NewestKept' /\ shown'.seq >= shown.seq
  <1>1. CASE EditNow
    BY <1>1, TriggerKeeps DEF EditNow
  <1>2. CASE EditLater
    BY <1>2 DEF EditLater, NewestKept
  <1>3. CASE Fire
    BY <1>3, TriggerKeeps DEF Fire
  <1>4. CASE Cancel
    BY <1>4 DEF Cancel, NewestKept
  <1>5. ASSUME NEW ended \in SUBSET Renders, NEW result \in [Renders -> Outcomes],
               End(ended, result)
        PROVE  NewestKept' /\ shown'.seq >= shown.seq
    BY <1>5, EndKeeps
  <1>6. CASE UNCHANGED liveVars
    BY <1>6 DEF liveVars, NewestKept
  <1> QED BY <1>1, <1>2, <1>3, <1>4, <1>5, <1>6 DEF LiveNext

\* The invariant, for every behaviour of the controller (triggerRender).
THEOREM NewestRenderKept == LiveSpec => []NewestKept
  <1>1. NewestKept /\ [LiveNext]_liveVars => NewestKept'
    BY StepKeeps
  <1> QED BY InitNewestKept, <1>1, PTL DEF LiveSpec

\* A controller at rest shows the newest render (triggerRender, then and catch).
THEOREM RestShowsLatest == LiveSpec => []QuietShowsLatest
  <1>1. NewestKept => QuietShowsLatest
    BY DEF NewestKept, QuietShowsLatest
  <1> QED BY <1>1, NewestRenderKept, PTL

\* The preview never goes back to an older render (triggerRender).
THEOREM PreviewNeverOlder == LiveSpec => NeverOlder
  <1>1. NewestKept /\ [LiveNext]_liveVars => [shown'.seq >= shown.seq]_liveVars
    BY StepKeeps
  <1> QED BY <1>1, NewestRenderKept, PTL DEF LiveSpec, NeverOlder

\* The preview never goes back to an older render, whatever the worker, the timeouts
\* and the fallbacks do (triggerRender through the client).
THEOREM PageNeverOlder == Spec => NeverOlder
  <1> QED BY PageRunsController, PreviewNeverOlder, PTL DEF RunsController

\* The newest of the page's renders is under way or shown (triggerRender, then and catch).
LEMMA PageKeepsNewest == Spec => []NewestKept
  <1> QED BY PageRunsController, NewestRenderKept, PTL DEF RunsController
-----------------------------------------------------------------------------
(* What the editor holds, and what the newest render was started for.      *)

\* A timer is set for what the editor holds; without one the newest render is.
TextKept ==
    /\ text \in Nat
    /\ scheduled \in 0..text
    /\ timer \in BOOLEAN
    /\ rendered \in [Renders -> 0..text]
    /\ timer => scheduled = text
    /\ ~timer /\ text > 0 => latestSeq \in Renders /\ rendered[latestSeq] = text

\* A render that starts for the newest text is the one for it.
LEMMA TriggerText ==
  ASSUME TextKept, NEW version \in 0..text', Trigger(version), text' \in Nat, text' >= text
  PROVE  /\ rendered' \in [Renders -> 0..text']
         /\ latestSeq' \in Renders /\ rendered'[latestSeq'] = version
  <1>1. /\ latestSeq + 1 \in Renders
        /\ latestSeq' = latestSeq + 1
        /\ rendered' = [rendered EXCEPT ![latestSeq + 1] = version]
    BY DEF Trigger
  <1>2. 0..text \subseteq 0..text'
    BY DEF TextKept
  <1>3. rendered \in [Renders -> 0..text']
    BY <1>2 DEF TextKept
  <1> QED BY <1>1, <1>3

\* No text, no timer and no render to begin with.
LEMMA InitTextKept == Init => TextKept
  <1> SUFFICES ASSUME LiveInit PROVE TextKept
    BY DEF Init
  <1>1. text = 0 /\ scheduled = 0 /\ timer = FALSE /\ rendered = [s \in Renders |-> 0]
    BY DEF LiveInit
  <1>2. text \in Nat /\ scheduled \in 0..text /\ rendered \in [Renders -> 0..text]
    BY <1>1
  <1>3. ~(text > 0) /\ scheduled = text
    BY <1>1
  <1>4. timer \in BOOLEAN
    BY <1>1
  <1> QED BY <1>2, <1>3, <1>4 DEF TextKept

\* Edits set the timer or render at once, and the timer renders (schedule).
LEMMA NextTextKept == TextKept /\ [Next]_vars => TextKept'
  <1> SUFFICES ASSUME TextKept, [Next]_vars PROVE TextKept'
    OBVIOUS
  <1>1. CASE EditNow
    <2>1. text' = text + 1 /\ scheduled' = text + 1 /\ timer' = FALSE /\ Trigger(text + 1)
      BY <1>1 DEF EditNow
    <2>2. text' \in Nat /\ text' >= text /\ text + 1 \in 0..text'
      BY <2>1 DEF TextKept
    <2> QED BY <2>1, <2>2, TriggerText DEF TextKept
  <1>2. CASE EditLater
    <2>1. /\ text' = text + 1 /\ scheduled' = text + 1 /\ timer' = TRUE
          /\ rendered' = rendered
      BY <1>2 DEF EditLater
    <2>2. 0..text \subseteq 0..text'
      BY <2>1 DEF TextKept
    <2> QED BY <2>1, <2>2 DEF TextKept
  <1>3. CASE Fire
    <2>1. timer /\ timer' = FALSE /\ Trigger(scheduled) /\ text' = text /\ scheduled' = scheduled
      BY <1>3 DEF Fire
    <2>2. scheduled \in 0..text' /\ scheduled = text /\ text' \in Nat /\ text' >= text
      BY <2>1 DEF TextKept
    <2>3. /\ rendered' \in [Renders -> 0..text']
          /\ latestSeq' \in Renders /\ rendered'[latestSeq'] = scheduled
      BY <2>1, <2>2, TriggerText
    <2> QED BY <2>1, <2>2, <2>3 DEF TextKept
  <1>4. CASE UNCHANGED <<text, scheduled, timer, latestSeq, rendered>>
    BY <1>4 DEF TextKept
  <1> QED BY <1>1, <1>2, <1>3, <1>4
          DEF Next, Edit, TimerFires, Lint, controller, Works, Noticed, vars

\* A page at rest shows what the editor holds, whatever happened to the renders
\* before: triggerRender, schedule and the client's promises together.
THEOREM PageRestShowsText == Spec => []QuietShowsText
  <1>1. Init => TextKept
    BY InitTextKept
  <1>2. TextKept /\ [Next]_vars => TextKept'
    BY NextTextKept
  <1>3. Spec => []NewestKept
    BY PageKeepsNewest
  <1>4. TextKept /\ NewestKept => QuietShowsText
    <2> SUFFICES ASSUME TextKept, NewestKept, ~timer, open = {}, text > 0
                 PROVE  shown.seq # 0 /\ rendered[shown.seq] = text
      BY DEF QuietShowsText
    <2>1. shown.seq = latestSeq
      BY DEF NewestKept
    <2>2. latestSeq \in Renders /\ rendered[latestSeq] = text
      BY DEF TextKept
    <2> QED BY <2>1, <2>2, RenderClientAssumption
  <1> QED BY <1>1, <1>2, <1>3, <1>4, PTL DEF Spec

\* Every slot, message, number and timer of the page is well formed.
THEOREM PageTypesKept == Spec => []TypeOK
  <1>1. Init => TextKept
    BY InitTextKept
  <1>2. TextKept /\ [Next]_vars => TextKept'
    BY NextTextKept
  <1>3. PInv /\ [Next]_vars => PInv'
    BY NextPInv
  <1>4. TextKept /\ PInv /\ NewestKept => LiveTypeOK
    BY DEF TextKept, PInv, OpenIsWaiting, NewestKept, LiveTypeOK
  <1>5. Spec => []ClientTypeOK
    BY PageRunsClient, ClientTypesKept, PTL
  <1> QED BY <1>1, <1>2, InitPInv, <1>3, <1>4, <1>5, PageKeepsNewest, PTL DEF Spec, TypeOK

=============================================================================
