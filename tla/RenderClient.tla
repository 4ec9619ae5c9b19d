---------------------------- MODULE RenderClient ----------------------------
(***************************************************************************)
(* The render worker client of the playground and the worker it talks to   *)
(* (web/src/services/render-client.ts, dynamic-svg-routing.ts and          *)
(* packages/mmds-browser-text-metrics/src/worker.ts).                      *)
(*                                                                         *)
(* A call is a promise given to a caller.  While it waits for the worker it *)
(* has a slot in `pending`, filed under its sequence number; a render that  *)
(* may need browser text metrics first asks the worker for a decision and   *)
(* then uses the same number again.  A dynamic render the worker cannot do, *)
(* or does not do in time, is done by the page itself.  Page and worker are *)
(* event loops that exchange messages in order; a promise's continuation    *)
(* runs in the step that settles it.                                        *)
(***************************************************************************)
EXTENDS Integers, Sequences

CONSTANTS
    Renders,        \* the live renders, named by their sequence numbers
    Checks,         \* the validations of the editor's linter
    None            \* a promise that is not settled

Calls == Renders \cup Checks
Outcomes == [ok: BOOLEAN, of: Calls]

ASSUME RenderClientAssumption ==
    /\ \A c \in Renders : c \in Nat /\ c > 0
    /\ \A c \in Checks : c \in Int /\ c < 0
    /\ None \notin Outcomes

VARIABLES
    called,         \* the calls that were made
    settled,        \* what each call was settled with
    pending,        \* the slots of the calls that wait for the worker
    timers,         \* the dynamic renders whose timeout is armed
    onPage,         \* the calls the page renders itself
    rejecting,      \* the calls whose message could not be posted
    toWorker, jobs, toPage,     \* messages: posted, in progress, answered
    module,         \* the WebAssembly module of each of the worker's handlers
    terminated

clientVars == <<called, settled, pending, timers, onPage, rejecting, toWorker,
                jobs, toPage, module, terminated>>
workerVars == <<toWorker, jobs, module>>

Handlers == {"text", "fitted"}
Kinds == {"static", "fitted", "resolve", "dynamic", "validate"}

-----------------------------------------------------------------------------
(* Slots and messages.                                                     *)

\* The slip of giving every live render the same number.
SeqShared(c) == IF c < 0 THEN c ELSE 1

\* Live renders count up from 1, validations down from -1.
SeqOf(c) == c

Slot(c, kind) == [seq |-> SeqOf(c), kind |-> kind, call |-> c]
Slots == [seq: Int, kind: Kinds, call: Calls]

\* What a message asks for, and whose input it carries.
Message(c, kind) == [seq |-> SeqOf(c), kind |-> kind, of |-> c]
Messages == [seq: Int, kind: Kinds, of: Calls]

\* Answers: "static" and "dynamic" are decisions; "omitted" is a decision
\* that requires metrics and gives none.
Results == {"result", "fitted", "validation", "static", "dynamic", "omitted",
            "capability", "error"}
Responses == [seq: Int, type: Results, of: Calls]

Failure(c) == [ok |-> FALSE, of |-> c]

SlotsAt(seq) == {s \in pending : s.seq = seq}

ClientInit ==
    /\ called = {}
    /\ settled = [c \in Calls |-> None]
    /\ pending = {}
    /\ timers = {}
    /\ onPage = {}
    /\ rejecting = {}
    /\ toWorker = <<>>
    /\ jobs = {}
    /\ toPage = <<>>
    /\ module = [h \in Handlers |-> "unloaded"]
    /\ terminated = FALSE

\* resolve and reject do nothing to a promise that is settled.
Settle(c, outcome) ==
    settled' = [settled EXCEPT ![c] = IF @ = None THEN outcome ELSE @]

-----------------------------------------------------------------------------
(* The page.                                                               *)

\* The slip of a dynamic render without a timeout.
PostedUntimed(c, kind, slots) ==
    /\ pending' = {s \in slots : s.seq # SeqOf(c)} \cup {Slot(c, kind)}
    /\ toWorker' = IF terminated THEN toWorker ELSE Append(toWorker, Message(c, kind))
    /\ UNCHANGED <<timers, rejecting>>

\* Set the slot, then post: a worker that was terminated hears nothing.
Posted(c, kind, slots) ==
    /\ pending' = {s \in slots : s.seq # SeqOf(c)} \cup {Slot(c, kind)}
    /\ toWorker' = IF terminated THEN toWorker ELSE Append(toWorker, Message(c, kind))
    /\ timers' = IF kind = "dynamic" THEN timers \cup {c} ELSE timers
    /\ UNCHANGED rejecting

\* postMessage throws: the slot is deleted, the timer cleared.
PostThrows(c, slots) ==
    /\ pending' = {s \in slots : s.seq # SeqOf(c)}
    /\ rejecting' = rejecting \cup {c}
    /\ UNCHANGED <<toWorker, timers>>

Post(c, kind, slots) == Posted(c, kind, slots) \/ PostThrows(c, slots)

Call(c, kind) ==
    /\ c \notin called
    /\ called' = called \cup {c}
    /\ Post(c, kind, pending)
    /\ UNCHANGED <<settled, onPage, jobs, toPage, module, terminated>>

\* The requests a live render starts with: with a fit, without metrics, or with
\* the question whether metrics are needed.
StartRender(c) == \E kind \in {"static", "fitted", "resolve"} : Call(c, kind)
StartCheck(c) == Call(c, "validate")

\* The response that settles a slot of this kind well.
Answers(type, kind) ==
    \/ type = "result" /\ kind \in {"static", "dynamic"}
    \/ type = "fitted" /\ kind = "fitted"
    \/ type = "validation" /\ kind = "validate"

\* The slip of looking a slot up without taking it out.
KeepSlot(s) == pending

FreeSlot(s) == pending \ {s}

\* worker.onmessage.  A response without a slot is dropped.
Drop ==
    /\ toPage # <<>>
    /\ SlotsAt(Head(toPage).seq) = {}
    /\ toPage' = Tail(toPage)
    /\ UNCHANGED <<called, settled, pending, timers, onPage, rejecting,
                   workerVars, terminated>>

\* The response m settles the call of slot s.
SettleFrom(s, m) ==
    /\ ~(s.kind = "resolve" /\ m.type \in {"static", "dynamic"})
    /\ ~(s.kind = "dynamic" /\ m.type = "capability")
    /\ Settle(s.call, [ok |-> Answers(m.type, s.kind), of |-> m.of])
    /\ pending' = FreeSlot(s)
    /\ timers' = timers \ {s.call}
    /\ UNCHANGED <<onPage, rejecting, toWorker>>

\* The decision has arrived and freed the slot: go on under the same number.
GoOn(s, m) ==
    /\ s.kind = "resolve" /\ m.type \in {"static", "dynamic"}
    /\ Post(s.call, m.type, FreeSlot(s))
    /\ UNCHANGED <<settled, onPage>>

\* The worker lacks what measuring text needs.
FallBack(s, m) ==
    /\ s.kind = "dynamic" /\ m.type = "capability"
    /\ onPage' = onPage \cup {s.call}
    /\ pending' = FreeSlot(s)
    /\ timers' = timers \ {s.call}
    /\ UNCHANGED <<settled, rejecting, toWorker>>

Receive ==
    /\ toPage # <<>>
    /\ \E s \in SlotsAt(Head(toPage).seq) :
         SettleFrom(s, Head(toPage)) \/ GoOn(s, Head(toPage)) \/ FallBack(s, Head(toPage))
    /\ toPage' = Tail(toPage)
    /\ UNCHANGED <<called, jobs, module, terminated>>

\* The worker took too long; a timer whose slot is gone does nothing.
TimeOut(c) ==
    /\ c \in timers
    /\ timers' = timers \ {c}
    /\ IF \E s \in pending : s.call = c /\ s.kind = "dynamic"
       THEN /\ onPage' = onPage \cup {c}
            /\ pending' = FreeSlot(Slot(c, "dynamic"))
       ELSE UNCHANGED <<onPage, pending>>
    /\ UNCHANGED <<called, settled, rejecting, workerVars, toPage, terminated>>

\* The main-thread renderer is done, well or not.
PageSettles(c) ==
    /\ c \in onPage
    /\ onPage' = onPage \ {c}
    /\ \E ok \in BOOLEAN : Settle(c, [ok |-> ok, of |-> c])
    /\ UNCHANGED <<called, pending, timers, rejecting, workerVars, toPage, terminated>>

Reject(c) ==
    /\ c \in rejecting
    /\ rejecting' = rejecting \ {c}
    /\ Settle(c, Failure(c))
    /\ UNCHANGED <<called, pending, timers, onPage, workerVars, toPage, terminated>>

\* terminate(): the worker stops at once; what it has answered already may still
\* arrive.  Timers are not cleared.
Terminate ==
    /\ ~terminated
    /\ terminated' = TRUE
    /\ settled' = [c \in Calls |->
                     IF settled[c] = None /\ \E s \in pending : s.call = c
                     THEN Failure(c) ELSE settled[c]]
    /\ pending' = {}
    /\ toWorker' = <<>>
    /\ jobs' = {}
    /\ UNCHANGED <<called, timers, onPage, rejecting, toPage, module>>

-----------------------------------------------------------------------------
(* The worker: handlers start in order and interleave at their awaits.     *)

HandlerOf(m) == IF m.kind = "fitted" THEN "fitted" ELSE "text"

\* The first message of a handler starts to load its module.
Take ==
    /\ toWorker # <<>>
    /\ jobs' = jobs \cup {Head(toWorker)}
    /\ toWorker' = Tail(toWorker)
    /\ module' = [module EXCEPT ![HandlerOf(Head(toWorker))] =
                    IF @ = "unloaded" THEN "loading" ELSE @]
    /\ UNCHANGED <<called, settled, pending, timers, onPage, rejecting, toPage, terminated>>

\* A load that failed is kept: every later message is answered with its error.
ModuleLoads(h) ==
    /\ module[h] = "loading"
    /\ \E result \in {"loaded", "failed"} : module' = [module EXCEPT ![h] = result]
    /\ UNCHANGED <<called, settled, pending, timers, onPage, rejecting, toWorker,
                   jobs, toPage, terminated>>

ResultsOf(m) ==
    IF module[HandlerOf(m)] = "failed" THEN {"error"} ELSE {"error"} \cup
    CASE m.kind = "static"   -> {"result"}
      [] m.kind = "fitted"   -> {"fitted"}
      [] m.kind = "validate" -> {"validation"}
      [] m.kind = "resolve"  -> {"static", "dynamic", "omitted"}
      [] m.kind = "dynamic"  -> {"result", "capability"}

\* Every message is answered once.
Answer(m) ==
    /\ m \in jobs
    /\ module[HandlerOf(m)] \in {"loaded", "failed"}
    /\ jobs' = jobs \ {m}
    /\ \E type \in ResultsOf(m) :
         toPage' = Append(toPage, [seq |-> m.seq, type |-> type, of |-> m.of])
    /\ UNCHANGED <<called, settled, pending, timers, onPage, rejecting, toWorker,
                   module, terminated>>

-----------------------------------------------------------------------------

PageStep ==
    \/ Receive \/ Drop \/ Terminate
    \/ \E c \in Calls : TimeOut(c) \/ PageSettles(c) \/ Reject(c)

WorkerStep ==
    \/ Take
    \/ \E h \in Handlers : ModuleLoads(h)
    \/ \E m \in jobs : Answer(m)

ClientStep == PageStep \/ WorkerStep

ClientNext ==
    \/ \E c \in Renders : StartRender(c)
    \/ \E c \in Checks : StartCheck(c)
    \/ ClientStep

ClientSpec == ClientInit /\ [][ClientNext]_clientVars

-----------------------------------------------------------------------------
(* Properties.                                                             *)

ClientTypeOK ==
    /\ called \subseteq Calls
    /\ settled \in [Calls -> Outcomes \cup {None}]
    /\ pending \subseteq Slots
    /\ timers \subseteq Renders
    /\ onPage \subseteq Renders
    /\ rejecting \subseteq Calls
    /\ toWorker \in Seq(Messages)
    /\ jobs \subseteq Messages
    /\ toPage \in Seq(Responses)
    /\ module \in [Handlers -> {"unloaded", "loading", "loaded", "failed"}]
    /\ terminated \in BOOLEAN

\* Whatever a call waits for: its slot, the page's renderer, or a rejection.
Owners(c) ==
    {<<"slot", s.kind>> : s \in {s \in pending : s.call = c}} \cup
    {<<"page", "dynamic">> : d \in {d \in onPage : d = c}} \cup
    {<<"rejection", "any">> : d \in {d \in rejecting : d = c}}

\* A call that is not settled waits for exactly one thing, and a settled call for
\* none: no answer, late answer, timeout, failed post or termination loses a
\* promise or answers it twice, although numbers and slots are used again.
OneOwner ==
    \A c \in called :
        IF settled[c] = None THEN \E o \in Owners(c) : Owners(c) = {o}
                             ELSE Owners(c) = {}

\* A call that succeeds gets the output of its own input, never that of the call
\* which had the same number or slot before it.
OwnOutput ==
    \A c \in Calls : settled[c] # None /\ settled[c].ok => settled[c].of = c

=============================================================================
