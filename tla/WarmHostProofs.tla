--------------------------- MODULE WarmHostProofs ---------------------------
(* Machine-checked theorems about WarmHost, for any number of clients,     *)
(* requests, edits and reruns.                                             *)
EXTENDS WarmHost, TLAPS



\* No waiting check can be owed more than the run that makes the host idle
\* again, whoever sent it and when.
NeedIsComing ==
    \A c \in Clients :
        client[c].need <= generation + (IF Busy THEN 1 ELSE 0)

\* An idle snapshot holds a report, and complete_run has one to store.
IdleHasReport ==
    /\ ~Busy => report # None
    /\ pc = "ran" => outcome # None

IInv == TypeOK /\ NeedIsComing /\ IdleHasReport /\ WaitedAnswerIsFresh

-----------------------------------------------------------------------------

\* What RunCheck leaves: a library, an outcome and nothing pending.
LEMMA RunCheckFacts ==
    ASSUME TypeOK, NEW next, RunCheck(next)
    PROVE  /\ library' \in Versions \cup {None}
           /\ outcome' \in Outcomes
           /\ pending' = "None"
           /\ pc' = next
  <1> DEFINE refreshed(ok) ==
        IF ~ok THEN library
        ELSE IF library = None \/ pending = "FullReload" THEN disk
        ELSE IF pending = "Incremental"
             THEN [library EXCEPT !.source = disk.source]
             ELSE library
  <1>1. PICK ok \in BOOLEAN :
          /\ library' = refreshed(ok)
          /\ outcome' = [ok  |-> ok,
                         saw |-> IF ok THEN [refreshed(ok) EXCEPT !.policy = disk.policy]
                                       ELSE None]
    BY DEF RunCheck
  <1>2. disk \in Versions /\ library \in Versions \cup {None}
    BY DEF TypeOK
  <1>3. refreshed(ok) \in Versions \cup {None} /\ (ok => refreshed(ok) \in Versions)
    BY <1>2 DEF Versions, FileKinds
  <1>4. ok => [refreshed(ok) EXCEPT !.policy = disk.policy] \in Versions
    BY <1>2, <1>3 DEF Versions, FileKinds
  <1>5. outcome' \in Outcomes
    BY <1>1, <1>2, <1>4 DEF Outcomes
  <1> QED BY <1>1, <1>3, <1>5 DEF RunCheck

\* A client's record may be replaced by another.
LEMMA ClientUpdate ==
    ASSUME TypeOK, NEW c \in Clients, NEW with \in ClientRecords,
           client' = [client EXCEPT ![c] = with]
    PROVE  client' \in [Clients -> ClientRecords]
  BY DEF TypeOK

\* Every initial state satisfies the type invariant.
LEMMA InitTyped == Init => TypeOK
  <1> SUFFICES ASSUME Init PROVE TypeOK
    OBVIOUS
  <1>1. disk \in Versions
    BY DEF Init, Versions
  <1>2. client \in [Clients -> ClientRecords]
    BY DEF Init, ClientRecords, RequestKinds
  <1>3. edits \in 0..MaxEdits /\ sent \in 0..MaxRequests
    BY WarmHostAssumption DEF Init
  <1>4. pc \in {"warming", "cold", "watchingStandby"}
    BY WarmHostAssumption DEF Init, StartModes
  <1>5. fsEvents \in Seq(FileKinds) /\ backlog \in Seq(Clients)
    BY DEF Init
  <1> QED BY <1>1, <1>2, <1>3, <1>4, <1>5 DEF Init, TypeOK

\* The environment's steps preserve it ...
LEMMA EnvironmentTyped ==
    ASSUME TypeOK,
           \/ \E f \in Files : Edit(f)
           \/ CtrlC
           \/ \E c \in Clients, kind \in Requests : Send(c, kind)
           \/ WatcherFails
    PROVE  TypeOK'
  <1>1. ASSUME NEW f \in Files, Edit(f) PROVE TypeOK'
    <2>1. f \in FileKinds
      BY WarmHostAssumption
    <2>2. disk' \in Versions
      BY <1>1, <2>1 DEF TypeOK, Edit, Versions
    <2>3. fsEvents' \in Seq(FileKinds)
      BY <1>1, <2>1 DEF TypeOK, Edit
    <2>4. edits' \in 0..MaxEdits
      BY <1>1, WarmHostAssumption DEF TypeOK, Edit
    <2> QED
      BY <1>1, <2>2, <2>3, <2>4 DEF TypeOK, Edit, shared, flags, runner, thread
  <1>2. CASE CtrlC
    BY <1>2 DEF TypeOK, CtrlC, world, shared, runner, thread
  <1>3. ASSUME NEW c \in Clients, NEW kind \in Requests, Send(c, kind) PROVE TypeOK'
    <2>1. Asking(c, kind) \in ClientRecords
      <3>1. client[c] \in ClientRecords /\ kind \in RequestKinds /\ generation \in Nat
        BY WarmHostAssumption DEF TypeOK
      <3>2. (IF Busy THEN generation + 1 ELSE generation) \in Nat
        BY <3>1
      <3>3. (IF server = "stopped" THEN "failed" ELSE "sent") \in {"sent", "failed"}
        OBVIOUS
      <3> QED BY <3>1, <3>2, <3>3 DEF Asking, ClientRecords
    <2>2. client' \in [Clients -> ClientRecords]
      BY <1>3, <2>1, ClientUpdate DEF Send
    <2>3. sent' \in 0..MaxRequests
      BY <1>3, WarmHostAssumption DEF TypeOK, Send
    <2>4. backlog' \in Seq(Clients)
      BY <1>3 DEF TypeOK, Send
    <2> QED
      BY <1>3, <2>2, <2>3, <2>4 DEF TypeOK, Send, world, shared, flags, runner, thread
  <1>4. CASE WatcherFails
    BY <1>4 DEF TypeOK, WatcherFails, Leave, world, shared, flags, runner, thread
  <1> QED BY <1>1, <1>2, <1>3, <1>4

\* ... and so do the server thread's ...
LEMMA ServerTyped == ASSUME TypeOK, ServerStep PROVE TypeOK'
  <1>0. report \in Outcomes \cup {None} /\ generation \in Nat
    BY DEF TypeOK
  <1>1. CASE Accept
    <2>1. client' \in [Clients -> ClientRecords]
      <3>1. ASSUME NEW c \in Clients
            PROVE  [client[c] EXCEPT !.phase = "failed"] \in ClientRecords
        BY DEF TypeOK, ClientRecords
      <3> QED BY <1>1, <3>1 DEF TypeOK, Accept
    <2>2. backlog' \in Seq(Clients) /\ serving' \in Clients \cup {None}
      <3>1. backlog \in Seq(Clients) /\ serving \in Clients \cup {None}
        BY DEF TypeOK
      <3>2. CASE endpointDown
        BY <1>1, <3>1, <3>2 DEF Accept
      <3>3. CASE ~endpointDown
        <4>1. backlog # <<>>
          BY <1>1, <3>3 DEF Accept
        <4>2. Head(backlog) \in Clients /\ Tail(backlog) \in Seq(Clients)
          BY <3>1, <4>1
        <4> QED BY <1>1, <3>3, <4>2 DEF Accept
      <3> QED BY <3>2, <3>3
    <2> QED
      BY <1>1, <2>1, <2>2 DEF TypeOK, Accept, world, shared, flags, runner
  <1>2. ASSUME NEW c \in Clients, RejectOptions(c) PROVE TypeOK'
    <2>1. [client[c] EXCEPT !.phase = "answered"] \in ClientRecords
      BY DEF TypeOK, ClientRecords
    <2>2. client' \in [Clients -> ClientRecords]
      BY <1>2, <2>1, ClientUpdate DEF RejectOptions, Reply
    <2> QED
      BY <1>2, <2>2 DEF TypeOK, RejectOptions, Reply, world, shared, flags, runner
  <1>3. ASSUME NEW c \in Clients, AnswerCheck(c) \/ AnswerStatus(c) PROVE TypeOK'
    <2>1. [client[c] EXCEPT !.phase = "answered", !.answer = report, !.of = generation]
            \in ClientRecords
      BY <1>0 DEF TypeOK, ClientRecords
    <2>2. client' \in [Clients -> ClientRecords]
      BY <1>3, <2>1, ClientUpdate DEF AnswerCheck, AnswerStatus, Reply
    <2> QED
      BY <1>3, <2>2 DEF TypeOK, AnswerCheck, AnswerStatus, Reply, world, shared, flags,
                        runner
  <1>5. ASSUME NEW c \in Clients, NotifyMarksDirty(c) PROVE TypeOK'
    BY <1>5 DEF TypeOK, NotifyMarksDirty, Handles, world, flags, runner
  <1>6. ASSUME NEW c \in Clients, NotifyRaisesFlag(c) PROVE TypeOK'
    <2>1. [client[c] EXCEPT !.phase = "answered"] \in ClientRecords
      <3>1. client[c] \in ClientRecords
        BY <1>0 DEF TypeOK
      <3> QED BY <3>1 DEF ClientRecords
    <2>2. client' \in [Clients -> ClientRecords]
      BY <1>6, <2>1, ClientUpdate DEF NotifyRaisesFlag, Reply
    <2> QED
      BY <1>6, <2>2 DEF TypeOK, NotifyRaisesFlag, Reply, world, shared, flags, runner
  <1>7. ASSUME NEW c \in Clients, ShutdownRequests(c) PROVE TypeOK'
    BY <1>7 DEF TypeOK, ShutdownRequests, Handles, world, shared, runner
  <1>8. ASSUME NEW c \in Clients, ShutdownInterrupts(c) PROVE TypeOK'
    <2>1. [client[c] EXCEPT !.phase = "answered"] \in ClientRecords
      BY DEF TypeOK, ClientRecords
    <2>2. client' \in [Clients -> ClientRecords]
      BY <1>8, <2>1, ClientUpdate DEF ShutdownInterrupts, Reply
    <2> QED
      BY <1>8, <2>2 DEF TypeOK, ShutdownInterrupts, Reply, world, shared, runner
  <1> QED
    BY <1>1, <1>2, <1>3, <1>5, <1>6, <1>7, <1>8 DEF ServerStep

\* ... and the watch loop's.
LEMMA LoopTyped == ASSUME TypeOK, LoopStep PROVE TypeOK'
  <1>1. CASE WarmUp
    <2>1. library' \in Versions \cup {None} /\ outcome' \in Outcomes
          /\ pending' = "None" /\ pc' \in {"warmed", "watching"}
      BY <1>1, RunCheckFacts DEF WarmUp
    <2> QED BY <1>1, <2>1 DEF TypeOK, WarmUp, world, shared, flags, thread
  <1>2. CASE OpenEventSource
    BY <1>2 DEF TypeOK, OpenEventSource, world, shared, flags, runner, thread
  <1>3. CASE Bind
    BY <1>3 DEF TypeOK, Bind, world, shared, flags, runner
  <1>4. CASE InitialRun \/ Rerun
    <2>1. Recorded(pending, changes) \in {"None", "Incremental", "FullReload"}
      BY DEF Recorded
    <2> QED
      BY <1>4, <2>1 DEF TypeOK, InitialRun, Rerun, StartRun, world, flags, thread
  <1>5. CASE Analyse
    <2>1. library' \in Versions \cup {None} /\ outcome' \in Outcomes
          /\ pending' = "None" /\ pc' = "ran"
      BY <1>5, RunCheckFacts DEF Analyse
    <2> QED BY <1>5, <2>1 DEF TypeOK, Analyse, world, shared, flags, thread
  <1>6. CASE CompleteRun
    BY <1>6 DEF TypeOK, CompleteRun, world, flags, runner, thread
  <1>7. CASE SeeShutdown \/ SeeInterrupt
    BY <1>7 DEF TypeOK, SeeShutdown, SeeInterrupt, Leave, world, shared, flags,
                runner, thread
  <1>8. CASE TakeExternal
    <2>1. changes' \subseteq FileKinds /\ pc' \in {"leaving", "collecting"}
      BY <1>8 DEF TypeOK, TakeExternal, Collect
    <2>2. externalDirty' \in BOOLEAN
      BY <1>8 DEF TakeExternal
    <2> QED
      BY <1>8, <2>1, <2>2 DEF TypeOK, TakeExternal, Collect, world, shared, flags, runner, thread
  <1>9. CASE TakeFsEvent
    <2>1. Head(fsEvents) \in FileKinds /\ fsEvents' \in Seq(FileKinds)
      BY <1>9 DEF TypeOK, TakeFsEvent
    <2>2. changes' \subseteq FileKinds /\ pc' \in {"leaving", "collecting"}
      BY <1>9, <2>1 DEF TypeOK, TakeFsEvent, Collect
    <2> QED
      BY <1>9, <2>1, <2>2
      DEF TypeOK, TakeFsEvent, Collect, world, shared, flags, runner, thread
  <1>10. CASE EndBurst
    BY <1>10 DEF TypeOK, EndBurst, world, flags, runner, thread
  <1>11. CASE StopEndpoint
    BY <1>11 DEF TypeOK, StopEndpoint, world, shared, flags, runner
  <1>12. CASE JoinServer
    BY <1>12 DEF TypeOK, JoinServer, world, shared, flags, runner, thread
  <1> QED
    BY <1>1, <1>2, <1>3, <1>4, <1>5, <1>6, <1>7, <1>8, <1>9, <1>10, <1>11, <1>12
    DEF LoopStep

LEMMA StepTyped == TypeOK /\ [Next]_vars => TypeOK'
  <1> SUFFICES ASSUME TypeOK, [Next]_vars PROVE TypeOK'
    OBVIOUS
  <1>1. CASE UNCHANGED vars
    BY <1>1 DEF vars, TypeOK
  <1>2. CASE Next
    BY <1>2, EnvironmentTyped, ServerTyped, LoopTyped DEF Next
  <1> QED BY <1>1, <1>2

\* Every reachable state of the host, its loop, its server and its clients has
\* the shape TypeOK describes.
THEOREM TypeCorrect == Spec => []TypeOK
  BY InitTyped, StepTyped, PTL DEF Spec

-----------------------------------------------------------------------------

\* The inductive strengthening of WaitedAnswerIsFresh holds initially ...
LEMMA InitInv == Init => IInv
  <1> SUFFICES ASSUME Init PROVE IInv
    OBVIOUS
  <1>1. TypeOK
    BY InitTyped
  <1>2. NeedIsComing /\ WaitedAnswerIsFresh
    BY DEF Init, NeedIsComing, Busy, WaitedAnswerIsFresh
  <1>3. IdleHasReport
    BY WarmHostAssumption DEF Init, IdleHasReport, Busy, StartModes
  <1> QED BY <1>1, <1>2, <1>3 DEF IInv

\* ... is preserved by a client's request, whose need is computed from the
\* snapshot it meets ...
LEMMA SendInv ==
    ASSUME IInv, NEW c \in Clients, NEW kind \in Requests, Send(c, kind)
    PROVE  NeedIsComing' /\ IdleHasReport' /\ WaitedAnswerIsFresh'
  <1>1. /\ client \in [Clients -> ClientRecords] /\ generation \in Nat
        /\ client' = [client EXCEPT ![c] = Asking(c, kind)]
        /\ UNCHANGED <<freshness, generation, report, pc, outcome>>
    BY DEF IInv, TypeOK, Send, shared, runner
  <1>2. /\ Asking(c, kind).need = IF Busy THEN generation + 1 ELSE generation
        /\ Asking(c, kind).phase \in {"sent", "failed"}
    BY <1>1 DEF Asking, ClientRecords
  <1>3. NeedIsComing'
    BY <1>1, <1>2 DEF IInv, NeedIsComing, Busy
  <1>4. WaitedAnswerIsFresh'
    BY <1>1, <1>2 DEF IInv, WaitedAnswerIsFresh
  <1> QED BY <1>1, <1>3, <1>4 DEF IInv, IdleHasReport, Busy

\* ... by the server thread, which answers a check only when the host is idle ...
LEMMA ServerInv ==
    ASSUME IInv, ServerStep
    PROVE  NeedIsComing' /\ IdleHasReport' /\ WaitedAnswerIsFresh'
  <1>0. client \in [Clients -> ClientRecords] /\ generation \in Nat
    BY DEF IInv, TypeOK
  <1>1. CASE Accept
    <2>1. \A c \in Clients : /\ client'[c].need = client[c].need
                             /\ client'[c] = client[c] \/ client'[c].phase = "failed"
      BY <1>0, <1>1 DEF Accept, ClientRecords
    <2>2. UNCHANGED <<freshness, generation, report, pc, outcome>>
      BY <1>1 DEF Accept, shared, runner
    <2> QED
      BY <2>1, <2>2 DEF IInv, NeedIsComing, IdleHasReport, WaitedAnswerIsFresh, Busy
  <1>2. ASSUME NEW c \in Clients, NEW with \in ClientRecords,
               client' = [client EXCEPT ![c] = with],
               with.need = client[c].need,
               \/ with.kind # "check"
               \/ with.answer # None /\ with.of >= with.need,
               UNCHANGED <<freshness, generation, report, pc, outcome>>
        PROVE  NeedIsComing' /\ IdleHasReport' /\ WaitedAnswerIsFresh'
    BY <1>0, <1>2 DEF IInv, NeedIsComing, IdleHasReport, WaitedAnswerIsFresh, Busy
  <1>3. ASSUME NEW c \in Clients,
               RejectOptions(c) \/ ShutdownInterrupts(c)
        PROVE  NeedIsComing' /\ IdleHasReport' /\ WaitedAnswerIsFresh'
    <2> DEFINE with == [client[c] EXCEPT !.phase = "answered"]
    <2>1. /\ with \in ClientRecords /\ with.need = client[c].need
          /\ with.kind = client[c].kind
      BY <1>0 DEF ClientRecords
    <2>2. /\ client[c].kind # "check"
          /\ client' = [client EXCEPT ![c] = with]
          /\ UNCHANGED <<freshness, generation, report, pc, outcome>>
      BY <1>3 DEF RejectOptions, ShutdownInterrupts, Handles, Reply, shared, runner
    <2> QED BY <1>2, <2>1, <2>2
  <1>4. ASSUME NEW c \in Clients, NotifyRaisesFlag(c)
        PROVE  NeedIsComing' /\ IdleHasReport' /\ WaitedAnswerIsFresh'
    <2> DEFINE with == [client[c] EXCEPT !.phase = "answered"]
    <2>1. client[c] \in ClientRecords
      BY <1>0 DEF IInv, TypeOK
    <2>2. /\ with \in ClientRecords /\ with.need = client[c].need
          /\ with.kind = client[c].kind
      BY <2>1 DEF ClientRecords
    <2>3. /\ client[c].kind # "check"
          /\ client' = [client EXCEPT ![c] = with]
          /\ UNCHANGED <<freshness, generation, report, pc, outcome>>
      BY <1>4 DEF NotifyRaisesFlag, Reply, shared, runner
    <2> QED BY <1>2, <2>2, <2>3
  <1>5. ASSUME NEW c \in Clients, AnswerCheck(c) \/ AnswerStatus(c)
        PROVE  NeedIsComing' /\ IdleHasReport' /\ WaitedAnswerIsFresh'
    <2> DEFINE with == [client[c] EXCEPT !.phase = "answered", !.answer = report,
                                         !.of = generation]
    <2>1. /\ client[c] \in ClientRecords /\ report \in Outcomes \cup {None}
          /\ generation \in Nat
      BY <1>0 DEF IInv, TypeOK
    <2>2. /\ with \in ClientRecords /\ with.need = client[c].need
          /\ with.kind = client[c].kind /\ with.answer = report
          /\ with.of = generation
      BY <2>1 DEF ClientRecords
    <2>3. /\ client' = [client EXCEPT ![c] = with]
          /\ UNCHANGED <<freshness, generation, report, pc, outcome>>
      BY <1>5 DEF AnswerCheck, AnswerStatus, Reply, shared, runner
    <2>4. client[c].kind = "check" => report # None /\ generation >= client[c].need
      BY <1>0, <1>5 DEF IInv, IdleHasReport, NeedIsComing, AnswerCheck, AnswerStatus,
                        Handles
    <2> QED BY <1>2, <2>2, <2>3, <2>4
  <1>6. ASSUME NEW c \in Clients, NotifyMarksDirty(c)
        PROVE  NeedIsComing' /\ IdleHasReport' /\ WaitedAnswerIsFresh'
    <2>1. /\ Busy'
          /\ UNCHANGED <<client, generation, report, pc, outcome>>
      BY <1>6 DEF NotifyMarksDirty, Busy, runner
    <2>2. NeedIsComing'
      BY <1>0, <2>1 DEF IInv, NeedIsComing, ClientRecords
    <2> QED BY <2>1, <2>2 DEF IInv, IdleHasReport, WaitedAnswerIsFresh
  <1>7. ASSUME NEW c \in Clients, ShutdownRequests(c)
        PROVE  NeedIsComing' /\ IdleHasReport' /\ WaitedAnswerIsFresh'
    BY <1>7 DEF ShutdownRequests, shared, runner, IInv, NeedIsComing, IdleHasReport,
                WaitedAnswerIsFresh, Busy
  <1> QED
    BY <1>1, <1>3, <1>4, <1>5, <1>6, <1>7 DEF ServerStep

\* ... and by the watch loop, whose complete_run is the only step that makes the
\* host idle and the only one that counts a generation.
LEMMA LoopInv ==
    ASSUME IInv, LoopStep \/ WatcherFails
    PROVE  NeedIsComing' /\ IdleHasReport' /\ WaitedAnswerIsFresh'
  <1>0. /\ client \in [Clients -> ClientRecords] /\ generation \in Nat
        /\ outcome \in Outcomes \cup {None}
    BY DEF IInv, TypeOK
  <1>1. CASE WarmUp \/ Analyse
    <2>1. /\ outcome' \in Outcomes
          /\ UNCHANGED <<client, freshness, generation, report>>
      BY <1>1, RunCheckFacts DEF IInv, WarmUp, Analyse, shared
    <2>2. outcome' # None
      BY <2>1, WarmHostAssumption DEF Outcomes, Versions
    <2> QED
      BY <2>1, <2>2 DEF IInv, NeedIsComing, IdleHasReport, WaitedAnswerIsFresh, Busy
  <1>2. CASE InitialRun \/ Rerun
    <2>1. /\ freshness' = "Running" /\ pc' = "running"
          /\ UNCHANGED <<client, generation, report>>
      BY <1>2 DEF InitialRun, Rerun, StartRun
    <2>2. NeedIsComing'
      BY <1>0, <2>1 DEF IInv, NeedIsComing, Busy, ClientRecords
    <2> QED BY <2>1, <2>2 DEF IInv, IdleHasReport, WaitedAnswerIsFresh, Busy
  <1>3. CASE CompleteRun
    <2>1. /\ generation' = generation + 1 /\ report' = outcome /\ pc' = "waiting"
          /\ UNCHANGED client /\ outcome # None
      BY <1>3 DEF CompleteRun, IInv, IdleHasReport
    <2>2. ~Busy'
      BY <1>3 DEF CompleteRun, Busy
    <2>3. NeedIsComing'
      BY <1>0, <2>1, <2>2 DEF IInv, NeedIsComing, ClientRecords
    <2> QED BY <2>1, <2>2, <2>3 DEF IInv, IdleHasReport, WaitedAnswerIsFresh
  <1>4. CASE EndBurst
    <2>1. /\ Busy' /\ pc' = "noted"
          /\ UNCHANGED <<client, generation, report>>
      BY <1>4 DEF EndBurst, Busy
    <2>2. NeedIsComing'
      BY <1>0, <2>1 DEF IInv, NeedIsComing, ClientRecords
    <2> QED BY <2>1, <2>2 DEF IInv, IdleHasReport, WaitedAnswerIsFresh
  <1>5. CASE \/ OpenEventSource \/ Bind \/ SeeShutdown \/ SeeInterrupt
             \/ WatcherFails \/ TakeExternal \/ TakeFsEvent
             \/ StopEndpoint \/ JoinServer
    <2>1. /\ pc' # "ran"
          /\ UNCHANGED <<client, freshness, generation, report>>
      BY <1>5 DEF OpenEventSource, Bind, SeeShutdown, SeeInterrupt, WatcherFails,
                  TakeExternal, TakeFsEvent, StopEndpoint, JoinServer, Collect,
                  Leave, shared
    <2> QED
      BY <2>1 DEF IInv, NeedIsComing, IdleHasReport, WaitedAnswerIsFresh, Busy
  <1> QED BY <1>1, <1>2, <1>3, <1>4, <1>5 DEF LoopStep

LEMMA StepInv == IInv /\ [Next]_vars => IInv'
  <1> SUFFICES ASSUME IInv, [Next]_vars PROVE IInv'
    OBVIOUS
  <1>1. TypeOK'
    BY StepTyped DEF IInv
  <1>2. NeedIsComing' /\ IdleHasReport' /\ WaitedAnswerIsFresh'
    <2>1. CASE \/ \E f \in Files : Edit(f)
               \/ CtrlC
               \/ UNCHANGED vars
      BY <2>1 DEF Edit, CtrlC, vars, shared, runner, IInv, NeedIsComing,
                  IdleHasReport, WaitedAnswerIsFresh, Busy
    <2> QED BY <2>1, SendInv, ServerInv, LoopInv DEF Next
  <1> QED BY <1>1, <1>2 DEF IInv

\* A check that waits for a fresh result gets one: the report of a run that
\* completed after it was sent if the host was dirty or running then, for any
\* number of clients, reruns and requests in any order.
THEOREM WaitedAnswerCorrect == Spec => []WaitedAnswerIsFresh
  <1>1. IInv => WaitedAnswerIsFresh
    BY DEF IInv
  <1> QED BY <1>1, InitInv, StepInv, PTL DEF Spec

-----------------------------------------------------------------------------
(* No save is lost.                                                        *)

\* The event source is older than the library, and reads do not fail: the two
\* cases in which the code does forget a change are left out.
EverySaveIsHeard == StartMode # "host" /\ ~IOFails

InQueue(f, q) == \E i \in 1..Len(q) : q[i] = f
Queued(f) == InQueue(f, fsEvents)
Heard(f) == Queued(f) \/ f \in changes

\* What the library is behind on is queued, in the burst, or pending.
LibraryFollows ==
    library # None =>
        /\ library.source = disk.source \/ Heard("source") \/ pending # "None"
        /\ library.manifest = disk.manifest \/ Heard("manifest") \/ pending = "FullReload"

\* A report, stored or about to be, lacks only what is still in the queue.
Current(r) ==
    /\ r # None /\ r.ok /\ r.saw \in Versions
    /\ \A f \in FileKinds : r.saw[f] = disk[f] \/ Queued(f)

HasOutcome == pc = "ran" \/ (pc \in {"watching", "bound"} /\ outcome # None)

ReportsFollow ==
    /\ HasOutcome => Current(outcome)
    /\ pc = "waiting" => Current(report)

\* A burst is collected between the first event and the run, and by a loop that
\* leaves; before there is an event source nothing was read.
BurstsAreRun ==
    /\ changes # {} => pc \in {"collecting", "noted", "leaving", "joining", "exited"}
    /\ ~Watching => pc = "cold"
    /\ pc \in {"cold", "watchingStandby"} => library = None /\ outcome = None

Follows == LibraryFollows /\ ReportsFollow /\ BurstsAreRun

FollowIInv == TypeOK /\ (EverySaveIsHeard => Follows)
-----------------------------------------------------------------------------

\* A save is found in the queue it was appended to ...
LEMMA AppendQueues ==
    ASSUME NEW q \in Seq(FileKinds), NEW g \in FileKinds
    PROVE  /\ InQueue(g, Append(q, g))
           /\ \A f : InQueue(f, q) => InQueue(f, Append(q, g))
  <1>1. /\ Len(Append(q, g)) = Len(q) + 1 /\ Len(q) \in Nat
        /\ Append(q, g)[Len(q) + 1] = g
        /\ \A i \in 1..Len(q) : Append(q, g)[i] = q[i]
    OBVIOUS
  <1>2. Len(q) + 1 \in 1..Len(Append(q, g))
    BY <1>1
  <1>3. \A i \in 1..Len(q) : i \in 1..Len(Append(q, g))
    BY <1>1
  <1> QED BY <1>1, <1>2, <1>3 DEF InQueue

\* ... and stays there until it is the one taken.
LEMMA TailQueues ==
    ASSUME NEW q \in Seq(FileKinds), q # <<>>, NEW f, InQueue(f, q), f # Head(q)
    PROVE  InQueue(f, Tail(q))
  <1>1. PICK i \in 1..Len(q) : q[i] = f
    BY DEF InQueue
  <1>2. Len(q) \in Nat /\ Head(q) = q[1] /\ Len(Tail(q)) = Len(q) - 1
    OBVIOUS
  <1>3. i # 1
    BY <1>1, <1>2
  <1>4. i - 1 \in 1..Len(Tail(q)) /\ Tail(q)[i - 1] = q[i]
    BY <1>2, <1>3
  <1> QED BY <1>1, <1>4 DEF InQueue

\* With an empty queue, a current report is of the files as they are.
LEMMA CurrentIsDisk ==
    ASSUME TypeOK, NEW r \in Outcomes, r # None, Current(r), fsEvents = <<>>
    PROVE  r.saw = disk
  <1>1. r.saw \in Versions \cup {None} /\ disk \in Versions
    BY DEF TypeOK, Outcomes
  <1>2. \A f \in FileKinds : r.saw[f] = disk[f]
    BY DEF Current, Queued, InQueue
  <1> QED BY <1>1, <1>2 DEF Versions, Current

-----------------------------------------------------------------------------

\* At first nothing was read.
LEMMA InitFollows == Init => FollowIInv
  <1> SUFFICES ASSUME Init PROVE FollowIInv
    OBVIOUS
  <1>1. TypeOK
    BY InitTyped
  <1>2. EverySaveIsHeard => pc \in {"cold", "watchingStandby"}
    BY WarmHostAssumption DEF Init, StartModes, EverySaveIsHeard
  <1>3. library = None /\ outcome = None /\ changes = {}
    BY DEF Init
  <1> QED
    BY <1>1, <1>2, <1>3
    DEF FollowIInv, Follows, LibraryFollows, ReportsFollow, BurstsAreRun, HasOutcome, Watching

\* A save changes one file and is heard, unless nothing was read yet ...
LEMMA EditFollows ==
    ASSUME TypeOK, Follows, NEW f \in Files, Edit(f)
    PROVE  Follows'
  <1>1. /\ f \in FileKinds /\ disk \in Versions /\ fsEvents \in Seq(FileKinds)
        /\ disk' = [disk EXCEPT ![f] = @ + 1]
        /\ UNCHANGED <<pc, changes, pending, library, outcome, report>>
    BY WarmHostAssumption DEF TypeOK, Edit, shared, runner
  <1>2. CASE ~Watching
    BY <1>1, <1>2
    DEF Follows, LibraryFollows, ReportsFollow, BurstsAreRun, HasOutcome, Watching
  <1>3. CASE Watching
    <2>1. fsEvents' = Append(fsEvents, f)
      BY <1>3 DEF Edit
    <2>2. Queued(f)' /\ \A g : Queued(g) => Queued(g)'
      BY <1>1, <2>1, AppendQueues DEF Queued
    <2>3. \A g \in FileKinds : disk'[g] = disk[g] \/ Queued(g)'
      BY <1>1, <2>2 DEF Versions
    <2>4. LibraryFollows'
      BY <1>1, <2>2, <2>3 DEF Follows, LibraryFollows, Heard, FileKinds
    <2>5. ASSUME NEW r, Current(r)
          PROVE  /\ r # None /\ r.ok /\ r.saw \in Versions
                 /\ \A g \in FileKinds : r.saw[g] = disk'[g] \/ Queued(g)'
      BY <2>2, <2>3, <2>5 DEF Current
    <2>6. ReportsFollow'
      BY <1>1, <2>5 DEF Follows, ReportsFollow, HasOutcome, Current
    <2> QED BY <1>1, <2>4, <2>6 DEF Follows, BurstsAreRun, Watching
  <1> QED BY <1>2, <1>3

\* ... and whatever is neither saved, taken nor read leaves all this alone.
LEMMA RestFollows ==
    ASSUME Follows,
           UNCHANGED <<disk, fsEvents, changes, pending, library, outcome, report>>,
           \/ pc' = pc
           \/ pc' \in {"noted", "leaving", "joining", "exited"} /\ Watching
           \/ pc = "cold" /\ pc' = "watching"
           \/ pc = "watching" /\ pc' = "bound"
    PROVE  Follows'
  <1>1. LibraryFollows'
    BY DEF Follows, LibraryFollows, Heard, Queued
  <1>2. ReportsFollow'
    BY DEF Follows, ReportsFollow, BurstsAreRun, HasOutcome, Current, Queued
  <1>3. BurstsAreRun'
    BY DEF Follows, BurstsAreRun, Watching
  <1> QED BY <1>1, <1>2, <1>3 DEF Follows

\* What is taken from the queue is in the burst ...
LEMMA TakeFollows ==
    ASSUME TypeOK, Follows, TakeExternal \/ TakeFsEvent
    PROVE  Follows'
  <1>1. /\ pc \in {"waiting", "collecting"} /\ pc' \in {"leaving", "collecting"}
        /\ UNCHANGED <<disk, pending, library, outcome, report>>
    BY DEF TakeExternal, TakeFsEvent, Collect, world, shared, runner
  <1>2. \A f \in FileKinds : Heard(f) => Heard(f)'
    <2>1. CASE TakeExternal
      BY <2>1 DEF TakeExternal, Collect, Heard, Queued
    <2>2. CASE TakeFsEvent
      <3>1. /\ fsEvents \in Seq(FileKinds) /\ fsEvents # <<>>
            /\ fsEvents' = Tail(fsEvents)
            /\ changes' = changes \cup {Head(fsEvents)}
        BY <2>2 DEF TypeOK, TakeFsEvent, Collect
      <3> QED BY <3>1, TailQueues DEF Heard, Queued
    <2> QED BY <2>1, <2>2
  <1>3. LibraryFollows'
    BY <1>1, <1>2 DEF Follows, LibraryFollows, FileKinds
  <1>4. ReportsFollow' /\ BurstsAreRun'
    BY <1>1 DEF ReportsFollow, HasOutcome, BurstsAreRun, Watching
  <1> QED BY <1>3, <1>4 DEF Follows

\* ... a run begins by noting what to read for it ...
LEMMA RunFollows ==
    ASSUME TypeOK, Follows, InitialRun \/ Rerun
    PROVE  Follows'
  <1>1. /\ pc' = "running" /\ changes' = {} /\ pending' = Recorded(pending, changes)
        /\ pc \notin {"cold", "watchingStandby"}
        /\ UNCHANGED <<disk, fsEvents, library>>
    BY DEF InitialRun, Rerun, StartRun, world
  <1>2. /\ "source" \in changes \/ pending # "None" => pending' # "None"
        /\ "manifest" \in changes \/ pending = "FullReload" => pending' = "FullReload"
    BY <1>1 DEF TypeOK, Recorded
  <1>3. LibraryFollows'
    BY <1>1, <1>2 DEF Follows, LibraryFollows, Heard, Queued
  <1> QED BY <1>1, <1>3 DEF Follows, ReportsFollow, HasOutcome, BurstsAreRun, Watching

\* ... the analysis reads it, and the policy in any case ...
LEMMA ReadFollows ==
    ASSUME TypeOK, EverySaveIsHeard, Follows, WarmUp \/ Analyse
    PROVE  Follows'
  <1> DEFINE refreshed ==
        IF library = None \/ pending = "FullReload" THEN disk
        ELSE IF pending = "Incremental"
             THEN [library EXCEPT !.source = disk.source]
             ELSE library
  <1>1. /\ library' = refreshed
        /\ outcome' = [ok |-> TRUE, saw |-> [refreshed EXCEPT !.policy = disk.policy]]
        /\ pending' = "None"
        /\ pc' \in {"watching", "ran"}
    BY DEF EverySaveIsHeard, Follows, BurstsAreRun, Watching, WarmUp, Analyse, RunCheck
  <1>2. /\ pc \in {"watchingStandby", "running"} /\ changes = {}
        /\ UNCHANGED <<disk, fsEvents, changes>>
    BY DEF Follows, BurstsAreRun, Watching, WarmUp, Analyse, world
  <1>3. /\ disk \in Versions /\ library \in Versions \cup {None}
        /\ pending \in {"None", "Incremental", "FullReload"}
    BY DEF TypeOK
  <1>4. refreshed \in Versions
    BY <1>3 DEF Versions, FileKinds
  <1>5. /\ refreshed["source"] = disk["source"] \/ Queued("source")
        /\ refreshed["manifest"] = disk["manifest"] \/ Queued("manifest")
    BY <1>2, <1>3 DEF Follows, LibraryFollows, Heard, Versions, FileKinds
  <1>6. /\ outcome'.ok /\ outcome'.saw \in Versions
        /\ \A f \in FileKinds : outcome'.saw[f] = disk[f] \/ Queued(f)
    BY <1>1, <1>3, <1>4, <1>5 DEF Versions, FileKinds
  <1>7. outcome' # None
    BY <1>1, <1>4, <1>6, WarmHostAssumption, RunCheckFacts
    DEF WarmUp, Analyse, Outcomes, Versions
  <1>8. Current(outcome)'
    BY <1>2, <1>6, <1>7 DEF Current, Queued
  <1>9. LibraryFollows'
    BY <1>1, <1>2, <1>5 DEF LibraryFollows, Heard, Queued
  <1>10. BurstsAreRun'
    BY <1>1, <1>2 DEF BurstsAreRun, Watching
  <1> QED BY <1>1, <1>8, <1>9, <1>10 DEF Follows, ReportsFollow

\* ... and what it found becomes the report.
LEMMA CompleteFollows ==
    ASSUME Follows, CompleteRun
    PROVE  Follows'
  <1>1. /\ HasOutcome /\ report' = outcome /\ pc' = "waiting"
        /\ pc \in {"ran", "bound"}
        /\ UNCHANGED <<disk, fsEvents, changes, pending, library, outcome>>
    BY DEF CompleteRun, HasOutcome, world, runner
  <1>2. LibraryFollows'
    BY <1>1 DEF Follows, LibraryFollows, Heard, Queued
  <1>3. Current(report)'
    BY <1>1 DEF Follows, ReportsFollow, Current, Queued
  <1> QED
    BY <1>1, <1>2, <1>3 DEF Follows, ReportsFollow, HasOutcome, BurstsAreRun, Watching

LEMMA NextFollows == FollowIInv /\ [Next]_vars => FollowIInv'
  <1> SUFFICES ASSUME FollowIInv, [Next]_vars PROVE FollowIInv'
    OBVIOUS
  <1>1. TypeOK /\ TypeOK'
    BY StepTyped DEF FollowIInv
  <1> SUFFICES ASSUME EverySaveIsHeard PROVE Follows'
    BY <1>1 DEF FollowIInv, EverySaveIsHeard
  <1>2. Follows
    BY DEF FollowIInv
  <1>3. CASE \E f \in Files : Edit(f)
    BY <1>1, <1>2, <1>3, EditFollows
  <1>4. CASE TakeExternal \/ TakeFsEvent
    BY <1>1, <1>2, <1>4, TakeFollows
  <1>5. CASE InitialRun \/ Rerun
    BY <1>1, <1>2, <1>5, RunFollows
  <1>6. CASE WarmUp \/ Analyse
    BY <1>1, <1>2, <1>6, ReadFollows
  <1>7. CASE CompleteRun
    BY <1>2, <1>7, CompleteFollows
  <1>8. CASE \/ CtrlC \/ ServerStep \/ UNCHANGED vars
             \/ \E c \in Clients, kind \in Requests : Send(c, kind)
    <2>1. UNCHANGED <<disk, fsEvents, changes, pending, library, outcome, report, pc>>
      BY <1>8 DEF CtrlC, Send, ServerStep, Accept, RejectOptions, AnswerCheck, AnswerStatus,
                  NotifyMarksDirty, NotifyRaisesFlag, ShutdownRequests, ShutdownInterrupts,
                  vars, world, shared, runner
    <2> QED BY <1>2, <2>1, RestFollows
  <1>9. CASE \/ OpenEventSource \/ Bind \/ SeeShutdown \/ SeeInterrupt \/ WatcherFails
             \/ EndBurst \/ StopEndpoint \/ JoinServer
    <2>1. UNCHANGED <<disk, fsEvents, changes, pending, library, outcome, report>>
      BY <1>9 DEF OpenEventSource, Bind, SeeShutdown, SeeInterrupt, WatcherFails, Leave,
                  EndBurst, StopEndpoint, JoinServer, world, shared, runner
    <2>2. \/ pc' \in {"noted", "leaving", "joining", "exited"} /\ Watching
          \/ pc = "cold" /\ pc' = "watching"
          \/ pc = "watching" /\ pc' = "bound"
      BY <1>2, <1>9
      DEF Follows, BurstsAreRun, OpenEventSource, Bind, SeeShutdown, SeeInterrupt,
          WatcherFails, Leave, EndBurst, StopEndpoint, JoinServer, Watching
    <2> QED BY <1>2, <2>1, <2>2, RestFollows
  <1> QED BY <1>3, <1>4, <1>5, <1>6, <1>7, <1>8, <1>9 DEF Next, LoopStep

\* What an idle host hands out was computed from the files as they are, for any
\* interleaving of saves with the debounce window, the noting of a burst and the
\* reading of the files, if the event source was there before the warm-up's read
\* and reads do not fail.  (The code starts a host the other way round, and
\* forgets what a failed read was to read: both are counterexamples without this
\* hypothesis.)
THEOREM IdleReportCorrect == Spec => [](EverySaveIsHeard => IdleReportReflectsDisk)
  <1>1. FollowIInv => (EverySaveIsHeard => IdleReportReflectsDisk)
    <2> SUFFICES ASSUME FollowIInv, EverySaveIsHeard, pc = "waiting", fsEvents = <<>>
                 PROVE  report.saw = disk
      BY DEF IdleReportReflectsDisk
    <2>1. TypeOK /\ Current(report)
      BY DEF FollowIInv, Follows, ReportsFollow
    <2>2. report \in Outcomes /\ report # None
      BY <2>1 DEF TypeOK, Current
    <2> QED BY <2>1, <2>2, CurrentIsDisk
  <1> QED BY <1>1, InitFollows, NextFollows, PTL DEF Spec

=============================================================================
