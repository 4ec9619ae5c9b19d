------------------------------ MODULE WarmHost ------------------------------
(***************************************************************************)
(* One process of `cargo xtask architecture host` (or `check --watch`)     *)
(* once it is the leader: xtask/src/architecture/{host,watch,boundaries}.  *)
(*                                                                         *)
(* Three kinds of actors share the state of SharedHostState:               *)
(*   - the watch loop thread, which reruns the boundaries check when files *)
(*     change or when a client says so (watch.rs, boundaries.rs);          *)
(*   - the socket server thread, which serves ONE connection at a time     *)
(*     (host.rs, spawn_unix_host_server and handle_request);               *)
(*   - clients, which connect, send one request and read one response.     *)
(* The environment edits files, presses Ctrl-C and makes I/O fail.         *)
(*                                                                         *)
(* A file's content is its version, so a report is what it was computed    *)
(* from: the versions the warm library and the policy file had.            *)
(***************************************************************************)
EXTENDS Naturals, Sequences

CONSTANTS
    Clients,        \* processes that may send requests
    Requests,       \* the kinds of request they send, a subset of RequestKinds
    Files,          \* the kinds of file edited, a subset of FileKinds
    StartMode,      \* how this process became the leader, one of StartModes
    None,           \* Option::None, for reports, libraries and outcomes
    IOFails,        \* whether reads of the sources and of the watcher may fail
    MaxEdits,       \* bound: edits made to the files
    MaxRequests     \* bound: requests sent by all the clients

RequestKinds == {"check", "otherOptions", "status", "notify", "shutdown"}
FileKinds == {"source", "manifest", "policy"}
StartModes == {"host", "standby", "watch"}

ASSUME WarmHostAssumption ==
    /\ Requests \subseteq RequestKinds
    /\ Files \subseteq FileKinds
    /\ StartMode \in StartModes
    /\ IOFails \in BOOLEAN
    /\ MaxEdits \in Nat
    /\ MaxRequests \in Nat
    /\ None \notin Clients
    /\ None \notin [FileKinds -> Nat]
    /\ None \notin [ok: BOOLEAN, saw: [FileKinds -> Nat] \cup {None}]

VARIABLES
    disk,           \* the version of each file
    fsEvents,       \* the notify channel: files changed, not yet received
    edits, sent,    \* how many edits and requests were made (bounded)
    \* SharedHostSnapshot and the flags beside it
    freshness,
    generation,
    report,         \* last_report and last_graph
    externalDirty,
    shutdownRequested,
    interrupted,
    \* the watch loop thread
    pc,
    changes,        \* the burst collected so far
    pending,        \* SemanticBoundariesContext.pending_refresh
    library,        \* SemanticBoundariesContext.library
    outcome,        \* what the run under way will report
    \* the server thread
    server,
    serving,
    backlog,        \* connections accepted by the kernel, not by the thread
    endpointDown,   \* the endpoint's own shutdown flag
    \* the clients
    client

world   == <<disk, edits>>
shared  == <<freshness, generation, report>>
flags   == <<shutdownRequested, interrupted>>
runner  == <<pending, library, outcome>>
thread  == <<server, serving, endpointDown>>
vars == <<disk, edits, fsEvents, sent, freshness, generation, report,
          externalDirty, shutdownRequested, interrupted, pc, changes, pending,
          library, outcome, server, serving, backlog, endpointDown, client>>

-----------------------------------------------------------------------------

Versions == [FileKinds -> Nat]
Outcomes == [ok: BOOLEAN, saw: Versions \cup {None}]

\* The slip of not waiting for a run that has already begun.
BusyIsDirtyOnly == freshness = "Dirty"

\* Freshness in which a check that waits for a fresh result keeps waiting.
Busy == freshness \in {"Dirty", "Running"}

\* What a client knows: `need` is the first generation that counts as fresh for
\* the request it sent, `answer` and `of` the report it got and its generation.
ClientRecords ==
    [phase: {"idle", "sent", "answered", "failed"}, kind: RequestKinds,
     need: Nat, answer: Outcomes \cup {None}, of: Nat]

Idle(c) == client[c].phase # "sent"

Init ==
    /\ disk = [f \in FileKinds |-> 0]
    /\ fsEvents = <<>>
    /\ edits = 0
    /\ sent = 0
    /\ freshness = "Dirty"
    /\ generation = 0
    /\ report = None
    /\ externalDirty = FALSE
    /\ shutdownRequested = FALSE
    /\ interrupted = FALSE
    /\ pc = CASE StartMode = "host"    -> "warming"
              [] StartMode = "standby" -> "watchingStandby"
              [] StartMode = "watch"   -> "cold"
    /\ changes = {}
    /\ pending = "None"
    /\ library = None
    /\ outcome = None
    /\ server = "unbound"
    /\ serving = None
    /\ backlog = <<>>
    /\ endpointDown = FALSE
    /\ client = [c \in Clients |->
                   [phase |-> "idle", kind |-> "status", need |-> 0,
                    answer |-> None, of |-> 0]]

-----------------------------------------------------------------------------
(* The environment.                                                        *)

\* The recursive watcher exists in this process.
Watching == pc \notin {"warming", "warmed", "cold"}

\* The slip of queueing the event's list of paths for the path.
EditQueuesPathList(f) ==
    /\ edits < MaxEdits
    /\ pc # "exited"
    /\ edits' = edits + 1
    /\ disk' = [disk EXCEPT ![f] = @ + 1]
    /\ fsEvents' = IF Watching THEN Append(fsEvents, <<f>>) ELSE fsEvents
    /\ UNCHANGED <<sent, shared, externalDirty, flags, pc, changes, runner,
                   thread, backlog, client>>

\* Someone saves a file; the watcher, once there is one, queues the event.
Edit(f) ==
    /\ edits < MaxEdits
    /\ pc # "exited"
    /\ edits' = edits + 1
    /\ disk' = [disk EXCEPT ![f] = @ + 1]
    /\ fsEvents' = IF Watching THEN Append(fsEvents, f) ELSE fsEvents
    /\ UNCHANGED <<sent, shared, externalDirty, flags, pc, changes, runner,
                   thread, backlog, client>>

\* Ctrl-C: the handler only raises the flag the event source polls.
CtrlC ==
    /\ Watching
    /\ ~interrupted
    /\ interrupted' = TRUE
    /\ UNCHANGED <<world, fsEvents, sent, shared, externalDirty, pc, changes,
                   shutdownRequested, runner, thread, backlog, client>>

\* A client connects and writes its request.  Once the listener is gone the
\* connection is refused and the client runs its check locally.
Asking(c, kind) ==
    [client[c] EXCEPT !.phase = IF server = "stopped" THEN "failed" ELSE "sent",
                      !.kind = kind,
                      !.need = IF Busy THEN generation + 1 ELSE generation,
                      !.answer = None]

Send(c, kind) ==
    /\ server # "unbound"
    /\ Idle(c)
    /\ sent < MaxRequests
    /\ sent' = sent + 1
    /\ client' = [client EXCEPT ![c] = Asking(c, kind)]
    /\ backlog' = IF server = "stopped" THEN backlog ELSE Append(backlog, c)
    /\ UNCHANGED <<world, fsEvents, shared, externalDirty, flags, pc, changes,
                   runner, thread>>

-----------------------------------------------------------------------------
(* The server thread: host.rs spawn_unix_host_server, handle_request.      *)

\* The endpoint's flag is looked at after every accept; leaving the loop drops
\* the listener, and with it every connection still in the backlog.  When the
\* flag is up, cleanup() itself has connected, so accept() returns.
Accept ==
    /\ server = "accepting"
    /\ backlog # <<>> \/ endpointDown
    /\ IF endpointDown
       THEN /\ server' = "stopped"
            /\ backlog' = <<>>
            /\ client' = [c \in Clients |->
                            IF Idle(c) THEN client[c]
                                       ELSE [client[c] EXCEPT !.phase = "failed"]]
            /\ UNCHANGED serving
       ELSE /\ server' = "handling"
            /\ serving' = Head(backlog)
            /\ backlog' = Tail(backlog)
            /\ UNCHANGED client
    /\ UNCHANGED <<world, fsEvents, sent, shared, externalDirty, flags, pc,
                   changes, runner, endpointDown>>

\* The response reaches the client and the thread goes back to accept().
Reply(c, with) ==
    /\ server' = "accepting"
    /\ serving' = None
    /\ client' = [client EXCEPT ![c] = with]
    /\ UNCHANGED endpointDown

Handles(c, kind) ==
    /\ server = "handling"
    /\ serving = c
    /\ client[c].kind = kind

\* Check, with options other than the host's: Error { retry_locally }.
RejectOptions(c) ==
    /\ Handles(c, "otherOptions")
    /\ Reply(c, [client[c] EXCEPT !.phase = "answered"])
    /\ UNCHANGED <<world, fsEvents, sent, shared, externalDirty, flags, pc,
                   changes, runner, backlog>>

\* The slip of waiting for a clean result.
AnswerCheckWhenClean(c) ==
    /\ Handles(c, "check")
    /\ freshness = "IdleClean"
    /\ Reply(c, [client[c] EXCEPT !.phase = "answered", !.answer = report,
                                  !.of = generation])
    /\ UNCHANGED <<world, fsEvents, sent, shared, externalDirty, flags, pc,
                   changes, runner, backlog>>

\* Check { wait_for_fresh: true }: the condition variable is waited on while
\* the snapshot is Dirty or Running, whoever else is in the backlog and
\* whether or not a shutdown was requested.
AnswerCheck(c) ==
    /\ Handles(c, "check")
    /\ ~Busy
    /\ Reply(c, [client[c] EXCEPT !.phase = "answered", !.answer = report,
                                  !.of = generation])
    /\ UNCHANGED <<world, fsEvents, sent, shared, externalDirty, flags, pc,
                   changes, runner, backlog>>

\* Status and Graph read the snapshot as it is.
AnswerStatus(c) ==
    /\ Handles(c, "status")
    /\ Reply(c, [client[c] EXCEPT !.phase = "answered", !.answer = report,
                                  !.of = generation])
    /\ UNCHANGED <<world, fsEvents, sent, shared, externalDirty, flags, pc,
                   changes, runner, backlog>>

\* note_dirty_external, its two steps: the snapshot under its mutex ...
NotifyMarksDirty(c) ==
    /\ Handles(c, "notify")
    /\ server' = "raising"
    /\ freshness' = IF freshness = "Running" THEN freshness ELSE "Dirty"
    /\ UNCHANGED <<world, fsEvents, sent, generation, report, externalDirty,
                   flags, pc, changes, runner, serving, endpointDown, backlog,
                   client>>

\* The slip of leaving the wake-up to the watch loop's own change detection.
NotifyRaisesNoFlag(c) ==
    /\ server = "raising"
    /\ serving = c
    /\ client[c].kind = "notify"
    /\ Reply(c, [client[c] EXCEPT !.phase = "answered"])
    /\ UNCHANGED <<world, fsEvents, sent, shared, externalDirty, flags, pc,
                   changes, runner, backlog>>

\* ... then the flag the event source polls, and the acknowledgement.
NotifyRaisesFlag(c) ==
    /\ server = "raising"
    /\ serving = c
    /\ client[c].kind = "notify"
    /\ externalDirty' = TRUE
    /\ Reply(c, [client[c] EXCEPT !.phase = "answered"])
    /\ UNCHANGED <<world, fsEvents, sent, shared, flags, pc, changes, runner,
                   backlog>>

\* Shutdown: one flag for the loop's own test, then one for its event source.
ShutdownRequests(c) ==
    /\ Handles(c, "shutdown")
    /\ server' = "raising"
    /\ shutdownRequested' = TRUE
    /\ UNCHANGED <<world, fsEvents, sent, shared, externalDirty, interrupted,
                   pc, changes, runner, serving, endpointDown, backlog, client>>

ShutdownInterrupts(c) ==
    /\ server = "raising"
    /\ serving = c
    /\ client[c].kind = "shutdown"
    /\ interrupted' = TRUE
    /\ Reply(c, [client[c] EXCEPT !.phase = "answered"])
    /\ UNCHANGED <<world, fsEvents, sent, shared, externalDirty, pc, changes,
                   shutdownRequested, runner, backlog>>

ServerStep ==
    \/ Accept
    \/ \E c \in Clients :
         \/ RejectOptions(c)
         \/ AnswerCheck(c)
         \/ AnswerStatus(c)
         \/ NotifyMarksDirty(c)
         \/ NotifyRaisesFlag(c)
         \/ ShutdownRequests(c)
         \/ ShutdownInterrupts(c)

-----------------------------------------------------------------------------
(* The watch loop thread: watch.rs and SemanticBoundariesContext.          *)

\* The slip of letting a source change replace a pending full reload.
RecordedLastKind(was, burst) ==
    IF "source" \in burst THEN "Incremental"
    ELSE IF "manifest" \in burst THEN "FullReload"
    ELSE was

\* record_changes: what a burst leaves for the next load_library to do.
Recorded(was, burst) ==
    IF was = "FullReload" \/ "manifest" \in burst THEN "FullReload"
    ELSE IF was = "Incremental" \/ "source" \in burst THEN "Incremental"
    ELSE "None"

\* load_library takes the pending refresh, then reloads everything, reads the
\* changed sources again, or keeps the library it has; the policy file is read
\* on every run.  A failure reports no graph and keeps the library: what was
\* pending has been taken and is forgotten.
RunCheck(next) ==
    \E ok \in (IF IOFails THEN BOOLEAN ELSE {TRUE}) :
        LET refreshed ==
              IF ~ok THEN library
              ELSE IF library = None \/ pending = "FullReload" THEN disk
              ELSE IF pending = "Incremental"
                   THEN [library EXCEPT !.source = disk.source]
                   ELSE library
        IN  /\ library' = refreshed
            /\ pending' = "None"
            /\ outcome' = [ok  |-> ok,
                           saw |-> IF ok THEN [refreshed EXCEPT !.policy = disk.policy]
                                         ELSE None]
            /\ pc' = next

\* run_host warms up before run_interactive_with_warm_result creates the event
\* source; a promoted standby warms up with the event source it already had.
WarmUp ==
    /\ \/ pc = "warming" /\ RunCheck("warmed")
       \/ pc = "watchingStandby" /\ RunCheck("watching")
    /\ UNCHANGED <<world, fsEvents, sent, shared, externalDirty, flags, changes,
                   thread, backlog, client>>

OpenEventSource ==
    /\ pc \in {"warmed", "cold"}
    /\ pc' = "watching"
    /\ UNCHANGED <<world, fsEvents, sent, shared, externalDirty, flags, changes,
                   runner, thread, backlog, client>>

\* start_watch_host: bind the socket and spawn the server thread.
Bind ==
    /\ pc = "watching"
    /\ pc' = "bound"
    /\ server' = "accepting"
    /\ UNCHANGED <<world, fsEvents, sent, shared, externalDirty, flags, changes,
                   runner, serving, endpointDown, backlog, client>>

\* begin_run, then record_changes inside run_once.
StartRun ==
    /\ freshness' = "Running"
    /\ pending' = Recorded(pending, changes)
    /\ changes' = {}
    /\ pc' = "running"
    /\ UNCHANGED <<world, fsEvents, sent, generation, report, externalDirty,
                   flags, library, outcome, thread, backlog, client>>

InitialRun == pc = "bound" /\ outcome = None /\ StartRun

Rerun == pc = "noted" /\ StartRun

Analyse ==
    /\ pc = "running"
    /\ RunCheck("ran")
    /\ UNCHANGED <<world, fsEvents, sent, shared, externalDirty, flags, changes,
                   thread, backlog, client>>

\* complete_run, for the warm-up's outcome or for the run just made.  Whether
\* the boundaries hold is the files' business: both verdicts are possible.
CompleteRun ==
    /\ pc = "ran" \/ (pc = "bound" /\ outcome # None)
    /\ \E clean \in BOOLEAN :
         freshness' = IF clean /\ outcome.ok THEN "IdleClean" ELSE "IdleFailed"
    /\ generation' = generation + 1
    /\ report' = outcome
    /\ pc' = "waiting"
    /\ UNCHANGED <<world, fsEvents, sent, externalDirty, flags, changes, runner,
                   thread, backlog, client>>

Leave ==
    /\ pc' = "leaving"
    /\ UNCHANGED <<world, sent, shared, flags, runner, thread, backlog, client>>

\* The test at the top of the loop.
SeeShutdown ==
    /\ pc = "waiting"
    /\ shutdownRequested
    /\ Leave
    /\ UNCHANGED <<fsEvents, externalDirty, changes>>

\* next_event looks at the interrupt flag before anything else, on the first
\* event and inside the debounce window alike; a burst under way is dropped.
SeeInterrupt ==
    /\ pc \in {"waiting", "collecting"}
    /\ interrupted
    /\ Leave
    /\ UNCHANGED <<fsEvents, externalDirty, changes>>

\* `source.recv()?`, and the watcher's channel closing.
WatcherFails ==
    /\ IOFails
    /\ pc \in {"waiting", "collecting"}
    /\ Leave
    /\ UNCHANGED <<fsEvents, externalDirty, changes>>

\* After the first event of a burst the loop tests for a shutdown once more,
\* and gives up the event it just took.
Collect(burst) ==
    /\ pc \in {"waiting", "collecting"}
    /\ changes' = changes \cup burst
    /\ pc' = IF pc = "waiting" /\ shutdownRequested THEN "leaving" ELSE "collecting"
    /\ UNCHANGED <<world, sent, shared, flags, runner, thread, backlog, client>>

\* external_dirty.swap(false), right after the test of the interrupt flag: an
\* event that carries no path.
TakeExternal ==
    /\ ~interrupted
    /\ externalDirty
    /\ externalDirty' = FALSE
    /\ Collect({})
    /\ UNCHANGED fsEvents

\* Either flag may go up while the loop is inside the channel's recv_timeout,
\* so a file event can be returned although they are set.
TakeFsEvent ==
    /\ fsEvents # <<>>
    /\ fsEvents' = Tail(fsEvents)
    /\ Collect({Head(fsEvents)})
    /\ UNCHANGED externalDirty

\* The debounce window is over: note_dirty.
EndBurst ==
    /\ pc = "collecting"
    /\ freshness' = IF freshness = "Running" THEN freshness ELSE "Dirty"
    /\ pc' = "noted"
    /\ UNCHANGED <<world, fsEvents, sent, generation, report, externalDirty,
                   flags, changes, runner, thread, backlog, client>>

\* endpoint.cleanup(): raise the endpoint's flag, connect to wake accept() ...
StopEndpoint ==
    /\ pc = "leaving"
    /\ endpointDown' = TRUE
    /\ pc' = "joining"
    /\ UNCHANGED <<world, fsEvents, sent, shared, externalDirty, flags, changes,
                   runner, server, serving, backlog, client>>

\* ... and join the server thread, which may be inside handle_request.
JoinServer ==
    /\ pc = "joining"
    /\ server = "stopped"
    /\ pc' = "exited"
    /\ UNCHANGED <<world, fsEvents, sent, shared, externalDirty, flags, changes,
                   runner, thread, backlog, client>>

\* Steps the loop takes once it is running, in the order of its code.
LoopStep ==
    \/ WarmUp
    \/ OpenEventSource
    \/ Bind
    \/ InitialRun
    \/ Rerun
    \/ Analyse
    \/ CompleteRun
    \/ SeeShutdown
    \/ SeeInterrupt
    \/ TakeExternal
    \/ TakeFsEvent
    \/ EndBurst
    \/ StopEndpoint
    \/ JoinServer

-----------------------------------------------------------------------------

Next ==
    \/ \E f \in Files : Edit(f)
    \/ CtrlC
    \/ \E c \in Clients, kind \in Requests : Send(c, kind)
    \/ ServerStep
    \/ LoopStep
    \/ WatcherFails

Spec == Init /\ [][Next]_vars

\* Threads are scheduled: a thread that can take a step eventually takes one.
\* Edits, Ctrl-C, requests and failures need never happen.
FairSpec == Spec /\ WF_vars(LoopStep) /\ WF_vars(ServerStep)

-----------------------------------------------------------------------------
(* Properties.                                                             *)

TypeOK ==
    /\ disk \in Versions
    /\ edits \in 0..MaxEdits
    /\ fsEvents \in Seq(FileKinds)
    /\ sent \in 0..MaxRequests
    /\ freshness \in {"IdleClean", "Dirty", "Running", "IdleFailed"}
    /\ generation \in Nat
    /\ report \in Outcomes \cup {None}
    /\ externalDirty \in BOOLEAN
    /\ shutdownRequested \in BOOLEAN
    /\ interrupted \in BOOLEAN
    /\ pc \in {"warming", "warmed", "cold", "watchingStandby", "watching", "bound",
               "running", "ran", "waiting", "collecting", "noted", "leaving",
               "joining", "exited"}
    /\ changes \subseteq FileKinds
    /\ pending \in {"None", "Incremental", "FullReload"}
    /\ library \in Versions \cup {None}
    /\ outcome \in Outcomes \cup {None}
    /\ server \in {"unbound", "accepting", "handling", "raising", "stopped"}
    /\ serving \in Clients \cup {None}
    /\ backlog \in Seq(Clients)
    /\ endpointDown \in BOOLEAN
    /\ client \in [Clients -> ClientRecords]

\* A check that waits for a fresh result is answered with one: the report of
\* a run that completed after the request was sent, whenever the host was dirty
\* or running at that moment, and never "no completed result yet".  This is
\* what check_request_waits_for_rerun_when_host_is_dirty tests for one thread,
\* here with reruns, notifications and shutdowns between the two.
WaitedAnswerIsFresh ==
    \A c \in Clients :
        client[c].phase = "answered" /\ client[c].kind = "check" =>
            /\ client[c].answer # None
            /\ client[c].of >= client[c].need

\* When the loop is back in recv() with no file event queued, the report it
\* hands out was computed from the files as they are: no interleaving of saves
\* with the debounce window, with record_changes or with the reading of the
\* sources loses a change, and a warm library never answers for old files.
IdleReportReflectsDisk ==
    pc = "waiting" /\ fsEvents = <<>> /\ report.ok => report.saw = disk

\* The host has been told to stop, or its loop has left on its own.
Stopping ==
    \/ interrupted \/ shutdownRequested
    \/ pc \in {"leaving", "joining", "exited"}

\* The loop always gets around to a dirty host: the wake-up that a NotifyDirty
\* sends through the external flag is not lost, whatever it races with.
DirtyIsRerun == freshness = "Dirty" ~> (freshness # "Dirty" \/ Stopping)

\* Every request is answered, or refused, while nobody stops the host: a check
\* that waits blocks the only server thread, yet not for ever.
RequestsSettle ==
    \A c \in Clients : client[c].phase = "sent" ~> (client[c].phase # "sent" \/ Stopping)

\* A host that is told to stop does: its loop ends, the server thread is joined
\* and (in HostCluster) its metadata is removed.
StopCompletes == Stopping ~> pc = "exited"

=============================================================================
