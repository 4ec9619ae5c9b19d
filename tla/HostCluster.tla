---------------------------- MODULE HostCluster ----------------------------
(***************************************************************************)
(* The cluster of architecture hosts of a worktree: leader election over a *)
(* metadata file, a file lock and a socket path                            *)
(* (xtask/src/architecture/host.rs and watch.rs).                          *)
(*                                                                         *)
(* Hosts read, change and write the metadata under MetadataLock.  Clients, *)
(* and standbys that ask whether the leader is alive, read it WITHOUT the  *)
(* lock (load_metadata_for_repo), and remove what they take to be stale.   *)
(* A write truncates the file before it fills it.  Most hosts are started  *)
(* by `architecture host`, which decides its role under the lock; a        *)
(* `check --watch` that finds no host of its own options becomes one       *)
(* without asking for a role.                                              *)
(*                                                                         *)
(* A host is named by its pid and runs once.  started_at is a stamp that   *)
(* grows with time; `horizon` is the newest stamp older than               *)
(* WARMUP_TIMEOUT_SECS.                                                    *)
(***************************************************************************)
EXTENDS Naturals, FiniteSets

CONSTANTS
    Hosts,          \* the processes that may be started
    Client,         \* a process that runs `architecture check`
    None,           \* Option::None, a file that does not exist, a free lock
    Torn,           \* the content of a file while it is being written
    Settings,       \* what a behaviour may be under: [aging, watching, checks]
    MaxCrashes      \* bound: hosts that are killed, or end in an error

Processes == Hosts \cup {Client}

\* What the metadata lists, and what it holds.
Entries == [pid: Hosts, at: Nat \ {0}, state: {"Warming", "Ready"}]
Clusters == [leader: Entries \cup {None}, standbys: SUBSET Entries]

\* What a host is about to write, and where it goes on then.
Plans == [content: Clusters, next: {"standby", "warming", "leading", "gone", "left"}]

ASSUME HostClusterAssumption ==
    /\ Settings \subseteq [aging: BOOLEAN, watching: BOOLEAN, checks: Nat]
    /\ MaxCrashes \in Nat
    /\ Client \notin Hosts
    /\ None \notin Hosts \cup {Client} \cup Entries \cup Clusters
    /\ Torn \notin Clusters \cup {None}

VARIABLES
    file,           \* the metadata file
    lock,           \* who holds MetadataLock
    socket,         \* whose listener the socket path leads to
    clock, horizon, \* the newest stamp, and the newest that has timed out
    pc,             \* where each process is
    plan,           \* what a host holding the lock is writing, and what follows
    seen,           \* what a reader found in the file
    checks, crashed,
    misled,         \* history: in which ways somebody acted on a wrong view
    setting         \* one of Settings, the same for the whole behaviour

time == <<clock, horizon, setting>>
vars == <<file, lock, socket, clock, horizon, pc, plan, seen, checks, crashed,
          misled, setting>>

Aging == setting.aging           \* a warm-up or a standby may outlast the timeout
Watching == setting.watching     \* `check --watch` may be run
MaxChecks == setting.checks      \* bound: requests the client makes

-----------------------------------------------------------------------------
(* ClusterMetadata.                                                        *)

Alive(p) == pc[p] \notin {"off", "gone"}            \* is_pid_alive: kill -0

Entry(p, at, state) == [pid |-> p, at |-> at, state |-> state]
Empty == [leader |-> None, standbys |-> {}]

\* A host is effectively alive if its process exists and has not been Warming
\* for longer than the timeout.  Standbys are registered as Warming.
EffectivelyAlive(e) == Alive(e.pid) /\ ~(e.state = "Warming" /\ e.at <= horizon)

PruneDead(c) ==
    [leader   |-> IF c.leader # None /\ EffectivelyAlive(c.leader)
                  THEN c.leader ELSE None,
     standbys |-> {e \in c.standbys : EffectivelyAlive(e)}]

Known(c) == c \notin {None, Torn}
EntriesOf(c) == c.standbys \cup ({c.leader} \ {None})

HasLivingLeader(c) == c.leader # None /\ Alive(c.leader.pid)

\* The newest standby wins; started_at has seconds, so there may be ties.
Newest(c) == {e \in c.standbys : \A f \in c.standbys : f.at <= e.at}

\* The slip of leaving the elected host among the standbys.
ElectedKept(c, e) ==
    [leader |-> [e EXCEPT !.state = "Warming"], standbys |-> c.standbys]

Elected(c, e) ==
    [leader |-> [e EXCEPT !.state = "Warming"], standbys |-> c.standbys \ {e}]

WithStandby(c, p, at) ==
    IF \E e \in c.standbys \cup ({c.leader} \ {None}) : e.pid = p
    THEN c
    ELSE [c EXCEPT !.standbys = @ \cup {Entry(p, at, "Warming")}]

\* The slip of a departing standby that only clears a leader's entry.
WithoutLeader(c, p) ==
    [c EXCEPT !.leader = IF @ # None /\ @.pid = p THEN None ELSE @]

Without(c, p) ==
    [leader   |-> IF c.leader # None /\ c.leader.pid = p THEN None ELSE c.leader,
     standbys |-> {e \in c.standbys : e.pid # p}]

Init ==
    /\ file = None
    /\ lock = None
    /\ socket = None
    /\ clock = 0
    /\ horizon = 0
    /\ pc = [r \in Processes |-> IF r = Client THEN "idle" ELSE "off"]
    /\ plan = [p \in Hosts |-> None]
    /\ seen = [r \in Processes |-> None]
    /\ checks = 0
    /\ crashed = {}
    /\ misled = {}
    /\ setting \in Settings

-----------------------------------------------------------------------------
(* Time, and the metadata file under its lock.                             *)

\* unix_timestamp_string: a stamp, in seconds.
Stamps == {at \in {clock, clock + 1} : at > horizon}

\* More than WARMUP_TIMEOUT_SECS pass for the oldest of the stamps.
TimePasses ==
    /\ Aging
    /\ horizon < clock
    /\ horizon' = horizon + 1
    /\ UNCHANGED <<file, lock, socket, clock, setting, pc, plan, seen, checks, crashed, misled>>

Moves(r, s) == pc' = [pc EXCEPT ![r] = s]

\* MetadataLock::acquire and read; a missing file reads as an empty cluster.
Acquire(p) == lock = None /\ lock' = p
Cluster == IF file = None THEN Empty ELSE file

\* A host with the lock starts to write `content`; `next` is where it goes on.
Writes(p, content, next) ==
    /\ plan' = [plan EXCEPT ![p] = [content |-> content, next |-> next]]
    /\ Moves(p, "planned")

\* std::fs::write opens the file with O_TRUNC ...
WriteBegins(p) ==
    /\ pc[p] = "planned"
    /\ file' = Torn
    /\ Moves(p, "writing")
    /\ UNCHANGED <<lock, socket, time, plan, seen, checks, crashed, misled>>

\* ... and then fills it, unless the path was removed meanwhile: the content
\* goes to a file nobody can open.  The lock is dropped; a leader that leaves an
\* empty cluster removes the file first, a standby does not.
WriteEnds(p) ==
    /\ pc[p] = "writing"
    /\ file' = IF file # Torn THEN file
               ELSE IF plan[p].next = "gone" /\ plan[p].content = Empty
                    THEN None ELSE plan[p].content
    /\ lock' = None
    /\ Moves(p, IF plan[p].next = "left" THEN "gone" ELSE plan[p].next)
    /\ plan' = [plan EXCEPT ![p] = None]
    /\ UNCHANGED <<socket, time, seen, checks, crashed, misled>>

\* `lock.read()?` on a torn file: the process reports the error and exits.
ReadFails(p) ==
    /\ pc[p] \in {"off", "promoting", "bound", "exposed"}
    /\ lock = None
    /\ file = Torn
    /\ Moves(p, "gone")
    /\ UNCHANGED <<file, lock, socket, time, plan, seen, checks, crashed, misled>>

\* A living host is struck off for its age by whoever prunes the record it read.
StrikesLiving(c) == \E e \in EntriesOf(c) : Alive(e.pid) /\ ~EffectivelyAlive(e)

\* A record is lost with a living host in it, or before it is written.
LosesLiving == file = Torn \/ (file # None /\ \E e \in EntriesOf(file) : Alive(e.pid))

Ways == {"struck", "lost", "overridden"}
Misled(way, so) == misled' = IF so THEN misled \cup {way} ELSE misled

\* Someone accepts at the socket path: from bind until the endpoint is closed.
Listening(p) == pc[p] \in {"bound", "exposed", "leading", "stopping"} \/
                (pc[p] \in {"planned", "writing"} /\ plan[p].next = "leading")

Connected == socket # None /\ Alive(socket) /\ Listening(socket)

-----------------------------------------------------------------------------
(* load_metadata_for_repo, by standbys and clients: read, then act.        *)

Load(r) == seen' = [seen EXCEPT ![r] = file]

\* What was read is unusable: torn, or nobody alive is left in it.
Stale(c) == c = Torn \/ (c # None /\ PruneDead(c) = Empty)


\* A file that was read as c, and was unusable, is removed, whatever it holds by now.
Drop(c) == file' = IF Stale(c) THEN None ELSE file

DropMisleads(c) ==
    Misled(IF Known(c) /\ StrikesLiving(c) THEN "struck" ELSE "lost", Stale(c) /\ LosesLiving)

-----------------------------------------------------------------------------
(* run_host: a process decides its role before it warms up.                *)

StartAsStandby(p) ==
    /\ pc[p] = "off" /\ file # Torn
    /\ Acquire(p)
    /\ HasLivingLeader(PruneDead(Cluster))
    /\ \E at \in Stamps :
         /\ clock' = at
         /\ Writes(p, WithStandby(PruneDead(Cluster), p, at), "standby")
    /\ Misled("struck", StrikesLiving(Cluster))
    /\ UNCHANGED <<file, socket, horizon, setting, seen, checks, crashed>>

\* No living leader: the socket path is removed ...
StartAsLeader(p) ==
    /\ pc[p] = "off" /\ file # Torn
    /\ Acquire(p)
    /\ ~HasLivingLeader(PruneDead(Cluster))
    /\ socket' = None
    /\ plan' = [plan EXCEPT ![p] = [content |-> PruneDead(Cluster), next |-> "warming"]]
    /\ Moves(p, "clearing")
    /\ Misled("struck", StrikesLiving(Cluster))
    /\ UNCHANGED <<file, time, seen, checks, crashed>>

\* Where a host may be once it was asked to shut down: it serves until its run is
\* over (Stop), and one that is closing may take the connection for its own.
AskedToStop(q) ==
    {pc[q]} \cup (IF pc[q] = "leading" THEN {"stopping"} ELSE {})
            \cup (IF pc[q] = "stopping" THEN {"joined"} ELSE {})

\* ... and whoever has bound it again is asked to shut down (request_shutdown, which
\* reads, and removes, like other readers).
ShutdownPrevious(p) ==
    /\ pc[p] = "clearing"
    /\ Drop(file)
    /\ DropMisleads(file)
    /\ IF Known(file) /\ ~Stale(file) /\ Connected
       THEN \E s \in AskedToStop(socket) : pc' = [pc EXCEPT ![p] = "cleared", ![socket] = s]
       ELSE Moves(p, "cleared")
    /\ UNCHANGED <<lock, socket, time, plan, seen, checks, crashed>>

\* The process registers as the leader of what it read.
RegisterWarming(p) ==
    /\ pc[p] = "cleared"
    /\ \E at \in Stamps :
         /\ clock' = at
         /\ Writes(p, [plan[p].content EXCEPT !.leader = Entry(p, at, "Warming")], "warming")
    /\ UNCHANGED <<file, lock, socket, horizon, setting, seen, checks, crashed, misled>>

\* The warm-up is over, or `check --watch` goes its own way: remove whatever is at
\* the socket path and bind it.
BindSocket(p) ==
    /\ pc[p] \in {"warming", "opening"}
    /\ socket' = p
    /\ Moves(p, IF pc[p] = "warming" THEN "bound" ELSE "exposed")
    /\ Misled("overridden", pc[p] = "opening" /\ Connected)
    /\ UNCHANGED <<file, lock, time, plan, seen, checks, crashed>>

\* A host with no role registers over a living leader, or without the socket.
Overrides(p) ==
    \/ socket # p
    \/ Cluster.leader # None /\ Alive(Cluster.leader.pid)

\* start_with_binder merges its own entry into the metadata, Ready.
RegisterReady(p) ==
    /\ pc[p] \in {"bound", "exposed"} /\ file # Torn
    /\ Acquire(p)
    /\ \E at \in Stamps :
         /\ clock' = at
         /\ Writes(p, [Cluster EXCEPT !.leader = Entry(p, at, "Ready")], "leading")
    /\ Misled("overridden", pc[p] = "exposed" /\ Overrides(p))
    /\ UNCHANGED <<file, socket, horizon, setting, seen, checks, crashed>>

\* Ctrl-C, a Shutdown request, the end of the watcher or, for a leader, an error of
\* it: its cleanup runs all the same (Drop).
Stop(p) ==
    /\ pc[p] \in {"leading", "standby"}
    /\ Moves(p, IF pc[p] = "leading" THEN "stopping" ELSE "leaving")
    /\ UNCHANGED <<file, lock, socket, time, plan, seen, checks, crashed, misled>>

\* endpoint.cleanup connects to the socket path to wake its own accept() and joins
\* the server thread: if the path is not its own any more the join does not return ...
CloseEndpoint(p) ==
    /\ pc[p] = "stopping"
    /\ socket = p
    /\ Moves(p, "joined")
    /\ UNCHANGED <<file, lock, socket, time, plan, seen, checks, crashed, misled>>

\* ... and removes the path, wherever it leads by now.
RemoveSocket(p) ==
    /\ pc[p] = "joined"
    /\ socket' = None
    /\ Moves(p, "closed")
    /\ UNCHANGED <<file, lock, time, plan, seen, checks, crashed, misled>>

\* The leader's cleanup, and deregister_from_cluster for a standby.  A torn file
\* makes the mutation fail, silently.
Deregister(p) ==
    /\ pc[p] \in {"closed", "leaving"}
    /\ lock = None
    /\ IF file = Torn
       THEN Moves(p, "gone") /\ UNCHANGED <<lock, plan>>
       ELSE /\ lock' = p
            /\ Writes(p, Without(Cluster, p), IF pc[p] = "closed" THEN "gone" ELSE "left")
    /\ UNCHANGED <<file, socket, time, seen, checks, crashed, misled>>

\* The kernel drops the lock; the file stays as it was, the socket path too.
Dies(p) ==
    /\ Cardinality(crashed) < MaxCrashes
    /\ crashed' = crashed \cup {p}
    /\ lock' = IF lock = p THEN None ELSE lock
    /\ Moves(p, "gone")
    /\ plan' = [plan EXCEPT ![p] = None]
    /\ UNCHANGED <<file, socket, time, seen, checks, misled>>

\* kill -9, a panic, or Ctrl-C before its handler is installed.
Crash(p) == Alive(p) /\ Dies(p)

\* A standby's watcher reports an error, or the watcher, the handler or the socket
\* of a host cannot be set up: `?` leaves, and nobody deregisters.
Fails(p) == pc[p] \in {"standby", "warming", "opening"} /\ Dies(p)

-----------------------------------------------------------------------------
(* Standbys.                                                               *)

LeaderSeen(c) == Known(c) /\ HasLivingLeader(PruneDead(c))

\* run_standby polls: every five seconds, and after every change burst.
Poll(p) ==
    /\ pc[p] = "standby"
    /\ Load(p)
    /\ Moves(p, "polling")
    /\ UNCHANGED <<file, lock, socket, time, plan, checks, crashed, misled>>

PollDone(p) ==
    /\ pc[p] = "polling"
    /\ Drop(seen[p])
    /\ DropMisleads(seen[p])
    /\ Moves(p, IF LeaderSeen(seen[p]) THEN "standby" ELSE "promoting")
    /\ seen' = [seen EXCEPT ![p] = None]
    /\ UNCHANGED <<lock, socket, time, plan, checks, crashed>>

\* Elect the newest standby, which need not be this one and is not told.
Elect(p) ==
    /\ socket' = None
    /\ Misled("struck", StrikesLiving(Cluster))
    /\ IF PruneDead(Cluster).standbys = {}
       THEN Moves(p, "standby") /\ UNCHANGED <<lock, plan>>
       ELSE \E e \in Newest(PruneDead(Cluster)) :
              /\ lock' = p
              /\ Writes(p, Elected(PruneDead(Cluster), e),
                        IF e.pid = p THEN "warming" ELSE "standby")

\* The slip of trusting the poll that was made before the lock was taken.
PromoteUnchecked(p) ==
    /\ pc[p] = "promoting" /\ file # Torn
    /\ lock = None
    /\ Elect(p)
    /\ UNCHANGED <<file, time, seen, checks, crashed>>

\* try_promote_to_leader: under the lock, look again, and then elect.
Promote(p) ==
    /\ pc[p] = "promoting" /\ file # Torn
    /\ lock = None
    /\ IF HasLivingLeader(PruneDead(Cluster))
       THEN Moves(p, "standby") /\ UNCHANGED <<socket, lock, plan, misled>>
       ELSE Elect(p)
    /\ UNCHANGED <<file, time, seen, checks, crashed>>

-----------------------------------------------------------------------------
(* Requests: `check` (try_request_check, try_request_graph and             *)
(* try_notify_dirty), and the Status with which `check --watch` looks for a *)
(* host to be the client of.                                               *)

ClientAsks ==
    /\ pc[Client] = "idle"
    /\ checks < MaxChecks
    /\ checks' = checks + 1
    /\ Load(Client)
    /\ Moves(Client, "asking")
    /\ UNCHANGED <<file, lock, socket, time, plan, crashed, misled>>

WatchAsks(p) ==
    /\ Watching
    /\ pc[p] = "off"
    /\ Load(p)
    /\ Moves(p, "asking")
    /\ UNCHANGED <<file, lock, socket, time, plan, checks, crashed, misled>>

\* With no answer the client checks locally, and `check --watch` becomes a host.
Alone(r) == IF r = Client THEN "idle" ELSE "opening"

\* With an answer `check --watch` is a client from then on, unless the options differ.
Answered(r) == IF r = Client THEN {"idle"} ELSE {"gone", "opening"}

\* Nothing usable, or a leader that is warming up.
Unusable(c) ==
    Known(c) =>
        \/ PruneDead(c) = Empty
        \/ PruneDead(c).leader # None /\ PruneDead(c).leader.state = "Warming"

GivesUp(r) ==
    /\ pc[r] = "asking"
    /\ Unusable(seen[r])
    /\ Drop(seen[r])
    /\ DropMisleads(seen[r])
    /\ Moves(r, Alone(r))
    /\ seen' = [seen EXCEPT ![r] = None]
    /\ UNCHANGED <<lock, socket, time, plan, checks, crashed>>

IsAnswered(r) ==
    /\ pc[r] = "asking"
    /\ ~Unusable(seen[r])
    /\ Connected
    /\ \E s \in Answered(r) : Moves(r, s)
    /\ seen' = [seen EXCEPT ![r] = None]
    /\ UNCHANGED <<file, lock, socket, time, plan, checks, crashed, misled>>

\* Nobody accepts, or a host that is closing does, whose server thread then ends.
\* Some requests leave it at that.
IsRefused(r) ==
    /\ pc[r] = "asking"
    /\ ~Unusable(seen[r])
    /\ \E s \in {"cleaning", Alone(r)} :
         /\ \/ ~Connected /\ Moves(r, s)
            \/ /\ Connected /\ pc[socket] = "stopping"
               /\ pc' = [pc EXCEPT ![r] = s, ![socket] = "joined"]
         /\ seen' = [seen EXCEPT ![r] = IF s = "cleaning" THEN PruneDead(@) ELSE None]
    /\ UNCHANGED <<file, lock, socket, time, plan, checks, crashed, misled>>

\* maybe_cleanup_stale_transport: the connection failed, so the socket path is
\* removed, and the metadata file with it when it listed no standby.
CleansUp(r) ==
    /\ pc[r] = "cleaning"
    /\ socket' = None
    /\ file' = IF seen[r].standbys = {} THEN None ELSE file
    /\ Misled("lost", Connected \/ (seen[r].standbys = {} /\ LosesLiving))
    /\ Moves(r, Alone(r))
    /\ seen' = [seen EXCEPT ![r] = None]
    /\ UNCHANGED <<lock, time, plan, checks, crashed>>

Request(r) == GivesUp(r) \/ IsAnswered(r) \/ IsRefused(r) \/ CleansUp(r)

-----------------------------------------------------------------------------

\* What a host does without being asked.
HostStep(p) ==
    \/ WriteBegins(p) \/ WriteEnds(p) \/ ReadFails(p)
    \/ ShutdownPrevious(p) \/ RegisterWarming(p)
    \/ BindSocket(p) \/ RegisterReady(p)
    \/ CloseEndpoint(p) \/ RemoveSocket(p) \/ Deregister(p)
    \/ Poll(p) \/ PollDone(p) \/ Promote(p)
    \/ Request(p)

Start(p) == StartAsStandby(p) \/ StartAsLeader(p) \/ WatchAsks(p)

ClientStep == ClientAsks \/ Request(Client)

Next ==
    \/ \E p \in Hosts : HostStep(p) \/ Start(p) \/ Stop(p) \/ Crash(p) \/ Fails(p)
    \/ ClientStep
    \/ TimePasses

Spec == Init /\ [][Next]_vars

\* Every process runs, and a process that waits for the lock gets it although
\* others take it in between (the kernel queues the waiters of flock).  Nobody
\* is obliged to start, to stop, to crash or to outlast the timeout.
FairSpec ==
    /\ Spec
    /\ \A p \in Hosts : SF_vars(HostStep(p))
    /\ WF_vars(ClientStep)

-----------------------------------------------------------------------------
(* Properties.                                                             *)

States == {"off", "clearing", "cleared", "planned", "writing", "standby", "polling",
           "promoting", "warming", "bound", "leading", "stopping", "joined", "closed",
           "leaving", "gone", "asking", "cleaning", "opening", "exposed", "idle"}

\* Hosts, files and plans are well formed.
WellFormed ==
    /\ file \in Clusters \cup {None, Torn}
    /\ lock \in Hosts \cup {None}
    /\ socket \in Hosts \cup {None}
    /\ clock \in Nat
    /\ horizon \in Nat
    /\ pc \in [Processes -> States]
    /\ plan \in [Hosts -> Plans \cup {None}]
    /\ seen \in [Processes -> Clusters \cup {None, Torn}]
    /\ checks \in 0..MaxChecks
    /\ crashed \subseteq Hosts
    /\ misled \subseteq Ways
    /\ setting \in Settings

\* A process is listed once only, whether as leader or as standby.
Distinct(c) == \A e, f \in EntriesOf(c) : e.pid = f.pid => e = f

\* The state is well formed, and no process is listed twice in the record, however
\* registration, election, promotion and pruning follow each other.
TypeOK == WellFormed /\ (Known(file) => Distinct(file))

\* What the record says of a process is so: a leader that clients are told is Ready has
\* bound its socket, so that what they do with the socket path is not done to one that
\* is still warming up; and a process that left by itself is not in it, and no later
\* election or registration by another host brings it back.
RecordIsTrue ==
    Known(file) =>
        /\ file.leader # None /\ file.leader.state = "Ready" =>
              pc[file.leader.pid] \in {"planned", "writing", "leading", "stopping", "joined",
                                       "closed", "gone"}
        /\ \A e \in EntriesOf(file) : pc[e.pid] = "gone" => e.pid \in crashed

Led(c, p) == Known(c) /\ c.leader # None /\ c.leader.pid = p

\* The host that serves is found by whoever looks for it: the socket path leads to it,
\* so that clients reach it and it can wake its own server thread when it stops, and so
\* does the metadata, now or when the write that is under way ends.  Elections, late
\* polls, crashes and departures in any order never take a serving host's place.  It can
\* be lost in three ways only, each of them a step that acts on a wrong view of the
\* cluster: a reader without the lock removes a record or a socket that is in use, a
\* living host is pruned for its age, or a `check --watch` takes the place over.
ServingLeaderIsReachable ==
    misled = {} =>
        \A p \in Hosts : pc[p] = "leading" =>
            /\ socket = p
            /\ file = Torn \/ Led(file, p)
            /\ \A q \in Hosts : pc[q] \in {"planned", "writing"} => Led(plan[q].content, p)

Waiting == \E p \in Hosts : pc[p] \in {"standby", "polling", "promoting"}
Serving == \E p \in Hosts : pc[p] = "leading"

\* A living host may be missing from the metadata for ever: nothing puts it back.
Forgotten == misled \cap {"struck", "lost"} # {}

\* "Zero or more standbys stay warm for failover" (docs/architecture.md): while there is
\* a standby and nobody serves, somebody will, unless a living host was struck off for
\* its age or lost with a record.  Neither the death of a leader at any moment, nor its
\* departure, nor the removal of a stale record by whoever reads it first, nor a
\* `check --watch` that takes the place over leaves a standby waiting for ever.
FailoverCompletesUnlessMisled ==
    (Waiting /\ ~Forgotten) ~> (Serving \/ ~Waiting \/ Forgotten)

=============================================================================
