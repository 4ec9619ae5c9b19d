-------------------------- MODULE HostClusterProofs --------------------------
(***************************************************************************)
(* The record of a host cluster, for any number of hosts, crashes and      *)
(* client requests: what it says of a process is so, no process is listed  *)
(* twice and, unless somebody has acted on a wrong view of the cluster,    *)
(* the leader that serves is the one that clients find.                    *)
(*                                                                         *)
(* The argument: one host at a time is between taking the lock and         *)
(* letting go of it, so what it is about to write was made from what the   *)
(* file holds, and is as true of the processes when it is written; all     *)
(* that others do to the file meanwhile is remove it.                      *)
(***************************************************************************)
EXTENDS HostCluster, TLAPS

USE DEF Processes

Writing == {"planned", "writing"}
WriterStates == Writing \cup {"clearing", "cleared"}
Resting == {"standby", "polling", "promoting", "leaving", "gone"}
Served == {"leading", "stopping", "joined", "closed", "gone"}
Unlisted == {"off", "clearing", "cleared", "asking", "cleaning", "opening", "exposed", "idle"}

Writer(p) == pc[p] \in WriterStates

\* Whoever is about to write has the lock and knows what to write.
WritersHoldLock ==
    \A p \in Hosts : Writer(p) =>
        lock = p /\ plan[p] \in Plans /\ (pc[p] \notin Writing => plan[p].next = "warming")

\* A file that is open for writing is empty, or was removed.
OpenFilesAreTorn ==
    \A p \in Hosts : pc[p] = "writing" => file \in {None, Torn}

\* The standbys listed have been standbys, a leader listed as Ready has served, and
\* those who are gone were killed.  Whoever is writing may become something else.
FileSound ==
    Known(file) =>
        /\ Distinct(file)
        /\ \A e \in file.standbys : pc[e.pid] \in Resting \cup Writing
        /\ file.leader # None /\ file.leader.state = "Ready" =>
              pc[file.leader.pid] \in Served \cup Writing
        /\ \A e \in EntriesOf(file) :
              pc[e.pid] \notin Unlisted /\ (pc[e.pid] = "gone" => e.pid \in crashed)

\* The same of what p is about to write, after which it will be at `next`.
PlanSound(p, c, next) ==
    /\ Distinct(c)
    /\ \A e \in c.standbys : IF e.pid = p THEN next = "standby" ELSE pc[e.pid] \in Resting
    /\ c.leader # None /\ c.leader.state = "Ready" =>
          IF c.leader.pid = p THEN next = "leading" ELSE pc[c.leader.pid] \in Served
    /\ \A e \in EntriesOf(c) :
          IF e.pid = p THEN next \notin {"gone", "left"}
          ELSE pc[e.pid] \notin Unlisted /\ (pc[e.pid] = "gone" => e.pid \in crashed)

PlansSound ==
    \A p \in Hosts : Writer(p) => PlanSound(p, plan[p].content, plan[p].next)

RecordInv == WritersHoldLock /\ OpenFilesAreTorn /\ FileSound /\ PlansSound

IInv == WellFormed /\ RecordInv
-----------------------------------------------------------------------------
(* Operators on the record.                                                *)

\* A record that a host finds with the lock: nobody is writing.
Sound(c) ==
    /\ c \in Clusters
    /\ Distinct(c)
    /\ \A e \in c.standbys : pc[e.pid] \in Resting
    /\ c.leader # None /\ c.leader.state = "Ready" => pc[c.leader.pid] \in Served
    /\ \A e \in EntriesOf(c) :
          pc[e.pid] \notin Unlisted /\ (pc[e.pid] = "gone" => e.pid \in crashed)

\* What is listed, and whom (ClusterMetadata).
LEMMA EntriesFacts ==
  ASSUME NEW c \in Clusters
  PROVE  /\ c.leader \in Entries \cup {None}
         /\ c.standbys \subseteq Entries
         /\ c.leader # None => c.leader \in Entries /\ c.leader.pid \in Hosts
         /\ EntriesOf(c) \subseteq Entries
         /\ \A e \in EntriesOf(c) : e \in Entries /\ e.pid \in Hosts
         /\ \A e \in c.standbys : e \in EntriesOf(c)
         /\ c.leader # None => c.leader \in EntriesOf(c)
         /\ \A e \in EntriesOf(c) : e \in c.standbys \/ (c.leader # None /\ e = c.leader)
  BY DEF Clusters, Entries, EntriesOf

\* Pruning takes entries out and changes none (prune_dead).
LEMMA PruneFacts ==
  ASSUME NEW c \in Clusters
  PROVE  /\ PruneDead(c) \in Clusters
         /\ PruneDead(c).standbys = {e \in c.standbys : EffectivelyAlive(e)}
         /\ PruneDead(c).leader \in {c.leader, None}
         /\ PruneDead(c).leader # None => EffectivelyAlive(c.leader)
         /\ c.leader # None /\ EffectivelyAlive(c.leader) => PruneDead(c).leader = c.leader
         /\ EntriesOf(PruneDead(c)) \subseteq EntriesOf(c)
  <1> DEFINE d == PruneDead(c)
  <1>1. /\ d.leader = IF c.leader # None /\ EffectivelyAlive(c.leader) THEN c.leader ELSE None
        /\ d.standbys = {e \in c.standbys : EffectivelyAlive(e)}
        /\ d = [leader |-> d.leader, standbys |-> d.standbys]
    BY DEF PruneDead
  <1>2. d.standbys \subseteq Entries /\ d.leader \in Entries \cup {None}
    BY <1>1, EntriesFacts
  <1>3. d \in Clusters
    BY <1>1, <1>2 DEF Clusters
  <1> HIDE DEF d
  <1>4. EntriesOf(d) \subseteq EntriesOf(c)
    BY <1>1 DEF EntriesOf
  <1> QED BY <1>1, <1>3, <1>4 DEF d

\* What was true of the record is true of what is left of it.
LEMMA SoundPruned ==
  ASSUME NEW c, Sound(c)
  PROVE  Sound(PruneDead(c))
  <1>1. c \in Clusters
    BY DEF Sound
  <1>2. /\ PruneDead(c) \in Clusters
        /\ PruneDead(c).standbys \subseteq c.standbys
        /\ PruneDead(c).leader \in {c.leader, None}
        /\ EntriesOf(PruneDead(c)) \subseteq EntriesOf(c)
    BY <1>1, PruneFacts
  <1> QED BY <1>2 DEF Sound, Distinct

\* With the lock free nobody is between taking it and letting go (MetadataLock).
LEMMA FreeLockFacts ==
  ASSUME IInv, lock = None
  PROVE  \A p \in Hosts : ~Writer(p)
  BY HostClusterAssumption DEF IInv, RecordInv, WritersHoldLock

\* Whoever takes the lock finds a sound record (MetadataLock::acquire, read).
LEMMA ClusterSound ==
  ASSUME IInv, lock = None, file # Torn
  PROVE  Sound(Cluster) /\ Sound(PruneDead(Cluster))
  <1>1. CASE file = None
    <2>1. Empty \in Clusters /\ Empty.leader = None /\ Empty.standbys = {}
      BY DEF Empty, Clusters
    <2>2. EntriesOf(Empty) = {}
      BY <2>1 DEF EntriesOf
    <2>3. Cluster = Empty
      BY <1>1 DEF Cluster
    <2>4. Sound(Cluster)
      BY <2>1, <2>2, <2>3 DEF Sound, Distinct
    <2> QED BY <2>4, SoundPruned
  <1>2. CASE file # None
    <2>1. Cluster = file /\ file \in Clusters /\ Known(file)
      BY <1>2 DEF Cluster, IInv, WellFormed, Known
    <2>2. \A e \in EntriesOf(file) : ~Writer(e.pid)
      BY <2>1, FreeLockFacts, EntriesFacts
    <2>3. Sound(Cluster)
      BY <2>1, <2>2, EntriesFacts
         DEF IInv, RecordInv, FileSound, Sound, Writer, WriterStates, Writing
    <2> QED BY <2>3, SoundPruned
  <1> QED BY <1>1, <1>2
-----------------------------------------------------------------------------
(* The shapes of steps.                                                    *)

\* A host that takes the lock with something sound to write keeps the invariant.
LEMMA TakesLockKeeps ==
  ASSUME NEW p \in Hosts, NEW c \in Clusters, NEW s \in {"planned", "clearing"},
         NEW next \in {"standby", "warming", "leading", "gone", "left"},
         IInv, lock = None, file # Torn, lock' = p, file' = file,
         pc' = [pc EXCEPT ![p] = s],
         plan' = [plan EXCEPT ![p] = [content |-> c, next |-> next]],
         s = "clearing" => pc[p] = "off" /\ next = "warming",
         PlanSound(p, c, next), crashed' = crashed
  PROVE  /\ pc' \in [Processes -> States]
         /\ plan' \in [Hosts -> Plans \cup {None}]
         /\ RecordInv'
  <1> DEFINE w == [content |-> c, next |-> next]
  <1>1. w \in Plans /\ w.content = c /\ w.next = next
    BY DEF Plans
  <1>2. plan' = [plan EXCEPT ![p] = w]
    OBVIOUS
  <1> HIDE DEF w
  <1>3. pc \in [Processes -> States] /\ plan \in [Hosts -> Plans \cup {None}]
    BY DEF IInv, WellFormed
  <1>4. /\ pc' \in [Processes -> States]
        /\ plan' \in [Hosts -> Plans \cup {None}]
    BY <1>1, <1>2, <1>3 DEF States
  <1>5. /\ pc'[p] = s /\ plan'[p] = w
        /\ \A q \in Hosts : q # p => pc'[q] = pc[q] /\ plan'[q] = plan[q]
    BY <1>2, <1>3
  <1>6. \A q \in Hosts : Writer(q)' <=> q = p
    BY <1>5, FreeLockFacts DEF Writer, WriterStates, Writing
  <1>7. WritersHoldLock'
    BY <1>1, <1>5, <1>6 DEF WritersHoldLock, Writing
  <1>8. OpenFilesAreTorn'
    BY <1>5, <1>6 DEF OpenFilesAreTorn, Writer, WriterStates, Writing
  <1>9. FileSound'
    <2> SUFFICES ASSUME Known(file)
                 PROVE  FileSound'
      BY DEF FileSound
    <2>1. file \in Clusters
      BY DEF IInv, WellFormed, Known
    <2>2. FileSound
      BY DEF IInv, RecordInv
    <2>3. \A e \in EntriesOf(file) : e.pid = p => s = "planned"
      BY <2>2 DEF FileSound, Unlisted
    <2> QED BY <1>5, <2>1, <2>2, <2>3, EntriesFacts DEF FileSound, Writing, Unlisted
  <1>10. PlanSound(p, c, next)'
    BY <1>5, EntriesFacts DEF PlanSound
  <1>11. PlansSound'
    BY <1>1, <1>5, <1>6, <1>10 DEF PlansSound
  <1> QED BY <1>4, <1>7, <1>8, <1>9, <1>11 DEF RecordInv

\* What a step may make of a host without changing the record: what is said of it
\* there, or about to be, is as true afterwards.
Follows(s, t) ==
    /\ t \in WriterStates => s \in WriterStates
    /\ t \in Writing => s \in Writing
    /\ t = "writing" => s = "writing"
    /\ s \in Resting => t \in Resting
    /\ s \in Served => t \in Served
    /\ s \in Writing => t \in Writing \cup {"gone"}
    /\ s \notin Unlisted => t \notin Unlisted

\* Such a step keeps the invariant, if it leaves the file alone or removes it.
LEMMA MovesOnKeeps ==
  ASSUME IInv,
         \A q \in Hosts : Follows(pc[q], pc'[q]),
         \A q \in Hosts : pc'[q] \in WriterStates =>
                             plan'[q] = plan[q] /\ (lock = q => lock' = q),
         \A q \in Hosts : pc'[q] = "gone" /\ pc[q] \notin Unlisted =>
                             pc[q] = "gone" \/ q \in crashed',
         file' \in {file, None}, crashed \subseteq crashed'
  PROVE  RecordInv'
  <1>1. \A q \in Hosts : Writer(q)' => Writer(q) /\ plan'[q] = plan[q]
    BY DEF Writer, Follows
  <1>2. WritersHoldLock'
    BY <1>1 DEF IInv, RecordInv, WritersHoldLock, Writer, Follows, WriterStates
  <1>3. OpenFilesAreTorn'
    BY DEF IInv, RecordInv, OpenFilesAreTorn, Follows
  <1>4. FileSound'
    <2> SUFFICES ASSUME Known(file')
                 PROVE  FileSound'
      BY DEF FileSound
    <2>1. file' = file /\ file \in Clusters /\ Known(file)
      BY DEF IInv, WellFormed, Known
    <2>2. FileSound
      BY DEF IInv, RecordInv
    <2>3. \A e \in file.standbys : pc'[e.pid] \in Resting \cup Writing
      BY <2>1, <2>2, EntriesFacts DEF FileSound, Follows, Resting
    <2>4. file.leader # None /\ file.leader.state = "Ready" =>
             pc'[file.leader.pid] \in Served \cup Writing
      BY <2>1, <2>2, EntriesFacts DEF FileSound, Follows, Served
    <2>5. \A e \in EntriesOf(file) :
             pc'[e.pid] \notin Unlisted /\ (pc'[e.pid] = "gone" => e.pid \in crashed')
      BY <2>1, <2>2, EntriesFacts DEF FileSound, Follows
    <2> QED BY <2>1, <2>2, <2>3, <2>4, <2>5 DEF FileSound
  <1>5. ASSUME NEW q \in Hosts, Writer(q)'
        PROVE  PlanSound(q, plan[q].content, plan[q].next)'
    <2>0. PICK c, next : c = plan[q].content /\ next = plan[q].next
      OBVIOUS
    <2>1. Writer(q) /\ plan'[q] = plan[q] /\ plan[q] \in Plans
      BY <1>1, <1>5 DEF IInv, RecordInv, WritersHoldLock
    <2>2. c \in Clusters /\ PlanSound(q, c, next)
      BY <2>0, <2>1 DEF Plans, IInv, RecordInv, PlansSound
    <2>3. \A e \in c.standbys : IF e.pid = q THEN next = "standby" ELSE pc'[e.pid] \in Resting
      BY <2>2, EntriesFacts DEF PlanSound, Follows
    <2>4. c.leader # None /\ c.leader.state = "Ready" =>
             IF c.leader.pid = q THEN next = "leading" ELSE pc'[c.leader.pid] \in Served
      BY <2>2, EntriesFacts DEF PlanSound, Follows
    <2>5. \A e \in EntriesOf(c) :
             IF e.pid = q THEN next \notin {"gone", "left"}
             ELSE pc'[e.pid] \notin Unlisted /\ (pc'[e.pid] = "gone" => e.pid \in crashed')
      BY <2>2, EntriesFacts DEF PlanSound, Follows
    <2>6. Distinct(c)
      BY <2>2 DEF PlanSound
    <2>7. c = plan'[q].content /\ next = plan'[q].next
      BY <2>0, <2>1
    <2>8. PlanSound(q, c, next)'
      BY <2>3, <2>4, <2>5, <2>6 DEF PlanSound
    <2> QED BY <2>7, <2>8
  <1> QED BY <1>2, <1>3, <1>4, <1>5 DEF RecordInv, PlansSound

\* One host moves on, or the client does.
LEMMA MoveKeeps ==
  ASSUME IInv, NEW r \in Processes, NEW s \in States, Moves(r, s),
         r \in Hosts => /\ Follows(pc[r], s)
                        /\ s \notin WriterStates
                        /\ s = "gone" /\ pc[r] \notin Unlisted => pc[r] = "gone" \/ r \in crashed',
         \A q \in Hosts : q # r => plan'[q] = plan[q] /\ (lock = q => lock' = q),
         file' \in {file, None}, crashed \subseteq crashed'
  PROVE  pc' \in [Processes -> States] /\ RecordInv'
  <1>1. pc \in [Processes -> States] /\ pc' = [pc EXCEPT ![r] = s]
    BY DEF IInv, WellFormed, Moves
  <1>2. /\ pc' \in [Processes -> States]
        /\ pc'[r] = s /\ \A q \in Processes : q # r => pc'[q] = pc[q]
    BY <1>1
  <1>3. \A q \in Hosts : Follows(pc[q], pc'[q])
    BY <1>2 DEF Follows
  <1>4. \A q \in Hosts : pc'[q] \in WriterStates =>
                             plan'[q] = plan[q] /\ (lock = q => lock' = q)
    BY <1>2
  <1>5. \A q \in Hosts : pc'[q] = "gone" /\ pc[q] \notin Unlisted =>
                             pc[q] = "gone" \/ q \in crashed'
    BY <1>2
  <1> QED BY <1>2, <1>3, <1>4, <1>5, MovesOnKeeps

\* A host that is asked to stop, or cut off, does so while r moves on.
LEMMA MoveBothKeeps ==
  ASSUME IInv, NEW r \in Processes, NEW s \in States, NEW q \in Hosts, NEW t \in States,
         pc' = [pc EXCEPT ![r] = s, ![q] = t], q # r,
         r \in Hosts => Follows(pc[r], s) /\ s # "gone",
         Follows(pc[q], t), t # "gone" \/ pc[q] = "gone",
         file' \in {file, None}, UNCHANGED <<plan, lock, crashed>>
  PROVE  pc' \in [Processes -> States] /\ RecordInv'
  <1>1. pc \in [Processes -> States]
    BY DEF IInv, WellFormed
  <1>2. /\ pc' \in [Processes -> States]
        /\ pc'[r] = s /\ pc'[q] = t
        /\ \A u \in Processes : u \notin {r, q} => pc'[u] = pc[u]
    BY <1>1
  <1>3. \A u \in Hosts : Follows(pc[u], pc'[u])
    BY <1>2 DEF Follows
  <1>4. \A u \in Hosts : pc'[u] = "gone" => pc[u] = "gone"
    BY <1>2
  <1> QED BY <1>2, <1>3, <1>4, MovesOnKeeps
-----------------------------------------------------------------------------
(* What hosts write.                                                       *)

\* A new process registers as a standby (register_as_standby).
LEMMA StandbyPlan ==
  ASSUME NEW p \in Hosts, NEW at \in Nat \ {0}, NEW d, Sound(d), pc[p] = "off"
  PROVE  /\ WithStandby(d, p, at) \in Clusters
         /\ PlanSound(p, WithStandby(d, p, at), "standby")
         /\ WithStandby(d, p, at).leader = d.leader
  <1> DEFINE new == Entry(p, at, "Warming")
             c == [d EXCEPT !.standbys = @ \cup {new}]
  <1>1. new \in Entries /\ new.pid = p
    BY DEF Entry, Entries
  <1>2. d \in Clusters /\ \A e \in EntriesOf(d) : e.pid # p
    BY DEF Sound, Unlisted
  <1>3. WithStandby(d, p, at) = c
    BY <1>2 DEF WithStandby, EntriesOf
  <1>4. c \in Clusters /\ c.leader = d.leader /\ c.standbys = d.standbys \cup {new}
    BY <1>1, <1>2 DEF Clusters
  <1> HIDE DEF new, c
  <1>5. EntriesOf(c) = EntriesOf(d) \cup {new}
    BY <1>4 DEF EntriesOf
  <1>6. PlanSound(p, c, "standby")
    BY <1>1, <1>2, <1>4, <1>5, EntriesFacts DEF Sound, PlanSound, Distinct
  <1> QED BY <1>3, <1>4, <1>6

\* A process makes itself the leader, warming up or ready (run_host,
\* start_with_binder).
LEMMA LeaderPlan ==
  ASSUME NEW p \in Hosts, NEW at \in Nat \ {0}, NEW d, Sound(d),
         NEW state \in {"Warming", "Ready"}, NEW next \in {"warming", "leading"},
         state = "Ready" => next = "leading",
         pc[p] \notin Resting
  PROVE  /\ [d EXCEPT !.leader = Entry(p, at, state)] \in Clusters
         /\ PlanSound(p, [d EXCEPT !.leader = Entry(p, at, state)], next)
  <1> DEFINE new == Entry(p, at, state)
             c == [d EXCEPT !.leader = new]
  <1>1. new \in Entries /\ new.pid = p /\ new.state = state
    BY DEF Entry, Entries
  <1>2. d \in Clusters /\ \A e \in d.standbys : e.pid # p
    BY DEF Sound
  <1>3. c \in Clusters /\ c.leader = new /\ c.standbys = d.standbys
    BY <1>1, <1>2 DEF Clusters
  <1> HIDE DEF new, c
  <1>4. EntriesOf(c) \subseteq d.standbys \cup {new} /\ d.standbys \subseteq EntriesOf(d)
    BY <1>3 DEF EntriesOf
  <1>5. PlanSound(p, c, next)
    BY <1>1, <1>2, <1>3, <1>4 DEF Sound, PlanSound, Distinct
  <1> QED BY <1>3, <1>5 DEF c, new

\* The same for the process that kept what it read while it asked the previous leader
\* to stop (run_host).
LEMMA WarmingPlan ==
  ASSUME NEW p \in Hosts, NEW at \in Nat \ {0}, NEW d \in Clusters,
         PlanSound(p, d, "warming")
  PROVE  /\ [d EXCEPT !.leader = Entry(p, at, "Warming")] \in Clusters
         /\ PlanSound(p, [d EXCEPT !.leader = Entry(p, at, "Warming")], "warming")
         /\ [d EXCEPT !.leader = Entry(p, at, "Warming")].leader = Entry(p, at, "Warming")
  <1> DEFINE new == Entry(p, at, "Warming")
             c == [d EXCEPT !.leader = new]
  <1>1. new \in Entries /\ new.pid = p /\ new.state = "Warming"
    BY DEF Entry, Entries
  <1>2. \A e \in d.standbys : e.pid # p
    BY DEF PlanSound
  <1>3. c \in Clusters /\ c.leader = new /\ c.standbys = d.standbys
    BY <1>1 DEF Clusters
  <1> HIDE DEF new, c
  <1>4. EntriesOf(c) \subseteq d.standbys \cup {new} /\ d.standbys \subseteq EntriesOf(d)
    BY <1>3 DEF EntriesOf
  <1>5. PlanSound(p, c, "warming")
    BY <1>1, <1>2, <1>3, <1>4 DEF PlanSound, Distinct
  <1> QED BY <1>3, <1>5 DEF c, new

\* A standby elects the newest, which may be itself (try_promote_to_leader).
LEMMA ElectionPlan ==
  ASSUME NEW p \in Hosts, NEW d, Sound(d), NEW e \in d.standbys,
         NEW next, next = (IF e.pid = p THEN "warming" ELSE "standby")
  PROVE  /\ Elected(d, e) \in Clusters
         /\ PlanSound(p, Elected(d, e), next)
         /\ Elected(d, e).leader # None /\ Elected(d, e).leader.pid = e.pid
  <1> DEFINE new == [e EXCEPT !.state = "Warming"]
             c == Elected(d, e)
  <1>1. d \in Clusters /\ Distinct(d)
    BY DEF Sound
  <1>2. e \in Entries /\ e \in EntriesOf(d)
    BY <1>1, EntriesFacts
  <1>3. new \in Entries /\ new.pid = e.pid /\ new.state = "Warming"
    BY <1>2 DEF Entries
  <1> HIDE DEF new
  <1>4. c.leader = new /\ c.standbys = d.standbys \ {e} /\ c \in Clusters
    BY <1>1, <1>3, EntriesFacts DEF Elected, Clusters, new
  <1>5. \A f \in d.standbys \ {e} : f.pid # e.pid /\ f \in EntriesOf(d)
    BY <1>1, <1>2, EntriesFacts DEF Distinct
  <1>6. EntriesOf(c) \subseteq (d.standbys \ {e}) \cup {new}
    BY <1>4 DEF EntriesOf
  <1> HIDE DEF c
  <1>7. Distinct(c)
    BY <1>1, <1>3, <1>5, <1>6 DEF Distinct
  <1>8. \A f \in c.standbys : IF f.pid = p THEN next = "standby" ELSE pc[f.pid] \in Resting
    BY <1>4, <1>5 DEF Sound
  <1>9. \A f \in EntriesOf(c) :
           IF f.pid = p THEN next \notin {"gone", "left"}
           ELSE pc[f.pid] \notin Unlisted /\ (pc[f.pid] = "gone" => f.pid \in crashed)
    BY <1>2, <1>3, <1>5, <1>6 DEF Sound
  <1>10. new # None
    BY <1>3, HostClusterAssumption
  <1>11. PlanSound(p, c, next)
    BY <1>3, <1>4, <1>7, <1>8, <1>9 DEF PlanSound
  <1> QED BY <1>3, <1>4, <1>10, <1>11 DEF c

\* A process takes itself out (deregister_from_cluster).
LEMMA DeparturePlan ==
  ASSUME NEW p \in Hosts, NEW d, Sound(d), NEW next
  PROVE  /\ Without(d, p) \in Clusters
         /\ PlanSound(p, Without(d, p), next)
         /\ d.leader # None /\ d.leader.pid # p => Without(d, p).leader = d.leader
  <1> DEFINE c == Without(d, p)
  <1>1. d \in Clusters /\ Distinct(d)
    BY DEF Sound
  <1>2. /\ c.leader = IF d.leader # None /\ d.leader.pid = p THEN None ELSE d.leader
        /\ c.standbys = {e \in d.standbys : e.pid # p}
        /\ c \in Clusters
    BY <1>1, EntriesFacts DEF Without, Clusters
  <1> HIDE DEF c
  <1>3. \A e \in EntriesOf(c) : e \in EntriesOf(d) /\ e.pid # p
    BY <1>2 DEF EntriesOf
  <1>4. PlanSound(p, c, next)
    BY <1>1, <1>2, <1>3 DEF Sound, PlanSound, Distinct
  <1> QED BY <1>2, <1>4 DEF c
-----------------------------------------------------------------------------
(* One lemma per step of a host.                                           *)

\* A stamp is later than every stamp that has timed out (unix_timestamp_string).
LEMMA StampFacts ==
  ASSUME WellFormed, NEW at \in Stamps
  PROVE  at \in Nat \ {0} /\ at \in Nat
  BY DEF WellFormed, Stamps

\* What is remembered of who acted on a wrong view.
LEMMA MisledFacts ==
  ASSUME WellFormed, NEW way \in Ways, NEW so, Misled(way, so)
  PROVE  misled' \subseteq Ways /\ (misled' = {} => misled = {} /\ ~so)
  BY DEF WellFormed, Misled

LEMMA DropMisledFacts ==
  ASSUME WellFormed, NEW c, DropMisleads(c)
  PROVE  misled' \subseteq Ways /\ (misled' = {} => misled = {} /\ ~(Stale(c) /\ LosesLiving))
  <1>1. PICK way : way = IF Known(c) /\ StrikesLiving(c) THEN "struck" ELSE "lost"
    OBVIOUS
  <1>2. way \in Ways /\ Misled(way, Stale(c) /\ LosesLiving)
    BY <1>1 DEF DropMisleads, Ways
  <1> QED BY <1>2, MisledFacts

\* Truncating the file leaves the plan to fill it (std::fs::write).
LEMMA WriteBeginsKeeps ==
  ASSUME IInv, NEW p \in Hosts, WriteBegins(p)
  PROVE  IInv'
  <1> USE DEF WriteBegins, time, Moves
  <1>1. pc \in [Processes -> States] /\ pc[p] = "planned" /\ Writer(p)
    BY DEF IInv, WellFormed, Writer, WriterStates, Writing
  <1>2. /\ pc' \in [Processes -> States] /\ pc'[p] = "writing"
        /\ \A q \in Hosts : q # p => pc'[q] = pc[q]
    BY <1>1 DEF States
  <1>3. \A q \in Hosts : Writer(q)' <=> Writer(q)
    BY <1>1, <1>2 DEF Writer, WriterStates, Writing
  <1>4. \A q \in Hosts : Writer(q) => q = p
    BY <1>1 DEF IInv, RecordInv, WritersHoldLock
  <1>5. WellFormed'
    BY <1>2 DEF IInv, WellFormed, MaxChecks
  <1>6. WritersHoldLock'
    BY <1>1, <1>2, <1>3, <1>4 DEF IInv, RecordInv, WritersHoldLock, Writing
  <1>7. OpenFilesAreTorn' /\ FileSound'
    BY DEF OpenFilesAreTorn, FileSound, Known
  <1>8. PlansSound'
    <2> SUFFICES ASSUME NEW q \in Hosts, Writer(q)'
                 PROVE  PlanSound(q, plan[q].content, plan[q].next)'
      BY DEF PlansSound
    <2>1. q = p /\ plan[p] \in Plans /\ PlanSound(p, plan[p].content, plan[p].next)
      BY <1>1, <1>3, <1>4 DEF IInv, RecordInv, PlansSound, WritersHoldLock
    <2>2. plan[p].content \in Clusters
      BY <2>1 DEF Plans
    <2> QED BY <1>2, <2>1, <2>2, EntriesFacts DEF PlanSound
  <1> QED BY <1>5, <1>6, <1>7, <1>8 DEF IInv, RecordInv

\* What was planned is as true when it is written (std::fs::write).
LEMMA WriteEndsKeeps ==
  ASSUME IInv, NEW p \in Hosts, WriteEnds(p)
  PROVE  IInv'
  <1> PICK c, next : c = plan[p].content /\ next = plan[p].next
    OBVIOUS
  <1> DEFINE s == IF next = "left" THEN "gone" ELSE next
  <1>1. /\ pc \in [Processes -> States] /\ plan \in [Hosts -> Plans \cup {None}]
        /\ pc[p] = "writing" /\ Writer(p) /\ lock = p
        /\ plan[p] \in Plans /\ PlanSound(p, c, next)
    BY DEF IInv, WellFormed, RecordInv, PlansSound, WritersHoldLock, Writer, WriterStates,
           Writing, WriteEnds
  <1>2. c \in Clusters /\ next \in {"standby", "warming", "leading", "gone", "left"}
    BY <1>1 DEF Plans
  <1>3. s \in States \ WriterStates
    BY <1>2 DEF States, WriterStates, Writing
  <1>4. /\ pc' = [pc EXCEPT ![p] = s] /\ plan' = [plan EXCEPT ![p] = None] /\ lock' = None
        /\ UNCHANGED <<socket, clock, horizon, setting, seen, checks, crashed, misled>>
    BY DEF WriteEnds, time, Moves
  <1> HIDE DEF s
  <1>5. /\ pc' \in [Processes -> States] /\ pc'[p] = s
        /\ \A q \in Hosts : q # p => pc'[q] = pc[q]
        /\ plan' \in [Hosts -> Plans \cup {None}]
    BY <1>1, <1>3, <1>4
  <1>6. file' \in {None, Torn, c}
    BY <1>1 DEF WriteEnds, IInv, RecordInv, OpenFilesAreTorn
  <1>7. \A q \in Hosts : ~Writer(q)'
    BY <1>1, <1>3, <1>5 DEF IInv, RecordInv, WritersHoldLock, Writer
  <1>8. WellFormed'
    BY <1>2, <1>4, <1>5, <1>6 DEF IInv, WellFormed, MaxChecks
  <1>9. WritersHoldLock' /\ OpenFilesAreTorn' /\ PlansSound'
    BY <1>7 DEF WritersHoldLock, OpenFilesAreTorn, PlansSound, Writer, WriterStates, Writing
  <1>10. FileSound'
    <2> SUFFICES ASSUME Known(file') PROVE FileSound'
      BY DEF FileSound
    <2>1. file' = c
      BY <1>6 DEF Known
    <2>2. \A e \in c.standbys : pc'[e.pid] \in Resting
      BY <1>1, <1>2, <1>5, EntriesFacts DEF PlanSound, Resting, s
    <2>3. c.leader # None /\ c.leader.state = "Ready" => pc'[c.leader.pid] \in Served
      BY <1>1, <1>2, <1>5, EntriesFacts DEF PlanSound, Served, s
    <2>4. \A e \in EntriesOf(c) :
             pc'[e.pid] \notin Unlisted /\ (pc'[e.pid] = "gone" => e.pid \in crashed)
      BY <1>1, <1>2, <1>5, EntriesFacts DEF PlanSound, s, Unlisted
    <2>5. Distinct(c)
      BY <1>1 DEF PlanSound
    <2> QED BY <1>4, <2>1, <2>2, <2>3, <2>4, <2>5 DEF FileSound
  <1> QED BY <1>8, <1>9, <1>10 DEF IInv, RecordInv

\* A host that finds the file torn exits, when nobody is writing.
LEMMA TornKeeps ==
  ASSUME IInv, NEW p \in Hosts, lock = None, file = Torn, Moves(p, "gone"),
         UNCHANGED <<file, lock, socket, time, plan, seen, checks, crashed, misled>>
  PROVE  IInv'
  <1>1. pc' \in [Processes -> States] /\ \A q \in Hosts : pc'[q] \in {pc[q], "gone"}
    BY DEF IInv, WellFormed, States, Moves
  <1>2. \A q \in Hosts : ~Writer(q)'
    BY <1>1, FreeLockFacts DEF Writer, WriterStates, Writing
  <1>3. WellFormed'
    BY <1>1 DEF IInv, WellFormed, MaxChecks, time
  <1>4. WritersHoldLock' /\ OpenFilesAreTorn' /\ PlansSound' /\ FileSound'
    BY <1>2 DEF WritersHoldLock, OpenFilesAreTorn, PlansSound, FileSound, Writer,
                WriterStates, Writing, Known
  <1> QED BY <1>3, <1>4 DEF IInv, RecordInv

\* A new process registers as a standby, or takes the lock to become the leader
\* (run_host).
LEMMA StartKeeps ==
  ASSUME IInv, NEW p \in Hosts, StartAsStandby(p) \/ StartAsLeader(p)
  PROVE  IInv'
  <1> DEFINE d == PruneDead(Cluster)
  <1>1. /\ pc[p] = "off" /\ lock = None /\ lock' = p /\ file # Torn /\ file' = file
        /\ Misled("struck", StrikesLiving(Cluster))
        /\ UNCHANGED <<horizon, setting, seen, checks, crashed>>
    BY DEF StartAsStandby, StartAsLeader, Acquire, time
  <1>2. Sound(d) /\ d \in Clusters
    BY <1>1, ClusterSound DEF Sound
  <1>3. misled' \subseteq Ways
    BY <1>1, MisledFacts DEF IInv, Ways
  <1> HIDE DEF d
  <1>4. CASE StartAsStandby(p)
    <2>1. PICK at \in Stamps : clock' = at /\ Writes(p, WithStandby(d, p, at), "standby")
      BY <1>4 DEF StartAsStandby, d
    <2>2. at \in Nat \ {0} /\ at \in Nat
      BY <2>1, StampFacts DEF IInv
    <2> PICK c : c = WithStandby(d, p, at)
      OBVIOUS
    <2>3. c \in Clusters /\ PlanSound(p, c, "standby")
      BY <1>1, <1>2, <2>2, StandbyPlan
    <2>4. /\ pc' = [pc EXCEPT ![p] = "planned"]
          /\ plan' = [plan EXCEPT ![p] = [content |-> c, next |-> "standby"]]
      BY <2>1 DEF Writes, Moves
    <2>5. /\ pc' \in [Processes -> States]
          /\ plan' \in [Hosts -> Plans \cup {None}]
          /\ RecordInv'
      BY <1>1, <2>3, <2>4, TakesLockKeeps
    <2>6. socket' = socket
      BY <1>4 DEF StartAsStandby
    <2> QED BY <1>1, <1>3, <2>1, <2>2, <2>5, <2>6 DEF IInv, WellFormed, MaxChecks
  <1>5. CASE StartAsLeader(p)
    <2>1. /\ pc' = [pc EXCEPT ![p] = "clearing"]
          /\ plan' = [plan EXCEPT ![p] = [content |-> d, next |-> "warming"]]
          /\ socket' = None /\ clock' = clock
      BY <1>5 DEF StartAsLeader, d, Moves, time
    <2>2. PlanSound(p, d, "warming")
      BY <1>1, <1>2, EntriesFacts DEF Sound, PlanSound, Unlisted
    <2>3. /\ pc' \in [Processes -> States]
          /\ plan' \in [Hosts -> Plans \cup {None}]
          /\ RecordInv'
      BY <1>1, <1>2, <2>1, <2>2, TakesLockKeeps
    <2> QED BY <1>1, <1>3, <2>1, <2>3 DEF IInv, WellFormed, MaxChecks
  <1> QED BY <1>4, <1>5

\* What it kept of the record is still true when it registers (run_host).
LEMMA RegisterWarmingKeeps ==
  ASSUME IInv, NEW p \in Hosts, RegisterWarming(p)
  PROVE  IInv'
  <1> PICK d : d = plan[p].content
    OBVIOUS
  <1>1. PICK at \in Stamps :
          clock' = at /\ Writes(p, [d EXCEPT !.leader = Entry(p, at, "Warming")], "warming")
    BY DEF RegisterWarming
  <1>2. at \in Nat \ {0} /\ at \in Nat
    BY <1>1, StampFacts DEF IInv
  <1>3. /\ pc \in [Processes -> States] /\ plan \in [Hosts -> Plans \cup {None}]
        /\ pc[p] = "cleared" /\ Writer(p) /\ lock = p /\ plan[p] \in Plans
        /\ PlanSound(p, d, "warming")
        /\ \A q \in Hosts : Writer(q) => q = p
    BY DEF IInv, WellFormed, RecordInv, PlansSound, WritersHoldLock, Writer, WriterStates,
           Writing, RegisterWarming
  <1>4. d \in Clusters /\ PlanSound(p, d, "warming")
    BY <1>3 DEF Plans
  <1> PICK c : c = [d EXCEPT !.leader = Entry(p, at, "Warming")]
    OBVIOUS
  <1>5. c \in Clusters /\ PlanSound(p, c, "warming")
    BY <1>2, <1>4, WarmingPlan
  <1>6. /\ pc' = [pc EXCEPT ![p] = "planned"]
        /\ plan' = [plan EXCEPT ![p] = [content |-> c, next |-> "warming"]]
        /\ UNCHANGED <<file, lock, socket, horizon, setting, seen, checks, crashed, misled>>
    BY <1>1 DEF Writes, Moves, RegisterWarming
  <1>7. /\ pc' \in [Processes -> States] /\ pc'[p] = "planned"
        /\ \A q \in Hosts : q # p => pc'[q] = pc[q]
    BY <1>3, <1>6 DEF States
  <1>8. [content |-> c, next |-> "warming"] \in Plans
    BY <1>5 DEF Plans
  <1>9. plan' \in [Hosts -> Plans \cup {None}] /\ plan'[p] \in Plans
        /\ plan'[p].content = c /\ plan'[p].next = "warming"
    BY <1>3, <1>6, <1>8
  <1>10. \A q \in Hosts : Writer(q)' <=> q = p
    BY <1>3, <1>7 DEF Writer, WriterStates, Writing
  <1>11. WellFormed'
    BY <1>1, <1>2, <1>6, <1>7, <1>9 DEF IInv, WellFormed, MaxChecks
  <1>12. WritersHoldLock'
    BY <1>3, <1>6, <1>7, <1>9, <1>10 DEF WritersHoldLock, Writing
  <1>13. OpenFilesAreTorn'
    BY <1>7, <1>10 DEF OpenFilesAreTorn, Writer, WriterStates, Writing
  <1>14. FileSound'
    <2> SUFFICES ASSUME Known(file)
                 PROVE  FileSound'
      BY <1>6 DEF FileSound
    <2>1. file \in Clusters
      BY DEF IInv, WellFormed, Known
    <2>2. FileSound
      BY DEF IInv, RecordInv
    <2>3. \A e \in EntriesOf(file) : e.pid # p
      BY <1>3, <2>2 DEF FileSound, Unlisted
    <2> QED BY <1>6, <1>7, <2>1, <2>2, <2>3, EntriesFacts DEF FileSound
  <1>15. PlanSound(p, c, "warming")'
    BY <1>5, <1>6, <1>7, EntriesFacts DEF PlanSound
  <1>16. PlansSound'
    BY <1>9, <1>10, <1>15 DEF PlansSound
  <1> QED BY <1>11, <1>12, <1>13, <1>14, <1>16 DEF IInv, RecordInv

\* The leader registers what it is (start_with_binder).
LEMMA RegisterReadyKeeps ==
  ASSUME IInv, NEW p \in Hosts, RegisterReady(p)
  PROVE  IInv'
  <1> DEFINE d == Cluster
  <1>1. /\ pc[p] \in {"bound", "exposed"} /\ lock = None /\ lock' = p /\ file # Torn
        /\ file' = file /\ Misled("overridden", pc[p] = "exposed" /\ Overrides(p))
        /\ UNCHANGED <<socket, horizon, setting, seen, checks, crashed>>
    BY DEF RegisterReady, Acquire
  <1>2. Sound(d)
    BY <1>1, ClusterSound
  <1>3. PICK at \in Stamps :
          clock' = at /\ Writes(p, [d EXCEPT !.leader = Entry(p, at, "Ready")], "leading")
    BY DEF RegisterReady
  <1> HIDE DEF d
  <1>4. misled' \subseteq Ways
    BY <1>1, MisledFacts DEF IInv, Ways
  <1>5. at \in Nat \ {0} /\ at \in Nat
    BY <1>3, StampFacts DEF IInv
  <1> PICK c : c = [d EXCEPT !.leader = Entry(p, at, "Ready")]
    OBVIOUS
  <1>6. c \in Clusters /\ PlanSound(p, c, "leading")
    BY <1>1, <1>2, <1>5, LeaderPlan DEF Resting
  <1>7. /\ pc' = [pc EXCEPT ![p] = "planned"]
        /\ plan' = [plan EXCEPT ![p] = [content |-> c, next |-> "leading"]]
    BY <1>3 DEF Writes, Moves
  <1>8. /\ pc' \in [Processes -> States]
        /\ plan' \in [Hosts -> Plans \cup {None}]
        /\ RecordInv'
    BY <1>1, <1>6, <1>7, TakesLockKeeps
  <1> QED BY <1>1, <1>3, <1>4, <1>5, <1>8 DEF IInv, WellFormed, MaxChecks

\* A process that leaves takes its own entries out (deregister_from_cluster).
LEMMA DeregisterKeeps ==
  ASSUME IInv, NEW p \in Hosts, Deregister(p)
  PROVE  IInv'
  <1>1. CASE file = Torn
    BY <1>1, TornKeeps DEF Deregister
  <1>2. CASE file # Torn
    <2> PICK next, c : /\ next = IF pc[p] = "closed" THEN "gone" ELSE "left"
                       /\ c = Without(Cluster, p)
      OBVIOUS
    <2>1. /\ lock = None /\ lock' = p /\ file' = file
          /\ pc' = [pc EXCEPT ![p] = "planned"]
          /\ plan' = [plan EXCEPT ![p] = [content |-> c, next |-> next]]
          /\ UNCHANGED <<socket, clock, horizon, setting, seen, checks, crashed, misled>>
      BY <1>2 DEF Deregister, Writes, Moves, time
    <2>2. Sound(Cluster)
      BY <1>2, <2>1, ClusterSound
    <2>3. c \in Clusters /\ PlanSound(p, c, next)
      BY <2>2, DeparturePlan
    <2>4. next \in {"standby", "warming", "leading", "gone", "left"}
      OBVIOUS
    <2>5. /\ pc' \in [Processes -> States]
          /\ plan' \in [Hosts -> Plans \cup {None}]
          /\ RecordInv'
      BY <1>2, <2>1, <2>3, <2>4, TakesLockKeeps
    <2> QED BY <2>1, <2>5 DEF IInv, WellFormed, MaxChecks
  <1> QED BY <1>1, <1>2

\* A standby elects somebody or goes back to waiting (try_promote_to_leader).
LEMMA PromoteKeeps ==
  ASSUME IInv, NEW p \in Hosts, Promote(p)
  PROVE  IInv'
  <1> DEFINE d == PruneDead(Cluster)
  <1>1. /\ pc[p] = "promoting" /\ lock = None /\ file # Torn /\ file' = file
        /\ UNCHANGED <<clock, horizon, setting, seen, checks, crashed>>
        /\ socket' \in {socket, None}
    BY DEF Promote, Elect, time
  <1>2. misled' \subseteq Ways
    BY MisledFacts DEF Promote, Elect, IInv, WellFormed, Ways
  <1>3. CASE Moves(p, "standby") /\ UNCHANGED <<lock, plan>>
    <2>1. pc' \in [Processes -> States] /\ RecordInv'
      BY <1>1, <1>3, MoveKeeps
         DEF Follows, States, WriterStates, Writing, Resting, Served, Unlisted
    <2> QED BY <1>1, <1>2, <1>3, <2>1 DEF IInv, WellFormed, MaxChecks
  <1>4. ASSUME NEW e \in Newest(d), lock' = p,
               Writes(p, Elected(d, e), IF e.pid = p THEN "warming" ELSE "standby")
        PROVE  IInv'
    <2>1. PICK next, c : /\ next = IF e.pid = p THEN "warming" ELSE "standby"
                         /\ c = Elected(d, e)
      OBVIOUS
    <2>2. Sound(d) /\ e \in d.standbys
      BY <1>1, <1>4, ClusterSound DEF Newest
    <2> HIDE DEF d
    <2>3. c \in Clusters /\ PlanSound(p, c, next)
      BY <2>1, <2>2, ElectionPlan
    <2>4. next \in {"standby", "warming", "leading", "gone", "left"}
      BY <2>1
    <2>5. /\ pc' = [pc EXCEPT ![p] = "planned"]
          /\ plan' = [plan EXCEPT ![p] = [content |-> c, next |-> next]]
      BY <1>4, <2>1 DEF Writes, Moves
    <2>6. /\ pc' \in [Processes -> States]
          /\ plan' \in [Hosts -> Plans \cup {None}]
          /\ RecordInv'
      BY <1>1, <1>4, <2>3, <2>4, <2>5, TakesLockKeeps
    <2> QED BY <1>1, <1>2, <1>4, <2>6 DEF IInv, WellFormed, MaxChecks
  <1>5. \/ Moves(p, "standby") /\ UNCHANGED <<lock, plan>>
        \/ \E e \in Newest(d) :
              lock' = p /\ Writes(p, Elected(d, e), IF e.pid = p THEN "warming" ELSE "standby")
    BY DEF Promote, Elect
  <1> QED BY <1>3, <1>4, <1>5

\* Steps after which one host is elsewhere, with the record as it was or removed
\* (bind_socket_path, cleanup, run_standby).
LEMMA MovesKeep ==
  ASSUME IInv, NEW p \in Hosts,
         \/ BindSocket(p) \/ Stop(p) \/ CloseEndpoint(p) \/ RemoveSocket(p)
         \/ Poll(p) \/ PollDone(p) \/ WatchAsks(p) \/ Crash(p) \/ Fails(p)
  PROVE  IInv'
  <1> USE DEF Follows, States, WriterStates, Writing, Resting, Served, Unlisted, time
  <1>1. CASE BindSocket(p)
    <2>1. pc' \in [Processes -> States] /\ RecordInv'
      BY <1>1, MoveKeeps DEF BindSocket
    <2>2. misled' \subseteq Ways
      BY <1>1, MisledFacts DEF BindSocket, IInv, Ways
    <2> QED BY <1>1, <2>1, <2>2 DEF BindSocket, IInv, WellFormed, MaxChecks
  <1>2. CASE Stop(p) \/ CloseEndpoint(p) \/ RemoveSocket(p)
    <2>1. pc' \in [Processes -> States] /\ RecordInv'
      BY <1>2, MoveKeeps DEF Stop, CloseEndpoint, RemoveSocket
    <2> QED BY <1>2, <2>1 DEF Stop, CloseEndpoint, RemoveSocket, IInv, WellFormed, MaxChecks
  <1>3. CASE Poll(p) \/ WatchAsks(p)
    <2>1. pc' \in [Processes -> States] /\ RecordInv'
      BY <1>3, MoveKeeps DEF Poll, WatchAsks
    <2>2. seen' \in [Processes -> Clusters \cup {None, Torn}]
      BY <1>3 DEF Poll, WatchAsks, Load, IInv, WellFormed
    <2> QED BY <1>3, <2>1, <2>2 DEF Poll, WatchAsks, IInv, WellFormed, MaxChecks
  <1>4. CASE PollDone(p)
    <2>1. pc' \in [Processes -> States] /\ RecordInv'
      BY <1>4, MoveKeeps DEF PollDone, Drop
    <2>2. misled' \subseteq Ways /\ file' \in {file, None}
      BY <1>4, DropMisledFacts DEF PollDone, Drop, IInv
    <2> QED BY <1>4, <2>1, <2>2 DEF PollDone, IInv, WellFormed, MaxChecks
  <1>5. CASE Crash(p) \/ Fails(p)
    <2>1. /\ Moves(p, "gone") /\ plan' = [plan EXCEPT ![p] = None]
          /\ lock' = (IF lock = p THEN None ELSE lock) /\ crashed' = crashed \cup {p}
          /\ UNCHANGED <<file, socket, clock, horizon, setting, seen, checks, misled>>
      BY <1>5 DEF Crash, Fails, Dies
    <2>2. plan' \in [Hosts -> Plans \cup {None}] /\ \A q \in Hosts : q # p => plan'[q] = plan[q]
      BY <2>1 DEF IInv, WellFormed
    <2>3. pc' \in [Processes -> States] /\ RecordInv'
      BY <2>1, <2>2, MoveKeeps
    <2> QED BY <2>1, <2>2, <2>3 DEF IInv, WellFormed, MaxChecks
  <1> QED BY <1>1, <1>2, <1>3, <1>4, <1>5

\* A previous host that is asked to stop goes on to do so (request_shutdown).
LEMMA ShutdownPreviousKeeps ==
  ASSUME IInv, NEW p \in Hosts, ShutdownPrevious(p)
  PROVE  IInv'
  <1> USE DEF Follows, States, WriterStates, Writing, Resting, Served, Unlisted, time
  <1>1. /\ pc[p] = "clearing" /\ file' \in {file, None} /\ misled' \subseteq Ways
        /\ UNCHANGED <<lock, socket, clock, horizon, setting, plan, seen, checks, crashed>>
    BY DropMisledFacts DEF ShutdownPrevious, Drop, IInv
  <1>2. WritersHoldLock /\ pc \in [Processes -> States] /\ plan[p] \in Plans
    BY <1>1 DEF IInv, RecordInv, WellFormed, WritersHoldLock, Writer
  <1>3. \/ pc' = [pc EXCEPT ![p] = "cleared"]
        \/ /\ Connected
           /\ \E s \in AskedToStop(socket) : pc' = [pc EXCEPT ![p] = "cleared", ![socket] = s]
    BY DEF ShutdownPrevious, Moves
  <1>4. PICK q \in Hosts, s \in States :
          /\ pc' = [pc EXCEPT ![p] = "cleared", ![q] = s]
          /\ q # p => \/ s = pc[q]
                      \/ pc[q] = "leading" /\ s = "stopping"
                      \/ pc[q] = "stopping" /\ s = "joined"
          /\ q = p => s = "cleared"
    <2>1. CASE pc' = [pc EXCEPT ![p] = "cleared"]
      <3>1. pc' = [pc EXCEPT ![p] = "cleared", ![p] = "cleared"]
        BY <1>2, <2>1
      <3> QED BY <3>1
    <2>2. CASE /\ Connected
               /\ \E s \in AskedToStop(socket) :
                     pc' = [pc EXCEPT ![p] = "cleared", ![socket] = s]
      <3>1. PICK s \in AskedToStop(socket) :
              pc' = [pc EXCEPT ![p] = "cleared", ![socket] = s]
        BY <2>2
      <3>2. socket \in Hosts /\ socket # p /\ pc[socket] \in States
        BY <1>1, <1>2, <2>2 DEF Connected, Listening, IInv, WellFormed
      <3>3. /\ s \in States
            /\ \/ s = pc[socket]
               \/ pc[socket] = "leading" /\ s = "stopping"
               \/ pc[socket] = "stopping" /\ s = "joined"
        BY <3>1, <3>2 DEF AskedToStop
      <3> QED BY <3>1, <3>2, <3>3
    <2> QED BY <1>3, <2>1, <2>2
  <1>5. /\ pc' \in [Processes -> States] /\ pc'[p] = "cleared"
        /\ q # p => pc'[q] = s
        /\ \A u \in Processes : u \notin {p, q} => pc'[u] = pc[u]
    BY <1>2, <1>4
  <1>6. \A u \in Hosts : Follows(pc[u], pc'[u]) /\ (pc'[u] = "gone" => pc[u] = "gone")
    BY <1>1, <1>4, <1>5
  <1>7. RecordInv'
    BY <1>1, <1>6, MovesOnKeeps
  <1> QED BY <1>1, <1>5, <1>7 DEF IInv, WellFormed, MaxChecks

\* A request removes the record at most, and may cut off a host that is closing
\* (try_request_check, host_is_available).
LEMMA RequestKeeps ==
  ASSUME IInv, NEW r \in Processes, Request(r)
  PROVE  IInv'
  <1> USE DEF Follows, States, WriterStates, Writing, Resting, Served, Unlisted, time
  <1>1. /\ pc \in [Processes -> States] /\ seen \in [Processes -> Clusters \cup {None, Torn}]
        /\ \A s \in Answered(r) : s \in {"idle", "gone", "opening"}
        /\ Alone(r) \in {"idle", "opening"}
    BY DEF IInv, WellFormed, Alone, Answered
  <1>2. CASE GivesUp(r)
    <2>1. pc' \in [Processes -> States] /\ RecordInv'
      BY <1>1, <1>2, MoveKeeps DEF GivesUp, Drop
    <2>2. misled' \subseteq Ways /\ file' \in {file, None}
      BY <1>2, DropMisledFacts DEF GivesUp, Drop, IInv
    <2> QED BY <1>1, <1>2, <2>1, <2>2 DEF GivesUp, IInv, WellFormed, MaxChecks
  <1>3. CASE IsAnswered(r)
    <2>1. pc' \in [Processes -> States] /\ RecordInv'
      BY <1>1, <1>3, MoveKeeps DEF IsAnswered
    <2> QED BY <1>1, <1>3, <2>1 DEF IsAnswered, IInv, WellFormed, MaxChecks
  <1>4. CASE IsRefused(r)
    <2>1. PICK s \in {"cleaning", Alone(r)} :
            /\ \/ ~Connected /\ Moves(r, s)
               \/ /\ Connected /\ pc[socket] = "stopping"
                  /\ pc' = [pc EXCEPT ![r] = s, ![socket] = "joined"]
            /\ seen' = [seen EXCEPT ![r] = IF s = "cleaning" THEN PruneDead(@) ELSE None]
      BY <1>4 DEF IsRefused
    <2>2. /\ pc[r] = "asking" /\ Known(seen[r])
          /\ UNCHANGED <<file, lock, socket, clock, horizon, setting, plan, checks, crashed,
                         misled>>
      BY <1>4 DEF IsRefused, Unusable
    <2>3. PruneDead(seen[r]) \in Clusters
      BY <1>1, <2>2, PruneFacts DEF Known
    <2>4. seen' \in [Processes -> Clusters \cup {None, Torn}]
      BY <1>1, <2>1, <2>3
    <2>5. CASE Moves(r, s)
      <3>1. pc' \in [Processes -> States] /\ RecordInv'
        BY <1>1, <2>1, <2>2, <2>5, MoveKeeps
      <3> QED BY <2>2, <2>4, <3>1 DEF IInv, WellFormed, MaxChecks
    <2>6. CASE /\ Connected /\ pc[socket] = "stopping"
               /\ pc' = [pc EXCEPT ![r] = s, ![socket] = "joined"]
      <3>1. socket \in Hosts /\ socket # r
        BY <2>2, <2>6 DEF Connected, IInv, WellFormed
      <3>2. pc' \in [Processes -> States] /\ RecordInv'
        BY <1>1, <2>1, <2>2, <2>6, <3>1, MoveBothKeeps
      <3> QED BY <2>2, <2>4, <3>2 DEF IInv, WellFormed, MaxChecks
    <2> QED BY <2>1, <2>5, <2>6
  <1>5. CASE CleansUp(r)
    <2>1. pc' \in [Processes -> States] /\ RecordInv'
      BY <1>1, <1>5, MoveKeeps DEF CleansUp
    <2>2. misled' \subseteq Ways /\ file' \in {file, None}
      BY <1>5, MisledFacts DEF CleansUp, IInv, Ways
    <2> QED BY <1>1, <1>5, <2>1, <2>2 DEF CleansUp, IInv, WellFormed, MaxChecks
  <1> QED BY <1>2, <1>3, <1>4, <1>5 DEF Request

\* The client asks (try_request_check).
LEMMA ClientAsksKeeps ==
  ASSUME IInv, ClientAsks
  PROVE  IInv'
  <1> USE DEF Follows, States, WriterStates, Writing, Resting, Served, Unlisted, time
  <1>1. Client \notin Hosts /\ MaxChecks \in Nat
    BY HostClusterAssumption DEF IInv, WellFormed, MaxChecks
  <1>2. pc' \in [Processes -> States] /\ RecordInv'
    BY <1>1, MoveKeeps DEF ClientAsks
  <1>3. seen' \in [Processes -> Clusters \cup {None, Torn}]
    BY DEF ClientAsks, Load, IInv, WellFormed
  <1>4. checks' \in 0..MaxChecks
    BY <1>1 DEF ClientAsks, IInv, WellFormed
  <1> QED BY <1>2, <1>3, <1>4 DEF ClientAsks, IInv, WellFormed, MaxChecks

\* Time only makes entries old.
LEMMA TimeKeeps ==
  ASSUME IInv, TimePasses
  PROVE  IInv'
  <1>1. /\ UNCHANGED <<file, lock, socket, clock, setting, pc, plan, seen, checks, crashed, misled>>
        /\ horizon' = horizon + 1
    BY DEF TimePasses
  <1>2. RecordInv'
    BY <1>1 DEF IInv, RecordInv, WritersHoldLock, OpenFilesAreTorn, FileSound, PlansSound,
                PlanSound, Writer
  <1> QED BY <1>1, <1>2 DEF IInv, WellFormed, MaxChecks
-----------------------------------------------------------------------------
(* The invariant.                                                          *)

LEMMA InitIInv == Init => IInv
  <1> SUFFICES ASSUME Init PROVE IInv
    OBVIOUS
  <1>1. WellFormed
    BY HostClusterAssumption DEF Init, WellFormed, States, Ways, MaxChecks
  <1>2. \A p \in Hosts : pc[p] = "off"
    BY HostClusterAssumption DEF Init
  <1>3. RecordInv
    BY <1>2 DEF Init, RecordInv, WritersHoldLock, OpenFilesAreTorn, FileSound, PlansSound,
                Writer, WriterStates, Writing, Known
  <1> QED BY <1>1, <1>3 DEF IInv

LEMMA NextIInv == IInv /\ [Next]_vars => IInv'
  <1> SUFFICES ASSUME IInv, [Next]_vars PROVE IInv'
    OBVIOUS
  <1>1. ASSUME NEW p \in Hosts, HostStep(p) \/ Start(p) \/ Stop(p) \/ Crash(p) \/ Fails(p)
        PROVE  IInv'
    <2>1. CASE ReadFails(p)
      BY <2>1, TornKeeps DEF ReadFails
    <2> QED BY <1>1, <2>1, WriteBeginsKeeps, WriteEndsKeeps, StartKeeps, RegisterWarmingKeeps,
               RegisterReadyKeeps, DeregisterKeeps, PromoteKeeps, MovesKeep,
               ShutdownPreviousKeeps, RequestKeeps DEF HostStep, Start
  <1>2. CASE ClientStep
    BY <1>2, ClientAsksKeeps, RequestKeeps DEF ClientStep
  <1>3. CASE TimePasses
    BY <1>3, TimeKeeps
  <1>4. CASE UNCHANGED vars
    BY <1>4 DEF vars, IInv, WellFormed, RecordInv, WritersHoldLock, OpenFilesAreTorn, FileSound,
                PlansSound, PlanSound, Writer, MaxChecks
  <1> QED BY <1>1, <1>2, <1>3, <1>4 DEF Next

\* The invariant, for every behaviour of the cluster.
THEOREM Invariance == Spec => []IInv
  <1> QED BY InitIInv, NextIInv, PTL DEF Spec

\* Every state is well formed, and no process is ever listed twice in the metadata
\* (register_as_standby, try_promote_to_leader, start_with_binder).
THEOREM TypeCorrect == Spec => []TypeOK
  <1>1. IInv => TypeOK
    BY DEF IInv, RecordInv, FileSound, TypeOK
  <1> QED BY <1>1, Invariance, PTL

\* A leader clients are told is Ready has bound its socket, and a process that left
\* by itself stays out of the metadata, in spite of torn writes, readers without the
\* lock, slow warm-ups, crashes and processes that become hosts without a role.
THEOREM RecordCorrect == Spec => []RecordIsTrue
  <1>1. IInv => RecordIsTrue
    BY DEF IInv, RecordInv, FileSound, RecordIsTrue, Served, Writing
  <1> QED BY <1>1, Invariance, PTL
-----------------------------------------------------------------------------
(* The leader that serves.  From its warm-up to the end of its server it   *)
(* is in the file, or the file is being written, and it is in whatever is  *)
(* about to be written, so that nobody elects another; from the bind on    *)
(* the socket path is its own.  It stays so until somebody acts on a wrong *)
(* view of the cluster, which `misled` remembers.                          *)

LeadStates == {"warming", "bound", "leading", "stopping", "joined"}
OwnStates == {"bound", "leading", "stopping"}
Clearing == {"clearing", "cleared"}

Leads(p) == pc[p] \in LeadStates
Elects(p) == pc[p] \in Writing /\ plan[p].next \in {"warming", "leading"}     \* itself
Owns(p) == pc[p] \in OwnStates \/ (pc[p] \in Writing /\ plan[p].next = "leading")

LeadersRegistered == \A p \in Hosts : Leads(p) => file = Torn \/ Led(file, p)

PlansKeepLeaders ==
    \A q \in Hosts : pc[q] \in Writing =>
        /\ \A p \in Hosts : Leads(p) => Led(plan[q].content, p)
        /\ Elects(q) => Led(plan[q].content, q)

ClearingAlone == \A q \in Hosts : pc[q] \in Clearing => \A p \in Hosts : ~Leads(p)
OneLeads == \A p, q \in Hosts : Leads(p) /\ Leads(q) => p = q
OwnersReached == \A p \in Hosts : Owns(p) => socket = p
WritesTorn == \A q \in Hosts : pc[q] = "writing" => file = Torn

Ordered == /\ LeadersRegistered /\ PlansKeepLeaders /\ ClearingAlone
           /\ OneLeads /\ OwnersReached /\ WritesTorn

OrderIInv == IInv /\ (misled = {} => Ordered)
-----------------------------------------------------------------------------
(* What follows when nobody has been misled.                               *)

\* The leader of a record is a living host in it (LosesLiving).
LEMMA LedFacts ==
  ASSUME NEW c \in Clusters, NEW p \in Hosts, Leads(p), Led(c, p)
  PROVE  /\ c.leader \in EntriesOf(c) /\ Alive(c.leader.pid) /\ HasLivingLeader(c)
         /\ ~StrikesLiving(c) => PruneDead(c).leader = c.leader
  BY EntriesFacts, PruneFacts
     DEF Led, Leads, LeadStates, Alive, HasLivingLeader, StrikesLiving

\* If a record is lost and no living host with it, nobody leads.
LEMMA NobodyLost ==
  ASSUME IInv, Ordered, ~LosesLiving
  PROVE  file # Torn /\ \A p \in Hosts : ~Leads(p)
  <1>1. file # Torn /\ (file # None => file \in Clusters)
    BY DEF LosesLiving, IInv, WellFormed
  <1>2. ASSUME NEW p \in Hosts, Leads(p) PROVE FALSE
    <2>1. Led(file, p) /\ file # None
      BY <1>1, <1>2 DEF Ordered, LeadersRegistered, Led, Known
    <2> QED BY <1>1, <1>2, <2>1, LedFacts DEF LosesLiving
  <1> QED BY <1>1, <1>2

\* If the record that is read with the lock has no living leader, nobody leads, and
\* nobody owns the socket path (run_host, try_promote_to_leader).
LEMMA NobodyLeads ==
  ASSUME IInv, Ordered, lock = None, file # Torn, ~StrikesLiving(Cluster),
         ~HasLivingLeader(PruneDead(Cluster))
  PROVE  \A p \in Hosts : ~Leads(p) /\ ~Owns(p)
  <1>1. ASSUME NEW p \in Hosts, Leads(p) PROVE FALSE
    <2>1. Led(file, p) /\ Cluster = file /\ file \in Clusters
      BY <1>1 DEF Ordered, LeadersRegistered, Led, Known, Cluster, IInv, WellFormed
    <2> QED BY <1>1, <2>1, LedFacts DEF HasLivingLeader
  <1> QED BY <1>1, FreeLockFacts
          DEF Owns, Leads, OwnStates, LeadStates, Writer, WriterStates

\* Whoever owns the socket path is the one that leads.
LEMMA OwnersLead ==
  ASSUME IInv, Ordered, NEW p \in Hosts, Leads(p), NEW q \in Hosts, Owns(q)
  PROVE  q = p
  <1>1. CASE Leads(q)
    BY <1>1 DEF Ordered, OneLeads
  <1>2. CASE pc[q] \in Writing /\ plan[q].next = "leading"
    BY <1>2 DEF Ordered, PlansKeepLeaders, Elects, Led
  <1> QED BY <1>1, <1>2 DEF Owns, Leads, OwnStates, LeadStates

\* Who owns the socket path accepts there (Connected).
LEMMA OwnersConnect ==
  ASSUME IInv, Ordered, NEW p \in Hosts, Owns(p)
  PROVE  Connected
  <1>1. socket = p /\ socket # None
    BY HostClusterAssumption DEF Ordered, OwnersReached
  <1> QED BY <1>1 DEF Connected, Alive, Listening, Owns, OwnStates, Writing

\* Steps after which nobody new leads, plans or clears.
Settles(s, t) ==
    /\ t \in LeadStates => s \in LeadStates
    /\ t \in Writing => t = s
    /\ t \in Clearing => s \in Clearing

\* Such a step keeps the leader where it is, if it leaves the socket path to it.
LEMMA LeadersStay ==
  ASSUME IInv, Ordered,
         \A q \in Hosts : Settles(pc[q], pc'[q]),
         \A q \in Hosts : pc'[q] \in Writing => plan'[q] = plan[q],
         \/ file' = file
         \/ file' = None /\ ~LosesLiving,
         OwnersReached'
  PROVE  Ordered'
  <1>1. \A q \in Hosts : Leads(q)' => Leads(q)
    BY DEF Leads, Settles
  <1>2. \A q \in Hosts : pc'[q] \in Writing => pc'[q] = pc[q] /\ plan'[q] = plan[q]
    BY DEF Settles
  <1>3. \/ file' = file
        \/ file # Torn /\ \A p \in Hosts : ~Leads(p)
    BY NobodyLost
  <1>4. LeadersRegistered'
    BY <1>1, <1>3 DEF Ordered, LeadersRegistered, Led, Known
  <1>5. PlansKeepLeaders'
    BY <1>1, <1>2 DEF Ordered, PlansKeepLeaders, Elects, Led, Known
  <1>6. ClearingAlone' /\ OneLeads'
    BY <1>1 DEF Ordered, ClearingAlone, OneLeads, Settles
  <1>7. WritesTorn'
    BY <1>2, <1>3 DEF Ordered, WritesTorn, Writing
  <1> QED BY <1>4, <1>5, <1>6, <1>7 DEF Ordered

\* The socket path stays as it is, or nobody owned it.
LEMMA OwnersStay ==
  ASSUME Ordered,
         socket' = socket \/ \A q \in Hosts : ~Owns(q),
         \A q \in Hosts : pc'[q] \in Writing => pc'[q] = pc[q] /\ plan'[q] = plan[q],
         \A q \in Hosts : pc'[q] \in OwnStates => pc[q] \in OwnStates
  PROVE  OwnersReached'
  BY DEF Ordered, OwnersReached, Owns

\* A host that takes the lock to write keeps the leader in the record, or is the one.
LEMMA WritesOrdered ==
  ASSUME IInv, Ordered, NEW p \in Hosts, NEW c \in Clusters,
         NEW next \in {"standby", "warming", "leading", "gone", "left"},
         lock = None, file # Torn, file' = file, Writes(p, c, next),
         \A q \in Hosts : q # p /\ Leads(q) => Led(c, q),
         next \in {"warming", "leading"} => Led(c, p),
         next = "leading" => socket' = p,
         \A q \in Hosts : q # p /\ Owns(q) => socket' = q
  PROVE  Ordered'
  <1> DEFINE w == [content |-> c, next |-> next]
  <1>1. /\ pc' = [pc EXCEPT ![p] = "planned"] /\ plan' = [plan EXCEPT ![p] = w]
        /\ w.content = c /\ w.next = next
    BY DEF Writes, Moves
  <1> HIDE DEF w
  <1>2. /\ pc'[p] = "planned" /\ plan'[p] = w
        /\ \A q \in Hosts : q # p => pc'[q] = pc[q] /\ plan'[q] = plan[q]
    BY <1>1 DEF IInv, WellFormed
  <1>3. \A q \in Hosts : pc[q] \notin WriterStates
    BY FreeLockFacts DEF Writer
  <1>4. \A q \in Hosts : Leads(q)' => q # p /\ Leads(q)
    BY <1>2 DEF Leads, LeadStates
  <1>5. \A q \in Hosts : pc'[q] \in Writing => q = p
    BY <1>2, <1>3 DEF WriterStates
  <1>6. LeadersRegistered' /\ OneLeads'
    BY <1>4 DEF Ordered, LeadersRegistered, OneLeads, Led, Known
  <1>7. PlansKeepLeaders'
    BY <1>1, <1>2, <1>4, <1>5 DEF PlansKeepLeaders, Elects, Led, Known
  <1>8. ClearingAlone' /\ WritesTorn'
    BY <1>2, <1>3 DEF ClearingAlone, WritesTorn, WriterStates, Clearing, Writing
  <1>9. OwnersReached'
    BY <1>1, <1>2 DEF OwnersReached, Owns, OwnStates, Writing
  <1> QED BY <1>6, <1>7, <1>8, <1>9 DEF Ordered
-----------------------------------------------------------------------------
(* One lemma per step, as long as nobody is misled.                        *)

\* Opening the file, or filling it, with the leader in it (std::fs::write).
LEMMA WriteOrdered ==
  ASSUME IInv, Ordered, NEW p \in Hosts, WriteBegins(p) \/ WriteEnds(p)
  PROVE  Ordered'
  <1> PICK c, next : c = plan[p].content /\ next = plan[p].next
    OBVIOUS
  <1>1. /\ pc \in [Processes -> States] /\ plan \in [Hosts -> Plans \cup {None}]
        /\ Writer(p) /\ pc[p] \in Writing /\ plan[p] \in Plans
        /\ \A q \in Hosts : Writer(q) => q = p
    BY DEF IInv, WellFormed, RecordInv, WritersHoldLock, Writer, WriterStates, Writing,
           WriteBegins, WriteEnds
  <1>2. /\ c \in Clusters /\ next \in {"standby", "warming", "leading", "gone", "left"}
        /\ \A q \in Hosts : Leads(q) => Led(c, q)
        /\ Elects(p) => Led(c, p)
    BY <1>1 DEF Plans, Ordered, PlansKeepLeaders
  <1>3. CASE WriteBegins(p)
    <2>1. /\ pc[p] = "planned" /\ pc'[p] = "writing" /\ file' = Torn
          /\ \A q \in Hosts : q # p => pc'[q] = pc[q]
          /\ plan' = plan /\ socket' = socket
      BY <1>1, <1>3 DEF WriteBegins, Moves
    <2>2. \A q \in Hosts : (Leads(q)' <=> Leads(q)) /\ (Owns(q)' <=> Owns(q))
      BY <2>1 DEF Leads, LeadStates, Owns, OwnStates, Writing
    <2>3. LeadersRegistered' /\ WritesTorn'
      BY <2>1 DEF LeadersRegistered, WritesTorn
    <2>4. PlansKeepLeaders'
      BY <1>1, <2>1, <2>2 DEF Ordered, PlansKeepLeaders, Elects, Led, Known, Writing
    <2>5. ClearingAlone' /\ OneLeads' /\ OwnersReached'
      BY <2>1, <2>2 DEF Ordered, ClearingAlone, OneLeads, OwnersReached, Clearing
    <2> QED BY <2>3, <2>4, <2>5 DEF Ordered
  <1>4. CASE WriteEnds(p)
    <2> PICK s : s = IF next = "left" THEN "gone" ELSE next
      OBVIOUS
    <2>1. /\ pc'[p] = s
          /\ \A q \in Hosts : q # p => pc'[q] = pc[q]
          /\ socket' = socket /\ pc[p] = "writing"
      BY <1>1, <1>4 DEF WriteEnds, Moves
    <2>2. file' = c \/ (next = "gone" /\ c = Empty)
      BY <1>4, <2>1 DEF WriteEnds, Ordered, WritesTorn
    <2>3. \A q \in Hosts : pc'[q] \notin WriterStates
      BY <1>1, <1>2, <2>1 DEF Writer, WriterStates, Writing
    <2>4. \A q \in Hosts : Leads(q)' => Led(c, q) /\ (q = p => next \in {"warming", "leading"})
      BY <1>1, <1>2, <2>1 DEF Leads, LeadStates, Elects
    <2>5. \A q \in Hosts : ~Led(Empty, q)
      BY DEF Led, Empty
    <2>6. LeadersRegistered' /\ OneLeads'
      BY <2>2, <2>4, <2>5 DEF LeadersRegistered, OneLeads, Led, Known
    <2>7. PlansKeepLeaders' /\ ClearingAlone' /\ WritesTorn'
      BY <2>3 DEF PlansKeepLeaders, ClearingAlone, WritesTorn, WriterStates, Writing, Clearing
    <2>8. \A q \in Hosts : Owns(q)' => Owns(q)
      BY <1>1, <1>2, <2>1, <2>3 DEF Owns, OwnStates, WriterStates
    <2>9. OwnersReached'
      BY <2>1, <2>8 DEF Ordered, OwnersReached
    <2> QED BY <2>6, <2>7, <2>9 DEF Ordered
  <1> QED BY <1>3, <1>4

\* A standby leaves the leader in the record; who finds none alive has the cluster to
\* itself (run_host, register_warming_leader).
LEMMA StartOrdered ==
  ASSUME IInv, misled = {} => Ordered, misled' = {}, NEW p \in Hosts,
         StartAsStandby(p) \/ StartAsLeader(p) \/ RegisterWarming(p)
  PROVE  Ordered'
  <1> DEFINE d == PruneDead(Cluster)
  <1>1. CASE RegisterWarming(p)
    <2>1. Ordered
      BY <1>1 DEF RegisterWarming
    <2> PICK c : c = plan[p].content
      OBVIOUS
    <2>2. PICK at \in Stamps :
            Writes(p, [c EXCEPT !.leader = Entry(p, at, "Warming")], "warming")
      BY <1>1 DEF RegisterWarming
    <2>3. /\ pc[p] = "cleared" /\ Writer(p) /\ plan[p] \in Plans /\ c \in Clusters
          /\ \A q \in Hosts : Writer(q) => q = p
          /\ \A q \in Hosts : ~Leads(q)
      BY <1>1, <2>1 DEF RegisterWarming, Writer, WriterStates, IInv, RecordInv, WritersHoldLock,
                        Plans, Ordered, ClearingAlone, Clearing
    <2> PICK k : k = [c EXCEPT !.leader = Entry(p, at, "Warming")]
      OBVIOUS
    <2>4. Led(k, p)
      <3>1. at \in Nat \ {0}
        BY StampFacts DEF IInv
      <3>2. k \in Clusters /\ k.leader.pid = p /\ k.leader \in Entries
        BY <2>3, <3>1 DEF Clusters, Entries, Entry
      <3> QED BY <3>2, HostClusterAssumption DEF Led, Known
    <2>5. /\ pc'[p] = "planned" /\ plan'[p].content = k /\ plan'[p].next = "warming"
          /\ \A q \in Hosts : q # p => pc'[q] = pc[q]
          /\ file' = file /\ socket' = socket
      BY <1>1, <2>2 DEF Writes, Moves, RegisterWarming, IInv, WellFormed
    <2>6. \A q \in Hosts : ~Leads(q)' /\ (pc'[q] \in WriterStates => q = p)
      BY <2>3, <2>5 DEF Leads, LeadStates, Writer
    <2>7. LeadersRegistered' /\ OneLeads' /\ ClearingAlone'
      BY <2>6 DEF LeadersRegistered, OneLeads, ClearingAlone
    <2>8. PlansKeepLeaders'
      BY <2>4, <2>5, <2>6 DEF PlansKeepLeaders, Led, Known, WriterStates
    <2>9. OwnersReached' /\ WritesTorn'
      BY <2>5, <2>6 DEF OwnersReached, Owns, OwnStates, WritesTorn, WriterStates, Writing, Leads,
                        LeadStates
    <2> QED BY <2>7, <2>8, <2>9 DEF Ordered
  <1>2. CASE StartAsStandby(p) \/ StartAsLeader(p)
    <2>1. /\ pc[p] = "off" /\ lock = None /\ file # Torn /\ file' = file
          /\ Misled("struck", StrikesLiving(Cluster))
      BY <1>2 DEF StartAsStandby, StartAsLeader, Acquire
    <2>2. Ordered /\ ~StrikesLiving(Cluster)
      BY <2>1, MisledFacts DEF IInv, Ways
    <2>3. Sound(d) /\ d \in Clusters /\ Cluster \in Clusters
      BY <2>1, ClusterSound DEF Sound
    <2>4. CASE StartAsStandby(p)
      <3>1. PICK at \in Stamps : Writes(p, WithStandby(d, p, at), "standby")
        BY <2>4 DEF StartAsStandby
      <3> PICK c : c = WithStandby(d, p, at)
        OBVIOUS
      <3>2. at \in Nat \ {0}
        BY StampFacts DEF IInv
      <3>3. c \in Clusters /\ c.leader = d.leader
        BY <2>1, <2>3, <3>2, StandbyPlan
      <3>4. ASSUME NEW q \in Hosts, Leads(q) PROVE Led(c, q)
        <4>1. Led(file, q) /\ Cluster = file
          BY <2>1, <2>2, <3>4 DEF Ordered, LeadersRegistered, Led, Known, Cluster
        <4>2. d.leader = file.leader
          BY <2>2, <2>3, <3>4, <4>1, LedFacts
        <4> QED BY <3>3, <4>1, <4>2, HostClusterAssumption DEF Led, Known
      <3>5. socket' = socket
        BY <2>4 DEF StartAsStandby
      <3> QED BY <2>1, <2>2, <3>1, <3>3, <3>4, <3>5, WritesOrdered DEF Ordered, OwnersReached
    <2>5. CASE StartAsLeader(p)
      <3>1. \A q \in Hosts : ~Leads(q) /\ ~Owns(q)
        BY <2>1, <2>2, <2>5, NobodyLeads DEF StartAsLeader
      <3>2. /\ pc'[p] = "clearing"
            /\ \A q \in Hosts : q # p => pc'[q] = pc[q] /\ plan'[q] = plan[q]
        BY <2>5 DEF StartAsLeader, Moves, IInv, WellFormed
      <3>3. \A q \in Hosts : pc[q] \notin WriterStates
        BY <2>1, FreeLockFacts DEF Writer
      <3>4. \A q \in Hosts : ~Leads(q)' /\ pc'[q] \notin Writing
        BY <3>1, <3>2, <3>3 DEF Leads, LeadStates, Writing, WriterStates
      <3>5. LeadersRegistered' /\ OneLeads' /\ ClearingAlone'
        BY <3>4 DEF LeadersRegistered, OneLeads, ClearingAlone
      <3>6. PlansKeepLeaders' /\ WritesTorn' /\ OwnersReached'
        BY <3>4 DEF PlansKeepLeaders, WritesTorn, OwnersReached, Owns, OwnStates, Leads, LeadStates,
                    Writing
      <3> QED BY <3>5, <3>6 DEF Ordered
    <2> QED BY <1>2, <2>4, <2>5
  <1> QED BY <1>1, <1>2

\* The leader registers over itself; a process without a role finds nobody to lead
\* (start_with_binder).
LEMMA RegisterReadyOrdered ==
  ASSUME IInv, misled = {} => Ordered, misled' = {}, NEW p \in Hosts, RegisterReady(p)
  PROVE  Ordered'
  <1> DEFINE d == Cluster
  <1>1. /\ pc[p] \in {"bound", "exposed"} /\ lock = None /\ file # Torn /\ file' = file
        /\ socket' = socket /\ Misled("overridden", pc[p] = "exposed" /\ Overrides(p))
    BY DEF RegisterReady, Acquire
  <1>2. Ordered /\ (pc[p] = "exposed" => ~Overrides(p))
    BY <1>1, MisledFacts DEF IInv, Ways
  <1>3. PICK at \in Stamps : Writes(p, [d EXCEPT !.leader = Entry(p, at, "Ready")], "leading")
    BY DEF RegisterReady
  <1>4. d \in Clusters
    BY <1>1, ClusterSound DEF Sound
  <1> PICK c : c = [d EXCEPT !.leader = Entry(p, at, "Ready")]
    OBVIOUS
  <1>5. c \in Clusters /\ Led(c, p)
    <2>1. at \in Nat \ {0}
      BY StampFacts DEF IInv
    <2>2. c \in Clusters /\ c.leader.pid = p /\ c.leader \in Entries
      BY <1>4, <2>1 DEF Clusters, Entries, Entry
    <2> QED BY <2>2, HostClusterAssumption DEF Led, Known
  <1>6. \A q \in Hosts : pc[q] \notin Writing
    BY <1>1, FreeLockFacts DEF Writer, WriterStates
  <1>7. CASE pc[p] = "bound"
    <2>1. Leads(p) /\ Owns(p)
      BY <1>7 DEF Leads, LeadStates, Owns, OwnStates
    <2>2. socket = p /\ \A q \in Hosts : Leads(q) => q = p
      BY <1>2, <2>1 DEF Ordered, OwnersReached, OneLeads
    <2>3. \A q \in Hosts : Owns(q) => q = p
      BY <1>2, <2>1, OwnersLead
    <2> QED BY <1>1, <1>2, <1>3, <1>5, <2>2, <2>3, WritesOrdered
  <1>8. CASE pc[p] = "exposed"
    <2>1. socket = p /\ (d.leader # None => ~Alive(d.leader.pid))
      BY <1>2, <1>8 DEF Overrides
    <2>2. \A q \in Hosts : ~Leads(q)
      <3> SUFFICES ASSUME NEW q \in Hosts, Leads(q) PROVE FALSE
        OBVIOUS
      <3>1. Led(file, q) /\ Cluster = file
        BY <1>1, <1>2 DEF Ordered, LeadersRegistered, Led, Known, Cluster
      <3> QED BY <1>4, <2>1, <3>1, LedFacts DEF HasLivingLeader
    <2>3. \A q \in Hosts : ~Owns(q)
      BY <1>6, <2>2 DEF Owns, OwnStates, Leads, LeadStates
    <2> QED BY <1>1, <1>2, <1>3, <1>5, <2>1, <2>2, <2>3, WritesOrdered
  <1> QED BY <1>1, <1>7, <1>8

\* A process that leaves takes nobody else out (deregister_from_cluster).
LEMMA DeregisterOrdered ==
  ASSUME IInv, Ordered, NEW p \in Hosts, Deregister(p)
  PROVE  Ordered'
  <1>1. pc[p] \in {"closed", "leaving"} /\ lock = None /\ file' = file /\ socket' = socket
    BY DEF Deregister
  <1>2. CASE file = Torn
    <2>1. /\ plan' = plan /\ pc'[p] = "gone"
          /\ \A q \in Hosts : q # p => pc'[q] = pc[q]
      BY <1>2 DEF Deregister, Moves, IInv, WellFormed
    <2>2. \A q \in Hosts : /\ Settles(pc[q], pc'[q])
                           /\ pc'[q] \in Writing => pc'[q] = pc[q]
                           /\ pc'[q] \in OwnStates => pc[q] \in OwnStates
      BY <2>1 DEF Settles, LeadStates, Writing, Clearing, OwnStates
    <2> QED BY <1>1, <2>1, <2>2, OwnersStay, LeadersStay
  <1>3. CASE file # Torn
    <2> PICK next, c : /\ next = IF pc[p] = "closed" THEN "gone" ELSE "left"
                       /\ c = Without(Cluster, p)
      OBVIOUS
    <2>1. Writes(p, c, next)
      BY <1>3 DEF Deregister
    <2>2. Sound(Cluster)
      BY <1>1, <1>3, ClusterSound
    <2>3. c \in Clusters
      BY <2>2, DeparturePlan
    <2>4. ASSUME NEW q \in Hosts, q # p, Leads(q) PROVE Led(c, q)
      <3>1. Led(file, q) /\ Cluster = file
        BY <1>3, <2>4 DEF Ordered, LeadersRegistered, Led, Known, Cluster
      <3>2. c.leader = file.leader
        BY <2>4, <3>1 DEF Without, Led
      <3> QED BY <2>3, <3>1, <3>2, HostClusterAssumption DEF Led, Known
    <2> QED BY <1>1, <1>3, <2>1, <2>3, <2>4, WritesOrdered DEF Ordered, OwnersReached
  <1> QED BY <1>2, <1>3

\* The standby that is elected, by itself, has the cluster to itself
\* (try_promote_to_leader).
LEMMA PromoteOrdered ==
  ASSUME IInv, misled = {} => Ordered, misled' = {}, NEW p \in Hosts, Promote(p)
  PROVE  Ordered'
  <1> DEFINE d == PruneDead(Cluster)
  <1>1. pc[p] = "promoting" /\ lock = None /\ file # Torn /\ file' = file
    BY DEF Promote
  <1>2. CASE HasLivingLeader(d)
    <2>1. Ordered /\ socket' = socket /\ plan' = plan /\ Moves(p, "standby")
      BY <1>2 DEF Promote
    <2>2. \A q \in Hosts : /\ Settles(pc[q], pc'[q])
                           /\ pc'[q] \in Writing => pc'[q] = pc[q]
                           /\ pc'[q] \in OwnStates => pc[q] \in OwnStates
      BY <2>1 DEF Settles, LeadStates, Writing, Clearing, OwnStates, Moves, IInv, WellFormed
    <2> QED BY <1>1, <2>1, <2>2, OwnersStay, LeadersStay
  <1>3. CASE ~HasLivingLeader(d)
    <2>1. Elect(p) /\ socket' = None /\ Misled("struck", StrikesLiving(Cluster))
      BY <1>3 DEF Promote, Elect
    <2>2. Ordered /\ ~StrikesLiving(Cluster)
      BY <2>1, MisledFacts DEF IInv, Ways
    <2>3. \A q \in Hosts : ~Leads(q) /\ ~Owns(q)
      BY <1>1, <1>3, <2>2, NobodyLeads
    <2>4. CASE Moves(p, "standby") /\ UNCHANGED <<lock, plan>>
      <3>1. \A q \in Hosts : /\ Settles(pc[q], pc'[q])
                             /\ pc'[q] \in Writing => pc'[q] = pc[q]
                             /\ pc'[q] \in OwnStates => pc[q] \in OwnStates
        BY <2>4 DEF Settles, LeadStates, Writing, Clearing, OwnStates, Moves, IInv, WellFormed
      <3> QED BY <1>1, <2>2, <2>3, <2>4, <3>1, OwnersStay, LeadersStay
    <2>5. ASSUME NEW e \in Newest(d),
                 Writes(p, Elected(d, e), IF e.pid = p THEN "warming" ELSE "standby")
          PROVE  Ordered'
      <3>1. PICK next, c : /\ next = IF e.pid = p THEN "warming" ELSE "standby"
                           /\ c = Elected(d, e)
        OBVIOUS
      <3>2. Sound(d) /\ e \in d.standbys /\ d \in Clusters
        BY <1>1, <2>5, ClusterSound DEF Newest, Sound
      <3>3. c \in Clusters
        BY <3>1, <3>2, ElectionPlan
      <3>4. next = "warming" => Led(c, p)
        <4>1. c.leader = [e EXCEPT !.state = "Warming"]
          BY <3>1 DEF Elected
        <4>2. e \in Entries
          BY <3>2, EntriesFacts
        <4>3. c.leader \in Entries /\ c.leader.pid = e.pid
          BY <4>1, <4>2 DEF Entries
        <4> QED BY <3>1, <3>3, <4>3, HostClusterAssumption DEF Led, Known
      <3>5. Writes(p, c, next) /\ next \in {"standby", "warming"}
        BY <2>5, <3>1
      <3> QED BY <1>1, <2>2, <2>3, <3>3, <3>4, <3>5, WritesOrdered
    <2>6. \/ Moves(p, "standby") /\ UNCHANGED <<lock, plan>>
          \/ \E e \in Newest(d) :
                Writes(p, Elected(d, e), IF e.pid = p THEN "warming" ELSE "standby")
      BY <2>1 DEF Elect
    <2> QED BY <2>4, <2>5, <2>6
  <1> QED BY <1>2, <1>3

\* The path is bound by the one that leads, or by a process that finds nobody there;
\* and only the leader that stops removes it (bind_socket_path, cleanup).
LEMMA SocketOrdered ==
  ASSUME IInv, misled = {} => Ordered, misled' = {}, NEW p \in Hosts,
         BindSocket(p) \/ RemoveSocket(p)
  PROVE  Ordered'
  <1>1. UNCHANGED <<file, plan>>
    BY DEF BindSocket, RemoveSocket
  <1>2. Ordered /\ (pc[p] = "opening" => BindSocket(p) /\ ~Connected)
    <2>1. CASE BindSocket(p)
      <3>1. Misled("overridden", pc[p] = "opening" /\ Connected)
        BY <2>1 DEF BindSocket
      <3> QED BY <2>1, <3>1, MisledFacts DEF IInv, Ways
    <2>2. CASE RemoveSocket(p)
      BY <2>2 DEF RemoveSocket
    <2> QED BY <2>1, <2>2
  <1>3. /\ \/ pc[p] = "warming" /\ pc'[p] = "bound" /\ socket' = p
           \/ pc[p] = "opening" /\ pc'[p] = "exposed" /\ socket' = p
           \/ pc[p] = "joined" /\ pc'[p] = "closed"
        /\ \A q \in Hosts : q # p => pc'[q] = pc[q]
    BY DEF BindSocket, RemoveSocket, Moves, IInv, WellFormed
  <1>4. \A q \in Hosts : Settles(pc[q], pc'[q])
    BY <1>3 DEF Settles, LeadStates, Writing, Clearing
  <1>5. ASSUME NEW q \in Hosts, Owns(q)' PROVE socket' = q
    <2>1. CASE q = p
      BY <1>3, <1>5, <2>1 DEF Owns, OwnStates, Writing
    <2>2. CASE q # p
      <3>1. Owns(q)
        BY <1>1, <1>3, <1>5, <2>2 DEF Owns
      <3>2. pc[p] = "opening"
        BY <1>2, <1>3, <2>2, <3>1, OwnersLead DEF Leads, LeadStates
      <3> QED BY <1>2, <3>1, <3>2, OwnersConnect
    <2> QED BY <2>1, <2>2
  <1> QED BY <1>1, <1>2, <1>4, <1>5, LeadersStay DEF OwnersReached

\* Steps of one process that touch neither the socket path nor a record with a living
\* host in it (run_standby, load_metadata_for_repo, cleanup).
LEMMA OthersOrdered ==
  ASSUME IInv, misled = {} => Ordered, misled' = {}, NEW p \in Hosts,
         \/ ReadFails(p) \/ Stop(p) \/ CloseEndpoint(p) \/ Poll(p) \/ PollDone(p)
         \/ WatchAsks(p) \/ Crash(p) \/ Fails(p)
  PROVE  Ordered'
  <1> USE DEF ReadFails, Stop, CloseEndpoint, Poll, PollDone, WatchAsks, Crash, Fails, Dies
  <1>1. \/ file' = file /\ misled' = misled
        \/ Drop(seen[p]) /\ DropMisleads(seen[p])
    OBVIOUS
  <1>2. Ordered /\ (file' = file \/ (file' = None /\ ~LosesLiving))
    BY <1>1, DropMisledFacts DEF IInv, Drop
  <1>3. /\ socket' = socket
        /\ \/ \E s \in States \ (WriterStates \cup LeadStates) : Moves(p, s)
           \/ pc[p] \in OwnStates /\ Moves(p, "stopping")
           \/ pc[p] \in OwnStates /\ Moves(p, "joined")
    BY DEF States, WriterStates, Writing, LeadStates, OwnStates
  <1>4. /\ \A q \in Hosts : q # p => pc'[q] = pc[q]
        /\ \/ pc'[p] \notin WriterStates \cup LeadStates
           \/ pc[p] \in OwnStates /\ pc'[p] \in {"stopping", "joined"}
    BY <1>3 DEF Moves, IInv, WellFormed, WriterStates, Writing, LeadStates
  <1>5. \A q \in Hosts : q # p => plan'[q] = plan[q]
    BY DEF IInv, WellFormed
  <1>6. \A q \in Hosts : /\ Settles(pc[q], pc'[q])
                         /\ pc'[q] \in Writing => pc'[q] = pc[q] /\ plan'[q] = plan[q]
                         /\ pc'[q] \in OwnStates => pc[q] \in OwnStates
    BY <1>4, <1>5 DEF Settles, LeadStates, WriterStates, Writing, Clearing, OwnStates
  <1> QED BY <1>2, <1>3, <1>6, OwnersStay, LeadersStay

\* While a process clears the way to lead, there is no leader to shut down
\* (request_shutdown).
LEMMA ShutdownOrdered ==
  ASSUME IInv, misled = {} => Ordered, misled' = {}, NEW p \in Hosts, ShutdownPrevious(p)
  PROVE  Ordered'
  <1>1. /\ pc[p] = "clearing" /\ socket' = socket /\ plan' = plan
        /\ Drop(file) /\ DropMisleads(file)
    BY DEF ShutdownPrevious
  <1>2. Ordered /\ (file' = file \/ (file' = None /\ ~LosesLiving))
    BY <1>1, DropMisledFacts DEF IInv, Drop
  <1>3. \A q \in Hosts : ~Leads(q)
    BY <1>1, <1>2 DEF Ordered, ClearingAlone, Clearing
  <1>4. ASSUME Connected PROVE pc[socket] \notin LeadStates
    BY <1>3, <1>4, HostClusterAssumption DEF Connected, IInv, WellFormed, Leads
  <1>5. \/ Moves(p, "cleared")
        \/ pc' = [pc EXCEPT ![p] = "cleared", ![socket] = pc[socket]]
    BY <1>4 DEF ShutdownPrevious, AskedToStop, LeadStates
  <1>6. pc'[p] \in {"cleared", pc[p]} /\ \A q \in Hosts : q # p => pc'[q] = pc[q]
    BY <1>5 DEF Moves, IInv, WellFormed
  <1>7. \A q \in Hosts : /\ Settles(pc[q], pc'[q])
                         /\ pc'[q] \in Writing => pc'[q] = pc[q] /\ plan'[q] = plan[q]
                         /\ pc'[q] \in OwnStates => pc[q] \in OwnStates
    BY <1>1, <1>6 DEF Settles, LeadStates, Writing, Clearing, OwnStates
  <1> QED BY <1>1, <1>2, <1>7, OwnersStay, LeadersStay

\* A request removes only what nobody uses (try_request_check,
\* maybe_cleanup_stale_transport).
LEMMA RequestOrdered ==
  ASSUME IInv, misled = {} => Ordered, misled' = {}, NEW r \in Processes,
         Request(r) \/ ClientAsks
  PROVE  Ordered'
  <1> USE HostClusterAssumption DEF Settles, LeadStates, Writing, Clearing, OwnStates
  <1>1. /\ pc \in [Processes -> States]
        /\ plan' = plan /\ UNCHANGED lock
        /\ \A s \in Answered(r) : s \in {"idle", "gone", "opening"}
        /\ Alone(r) \in {"idle", "opening"}
    BY DEF IInv, WellFormed, Alone, Answered, Request, GivesUp, IsAnswered, IsRefused, CleansUp,
           ClientAsks
  <1>2. CASE GivesUp(r) \/ IsAnswered(r) \/ ClientAsks
    <2>1. \/ file' = file /\ misled' = misled
          \/ Drop(seen[r]) /\ DropMisleads(seen[r])
      BY <1>2 DEF GivesUp, IsAnswered, ClientAsks
    <2>2. Ordered /\ (file' = file \/ (file' = None /\ ~LosesLiving))
      BY <2>1, DropMisledFacts DEF IInv, Drop
    <2>3. socket' = socket /\ \E q \in Processes, s \in {"idle", "gone", "opening", "asking"} :
                                 Moves(q, s)
      BY <1>1, <1>2 DEF GivesUp, IsAnswered, ClientAsks
    <2>4. \A q \in Hosts : /\ Settles(pc[q], pc'[q])
                           /\ pc'[q] \in Writing => pc'[q] = pc[q]
                           /\ pc'[q] \in OwnStates => pc[q] \in OwnStates
      BY <1>1, <2>3 DEF Moves
    <2> QED BY <1>1, <2>2, <2>3, <2>4, OwnersStay, LeadersStay
  <1>3. CASE IsRefused(r)
    <2>1. PICK s \in {"cleaning", "idle", "opening"} :
             \/ Moves(r, s)
             \/ /\ Connected /\ pc[socket] = "stopping"
                /\ pc' = [pc EXCEPT ![r] = s, ![socket] = "joined"]
      BY <1>1, <1>3 DEF IsRefused
    <2>2. Ordered /\ file' = file /\ socket' = socket
      BY <1>3 DEF IsRefused
    <2>3. Connected => socket \in Hosts
      BY DEF Connected, IInv, WellFormed
    <2>4. \A q \in Hosts : \/ pc'[q] \in {pc[q], s}
                           \/ pc[q] = "stopping" /\ pc'[q] = "joined"
      BY <1>1, <2>1, <2>3 DEF Moves
    <2>5. \A q \in Hosts : /\ Settles(pc[q], pc'[q])
                           /\ pc'[q] \in Writing => pc'[q] = pc[q]
                           /\ pc'[q] \in OwnStates => pc[q] \in OwnStates
      BY <2>4
    <2> QED BY <1>1, <2>2, <2>5, OwnersStay, LeadersStay
  <1>4. CASE CleansUp(r)
    <2>1. /\ file' \in {file, None} /\ Moves(r, Alone(r))
          /\ Misled("lost", Connected \/ (seen[r].standbys = {} /\ LosesLiving))
          /\ file' # file => seen[r].standbys = {}
      BY <1>4 DEF CleansUp
    <2>2. Ordered /\ ~Connected /\ (file' # file => ~LosesLiving)
      BY <2>1, MisledFacts DEF IInv, Ways
    <2>3. \A q \in Hosts : ~Owns(q)
      BY <2>2, OwnersConnect
    <2>4. \A q \in Hosts : /\ Settles(pc[q], pc'[q])
                           /\ pc'[q] \in Writing => pc'[q] = pc[q]
                           /\ pc'[q] \in OwnStates => pc[q] \in OwnStates
      BY <1>1, <2>1 DEF Moves
    <2> QED BY <1>1, <2>1, <2>2, <2>3, <2>4, OwnersStay, LeadersStay
  <1> QED BY <1>2, <1>3, <1>4 DEF Request
-----------------------------------------------------------------------------
(* The leader that serves.                                                 *)

LEMMA InitOrdered == Init => OrderIInv
  <1> SUFFICES ASSUME Init PROVE Ordered
    BY InitIInv DEF OrderIInv
  <1>1. \A p \in Hosts : pc[p] = "off"
    BY HostClusterAssumption DEF Init
  <1> QED BY <1>1 DEF Ordered, LeadersRegistered, PlansKeepLeaders, ClearingAlone, OneLeads,
                      OwnersReached, WritesTorn, Leads, LeadStates, Owns, OwnStates, Writing,
                      Clearing

LEMMA NextOrdered == OrderIInv /\ [Next]_vars => OrderIInv'
  <1> SUFFICES ASSUME OrderIInv, [Next]_vars, misled' = {} PROVE Ordered'
    BY NextIInv DEF OrderIInv
  <1>1. IInv /\ (misled = {} => Ordered)
    BY DEF OrderIInv
  <1>2. ASSUME NEW p \in Hosts, HostStep(p) \/ Start(p) \/ Stop(p) \/ Crash(p) \/ Fails(p)
        PROVE  Ordered'
    <2>1. CASE WriteBegins(p) \/ WriteEnds(p)
      <3>1. misled' = misled
        BY <2>1 DEF WriteBegins, WriteEnds
      <3> QED BY <1>1, <2>1, <3>1, WriteOrdered
    <2>2. CASE Deregister(p)
      BY <1>1, <2>2, DeregisterOrdered DEF Deregister
    <2>3. CASE RegisterReady(p)
      BY <1>1, <2>3, RegisterReadyOrdered
    <2>4. CASE StartAsStandby(p) \/ StartAsLeader(p) \/ RegisterWarming(p)
      BY <1>1, <2>4, StartOrdered
    <2>5. CASE Promote(p)
      BY <1>1, <2>5, PromoteOrdered
    <2>6. CASE ShutdownPrevious(p)
      BY <1>1, <2>6, ShutdownOrdered
    <2>7. CASE BindSocket(p) \/ RemoveSocket(p)
      BY <1>1, <2>7, SocketOrdered
    <2>8. CASE Request(p)
      BY <1>1, <2>8, RequestOrdered
    <2> QED BY <1>1, <1>2, <2>1, <2>2, <2>3, <2>4, <2>5, <2>6, <2>7, <2>8, OthersOrdered
            DEF HostStep, Start
  <1>3. CASE ClientStep
    BY <1>1, <1>3, RequestOrdered DEF ClientStep
  <1>4. CASE TimePasses \/ UNCHANGED vars
    BY <1>1, <1>4 DEF TimePasses, vars, Ordered, LeadersRegistered, PlansKeepLeaders,
                      ClearingAlone, OneLeads, OwnersReached, WritesTorn, Leads, Owns, Elects,
                      Led, Known
  <1> QED BY <1>2, <1>3, <1>4 DEF Next

\* The host that serves has the socket path and is in the metadata, for any number of
\* hosts, crashes, departures, clients and `check --watch` processes, until a reader
\* without the lock removes what is in use, a living host is pruned for its age, or a
\* `check --watch` takes its place (run_host, try_promote_to_leader, cleanup,
\* load_metadata_for_repo, maybe_cleanup_stale_transport).
THEOREM ServingLeaderCorrect == Spec => []ServingLeaderIsReachable
  <1>1. OrderIInv => ServingLeaderIsReachable
    BY DEF OrderIInv, Ordered, LeadersRegistered, PlansKeepLeaders, OwnersReached, Leads,
           LeadStates, Owns, OwnStates, Writing, ServingLeaderIsReachable
  <1> QED BY <1>1, InitOrdered, NextOrdered, PTL DEF Spec
=============================================================================
