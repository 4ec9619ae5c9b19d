# mmdflux in TLA+

mmdflux turns Mermaid text into graphs, lays the graphs out, renders them as text, SVG or MMDS
documents, and edits and compares those documents. Around the library stand a command line, wasm
bindings, a browser playground that renders in a worker, and a developer tool that keeps a warm
rust-analyzer in a background host.

This directory holds TLA+ models of the parts of that code where order, failure or bookkeeping can
go wrong, the configurations that TLC checks on small instances, and theorems that TLAPS proves for
every value of the constants. `PROJECT.json` maps every definition to the lines it models.
Paths below are relative to `src/`.

Contents: [inventory](#1-inventory), [plan](#2-plan), [modules](#3-modules-and-how-they-follow-the-code),
[runs](#4-runs), [fairness](#5-fairness), [proofs](#6-proofs), [what the models found](#7-where-the-code-and-its-words-differ),
[what is left out](#8-not-modelled).

## 1. Inventory

### Parts with state, concurrency or a long protocol

**Architecture host** (`xtask/src/architecture/`). `cargo xtask architecture host` loads the crate once
and answers boundary checks over a Unix socket.

- *One host* (`host.rs`, `watch.rs`, `boundaries.rs`). State: the snapshot (freshness, generation, last
  report) and three flags behind one mutex and condition variable; the watch loop's burst of changes;
  the pending refresh and the loaded library of the semantic context; the channel of file events; one
  connection at a time at the server. Actors: the watch loop thread, the socket server thread, clients,
  the person who saves files and presses Ctrl-C. Hard: a check waits on the condition variable for a
  run the loop has yet to make; notifications, saves and runs overlap; a failed read leaves the refresh
  half taken; stopping joins a thread that may be waiting for the loop. Right when: a check that waits
  is answered by a run made after it was sent; an idle host's report reflects the files; a dirty host
  is rerun; a stopped host ends.
- *The cluster of hosts* (`host.rs`, `watch.rs`). State: a metadata file, a lock file, a socket path, the
  pids it names and their start stamps. Actors: hosts that start, become standbys, poll, elect,
  promote, stop, fail or are killed; `check --watch`, which becomes a host of its own when it finds none it
  can use; clients that read the file and clean up what looks stale. Hard: writes
  truncate first and readers do not lock; a warm-up that takes too long counts as dead; `check --watch` takes
  no role and no lock; a check made before the lock is stale under it; a crash leaves everything behind. Right
  when: the host that serves owns the socket and is registered; nobody is listed twice or after leaving;
  a standby takes over when the leader is gone.

**Playground render path** (`web/src/`, `packages/mmds-browser-text-metrics/src/`).

- *Live update controller* (`live-update.ts`): debounce timer, numbers of renders, the newest shown.
- *Render client* (`services/render-client.ts`, `services/dynamic-svg-routing.ts`): promises waiting for a
  numbered message, timeouts, a main-thread renderer to fall back on, a decision made by the worker
  before a render that reuses the same number.
- *Worker* (`fitted-worker.ts`, `worker.ts`, `main-thread.ts`): two handlers that load their module
  once, cache a failed load, and answer each message once in any order.
- *Page* (`app/bootstrap.ts`): edits and the linter feed the controller and the client.

  Hard: answers in any order, timeouts that race answers, numbers used twice, timers left over from an
  earlier edit. Right when: every promise is settled once and with its own output; the preview never goes
  back; it ends with the newest text.

**Layered kernel** (`src/engines/graph/algorithms/layered/kernel/`). A pipeline over one mutable graph:
self edges out, back edges reversed, room for labels, frames around compounds (subgraphs), ranks (longest
path or network simplex), long edges broken into dummies, the dummies given to compounds, borders on
every rank, crossing reduction, coordinates. State: edge vectors shortened, appended to and renumbered
between phases, index sets kept beside them, and an order of the nodes on every rank. Hard: an index
taken before a phase and used after it, invariants of the simplex tree over any number of pivots,
frames in frames that edges leave and enter, entries that swallow each other while a rank is sorted,
loops that stop when nothing gets better. Right when: the effective graph is acyclic; ranks are feasible
and, where promised, as short as possible; each edge is drawn once, by unit segments; each labelled edge
has a label dummy; compounds hold their nodes; each node has a place of its own, frames stand together,
and the loops end.

**Fit to width** (`src/runtime/fit.rs`, `src/graph/fit_levers.rs`). A text drawing that is too wide is drawn
again with one lever after the other (spacing, wraps, a flip of the direction, truncation) until one
fits; the answer comes with the range of widths that would give the same. State: the ladder of
settings, the solves it reuses, the candidates drawn. Hard: a lever that changes nothing is skipped
and not carried on; rungs reuse the solve of others; candidates are audited against a first drawing that
may be broken itself; the range speaks of rungs that were never drawn. Right when: the range is exact,
the settings reported draw what was drawn, no graph is laid out twice, and the answer is valid.

**MMDS documents** (`src/mmds/`, `src/commands.rs`, `src/views/`). Documents are validated (hydration),
edited by commands that lay the result out again, projected to views, compared and united. State:
nodes, subgraphs, edges whose ids are their positions, and style extensions keyed by these ids. Hard: ids
are dealt out anew by every relayout; membership is stored on both sides; a command changes several
parts and must fail as a whole; a union mixes ids of two documents. Right when: what hydrates stays so;
events and styles follow their edges; the diff pairs each edge with itself; the union accounts for
every edge and survives a relayout.

### Parts without state between calls

Parsers, diagram compilers, the layered bridge, the engine registry, edge and grid routing, the
renderers, sequence layout, dynamic text metrics, the runtime facade, the command line,
the wasm bindings, the published worker client, the MMDS npm packages, the playground's user interface,
the other developer tasks and the architecture rules. Section 8 says for each why it is left out or
when it is planned.

### How the parts interact

- The command line, the wasm bindings and the packages call the runtime facade, which runs
  *parser → compiler → graph → engine (bridge → kernel) → routing → renderer*. All of that is sequential.
- The playground reaches the wasm bindings in its worker, by messages, and on its main thread when the
  worker fails. Controller and client share nothing but promises.
- The MMDS modules produce and read documents; commands, views and unions all end in hydration and the
  document builder, which numbers edges anew.
- Hosts share the metadata file, the lock and the socket path; the two threads of one host share
  `SharedHostState`; clients only talk over the socket and clean up files.

## 2. Plan

Order: the concurrent parts first (their faults are the ones tests do not reach), then the pipelines
whose bookkeeping is long.

| step | modules | composes or implements | state |
|---|---|---|---|
| 1 | `WarmHost`, `WarmHostProofs` | one leader process | done |
| 2 | `HostCluster`, `HostClusterProofs` | many processes, files and a client | done |
| 3 | `LiveUpdate`, `RenderClient` | abstract specifications of controller and client | done |
| 4 | `Playground`, `PlaygroundProofs` | page = client ∥ controller; implements both | done |
| 5 | `LayoutGraph`, `Acyclic`, `NetworkSimplex`, `Layering`, `NetworkSimplexProofs`, `LayeringProofs` | the kernel's phases over one graph | done |
| 6 | `MmdsDocument`, `DocumentDiff`, `DocumentView`, `Documents` | documents and all that changes them | done |
| 7 | `DocumentsProofs` | all seven properties of the documents, for any documents and commands | done |
| 8 | `CompoundGraph`, `Nesting` | compound phases, joined to `Layering` | done |
| 9 | `Ordering`, `Layout` | crossing reduction, and the pipeline up to it: `Layering` then `Ordering` | done |
| 10 | `Fit`, `FitProofs` | the ladder and the search over its rungs | done |
| 11 | `OrderingProofs` | places, frames and switches of crossing reduction, for any graph of frames two abreast | done |
| 12 | `LabelLanes` | lane packing against a reference definition (`label_lanes.rs`) | planned |
| 13 | `PackageClient` | the published client as a second client of the worker | planned |

Abstract specifications worth stating: `LiveSpec` (renders start numbered, end once, the newest is
shown) and `ClientSpec` (a call has one owner until it settles) are stated and shown to be implemented
by the page. A host cluster's promise (one leader, taken over when gone) is stated as properties, since
the code does not keep it: what it does keep is said by the passing runs, what it does not by section 7.

Theorems worth proving next: that a ladder solves a graph twice only where both rungs drop text
(`NoGraphSolvedTwice`), which needs an account of what each wrap leaves of a label.

## 3. Modules and how they follow the code

Counters of the code that grow without end are bounded in the guards of the environment's actions
(`MaxEdits`, `MaxRequests`, `MaxCrashes`, `MaxCommands`, `MaxEdges`, `MaxFits`, the `checks` of a member of
`Settings`, and the sets `Hosts`, `Renders` and `Checks`). The proofs hold for every value of them.

### `WarmHost`: one leader

| model | code |
|---|---|
| `freshness`, `generation`, `report`, `externalDirty`, `shutdownRequested`, `interrupted` | `SharedHostSnapshot` and the flags beside it (`host.rs`) |
| `pc`, `changes` | the watch loop and the burst it debounces (`watch.rs`) |
| `pending`, `library`, `outcome` | `SemanticBoundariesContext` and the result of the run under way (`boundaries.rs`) |
| `server`, `serving`, `backlog`, `endpointDown` | `spawn_unix_host_server`: one connection at a time, the others wait in the listener |
| `disk`, `fsEvents` | the files, as versions, and the channel of the `notify` crate |
| `WarmUp`, `OpenEventSource`, `Bind`, `InitialRun`, `Analyse`, `CompleteRun`, `Collect`, `TakeExternal`, `TakeFsEvent`, `EndBurst`, `SeeShutdown`, `SeeInterrupt`, `WatcherFails`, `StopEndpoint`, `JoinServer` | steps of the loop between two accesses to shared state |
| `Accept`, `RejectOptions`, `AnswerCheck`, `AnswerStatus`, `NotifyMarksDirty`, `NotifyRaisesFlag`, `ShutdownRequests`, `ShutdownInterrupts` | `handle_request`, one action per critical section |

`StartMode` says how the process became leader, which decides when its event source is opened: `host`
opens it after the warm-up, `watch` (`check --watch`) before its first load, a promoted `standby` had it
before it warmed up. A report is the file versions it
was computed from, so freshness is a comparison of versions. What the analysis finds in the sources is
not modelled.

### `HostCluster`: many hosts

The metadata file is missing, `Torn` (truncated, not yet written) or a cluster record; `lock` and
`socket` are the lock file and the path's listener. A stamp is a step of `clock`; `horizon` is the newest
stamp older than `WARMUP_TIMEOUT_SECS`.

| model | code |
|---|---|
| `StartAsStandby`, `StartAsLeader`, `ShutdownPrevious`, `RegisterWarming` | `run_host`: the role, decided under the lock; a new leader removes the socket path and asks whoever has bound it again to shut down |
| `BindSocket`, `RegisterReady` | warm-up over: `bind`, then `start_with_binder` merges the leader's entry |
| `WatchAsks`, then `BindSocket` and `RegisterReady` | `check --watch` (`run_watch`, `run_interactive`): one Status request, without the lock; no answer, or one for other options, and it binds and registers as it is |
| `WriteBegins`, `WriteEnds`, `ReadFails` | `std::fs::write` under the lock: truncate, then fill; a host that reads a torn file ends in an error |
| `Poll`, `PollDone`, `Promote` | `run_standby`, `try_promote_to_leader` |
| `Stop`, `CloseEndpoint`, `RemoveSocket`, `Deregister` | departure in order; the leader wakes its own server thread through the socket path |
| `Crash`, `Fails` | a kill or panic; an error that leaves by `?`, without deregistering |
| `ClientAsks`, `GivesUp`, `IsAnswered`, `IsRefused`, `CleansUp` | requests: read without the lock, decide, connect, clean up |

Readers never hold the lock and writes always tear, as in the code. What else may happen in a behaviour is a
member of `Settings`: `aging` (a warm-up or a standby may outlast the timeout), `watching` (`check --watch` is
run) and `checks` (a bound on the client's requests).

`misled` is a history variable that no guard reads. It notes the three kinds of step in which a process acts on a
wrong view of the others: `struck`, when somebody prunes a living host for its age; `lost`, when a reader removes
a record with a living host in it, one that is being written, or a socket whose owner still serves; and
`overridden`, when a `check --watch` binds a socket that is in use or registers over a living leader.

### `LiveUpdate`, `RenderClient`, `Playground`: the render path

`LiveUpdate` is the controller: `EditNow`, `EditLater`, `Fire`, `End`, `Cancel` over `timer`, `latestSeq`,
`open` and `shown`. `RenderClient` is client and worker: `pending` slots, message queues both ways, the
handlers' module states; `Call`, `Receive`, `Drop`, `TimeOut`, `PageSettles`, `Reject`, `Terminate` on
the page, `Take`, `ModuleLoads`, `Answer` in the worker. A post may throw (`PostThrows`), and answers
come in any order. A slot records the call it belongs to; the code knows it by closure, and nothing in
the model looks a slot up by it. `Playground` joins them: an edit or the timer starts a render of the
client in the same step, and the settling of a render's promise is the end of the controller's.

### `LayoutGraph`, `CompoundGraph`, `Acyclic`, `NetworkSimplex`, `Nesting`, `Layering`: the kernel up to dummy chains

`LayoutGraph` declares the edge vector and the reversed set the phases share, `CompoundGraph` the
compounds around nodes and the loop that reverses edges until compounds form no cycle. `Acyclic` is the
recursive search of `acyclic.rs` with its stack of calls: `Begin`, `Descend`, `MarkBack`, `Pass`,
`Return`. `NetworkSimplex` has both initial rankings, the tight tree, cut values, pivots and
normalisation of `rank_core.rs` and `network_simplex.rs`, one action per growth, pivot or finish.
`Nesting` has what `nesting.rs` does around the ranking: a top and a bottom border per compound with
heavy edges to its members, exit constraints, a root, then the ranks taken out again, clean-up, title
nodes and, from `parent_dummy_chains.rs`, the compounds of dummies. `Layering` runs the phases in the
order of `pipeline.rs`, with the self edges taken out, the room made for labels and the dummy chains of
`normalize.rs`. A graph and its configuration come from `Inputs`; the configurations of the MC modules
are those of the two engines, the relaxed form of the first, and longest path.

### `Listing`, `Ordering`, `Layout`: crossing reduction

`Ordering` is `order::run_with_options`: `InitOrder`, `SortRank` for one rank of a sweep
(`sweep_compound` with `sort_subgraph`, `resolve_conflicts`, `sort_entries` and
`add_subgraph_constraints`), `Judge` after a sweep, `Switch` for one pair of neighbours of
`greedy_switch`, and `InsertLoop` for one self edge of `insert_self_edge_dummies`. Barycenters are exact
fractions where the code has floating-point quotients. Both engines set `always_compound_ordering` and
leave `model_order_tiebreak` off, so the simpler sweeps of `reorder_layer` and the tie-break are left
out. `Layout` is the pipeline: `Layering`'s steps (`Prepare`), then `border::add_segments` and the
hand-over (`AddSegments`), then `Ordering`'s. `Listing` has what both use to list sets in order.

### `Fit`: fitting to a width

`Validated` (budgets of 0, formats without width), `Evaluate` for one turn of the loop of `search`,
`SolveFails` when the engine returns an error, `Conclude` for the answer and its report, and `Resize` for a
caller whose terminal changed. The levers of `fit_levers.rs` work on labels as sequences of word
widths; `LadderOf` builds the ladder of a graph, a stored document or a sequence diagram. What a rung looks
like is chosen freely from `drawings`, but it is the same in a later search (`drawn`).

### `MmdsDocument`, `DocumentDiff`, `DocumentView`, `Documents`: documents

`MmdsDocument` says what a document is, when it hydrates (`hydrate.rs`) and what a relayout makes of it
(`document.rs`): children recomputed, edges renumbered, styles carried along by id. `DocumentDiff` has the
passes that pair the edges of two documents (`diff/mod.rs`) and the union (`diff/union.rs`);
`DocumentView` the projection (`views/project.rs`). `Documents` is the machine: one action per command
of `commands.rs`, and the taking of a view. A command builds a candidate; `Accept` lays it out when it
hydrates and leaves the document alone otherwise, as `apply` does; the style extension (an entry of it, or with
`SetExtension` the whole, which may name what is not there) and a subgraph's title are changed in place as in the code. Every edge carries a `uid` the code does not have; it is what the properties
mean by "the same edge" and no guard reads it. Where the code walks from a subgraph to its parents
(`Upwards`) or sorts and filters lists of edges (`Ordered`, `Kept`), the model says what results, by
closure and by counting: no recursion, so that theorems can be proved about it. Attributes that are only
carried are one attribute (`look`). `base` is the document of the beginning, which diff and union
compare with.

## 4. Runs

| run | question | instance |
|---|---|---|
| `warmhost_code` | Is a waiting check answered freshly, and does an idle report reflect the files? | promoted standby, 2 clients (symmetric), 5 kinds of request, source and manifest, 2 edits, 2 requests; 787 K states |
| `warmhost_live` | Is a dirty host rerun and every request settled? | `check --watch`, failing reads, 2 clients, 1 edit, 2 requests, fair threads; 92 K states |
| `warmhost_stop` | Does a host that is told to stop end? **No** | 2 clients, fair threads |
| `cluster_code` | What holds of the metadata in spite of lock-free readers, torn writes, slow warm-ups and `check --watch`? And what can take a serving host's place? | 3 hosts (symmetric), 1 crash; slow warm-ups and `check --watch`, or a client's 2 requests; 5.6 M states |
| `cluster_failover` | Does somebody take over, until a living host is struck off or lost? | 2 hosts, 1 crash, slow warm-ups, `check --watch` and 1 request, fair; 336 K states |
| `cluster_peer` | Does one of two standbys take over, if none of them does? **No** | 3 hosts, fair |
| `playground_page` | Is each promise settled once with its own output, and does the preview converge? | 2 renders, 1 validation, failing posts and loads, termination, fair; 179 K states |
| `layering_code` | Do the phases leave an acyclic graph, feasible, tight and short ranks, one path of unit edges per edge, and compounds around their nodes? | 12,094 graphs, below; 380 K states |
| `layering_labels` | Has every labelled edge a label dummy? **No** | lists of up to 3 edges |
| `layout_code` | Has every node a place of its own, do frames stand together, does switching only help, does a layout end? | 330 graphs, below; 27 K states, behaviours of up to 431 steps |
| `fit_code` | Is the range exact, do the settings draw what was drawn, is no graph solved twice that keeps its text, is the answer valid and the narrowest? | searches of up to 4 rungs drawn in any way, ladders of up to 28, 4 widths, 2 searches; 807 K states |
| `documents_code` | Do documents, events, styles, diffs and unions stay right through commands, views and relayouts? | 5 documents, 2 commands, 3 nodes, 3 subgraphs, 4 edges; 137 K states |

`CHECK_DEADLOCK FALSE` is given where the program really stops or waits for a person: hosts that exit,
a page at rest, documents after the last command, fits after the last search.

### What the properties say

- *Warm host.* `WaitedAnswerIsFresh` relates a request's moment to the run that answers it, across
  notifications, reruns and wake-ups. `IdleReportReflectsDisk` says that no interleaving of saves with the
  debounce window, the pending refresh and the reading of the files loses a change. `DirtyIsRerun`,
  `RequestsSettle`: the wake-up flag is not lost; a waiting check blocks the only server thread, but not
  for ever. `StopCompletes` is refuted (section 7).
- *Cluster.* `TypeOK` includes that no process is listed twice; `RecordIsTrue` says that one that left by itself
  is not brought back by anybody's write and that clients are never shown a leader as ready whose socket is
  not bound. `ServingLeaderIsReachable`: the host that serves is registered and owns the socket, in every
  interleaving of elections, polls, crashes, departures and torn writes, until one of the steps noted in `misled`
  happens. `FailoverCompletesUnlessMisled`: fail-over completes, with one standby (two compete, `cluster_peer`),
  until a living host was `struck` or `lost`, whoever is overridden. Without its premise TLC refutes the first
  after any of the three kinds of step, the second after either of its two; section 7 has the behaviours.
- *Playground.* `OneOwner`: an unsettled call waits for exactly one of its slot, the page's own renderer
  and a rejection; a settled one for none. `OwnOutput`: a call that succeeds was settled with the output of its own
  input, though numbers are used twice. `QuietShowsText`: a page at rest shows the newest text.
  `NeverOlder`: the preview never goes back. `RunsController`: the page implements `LiveSpec`.
  `CallsSettle`, `TypingConverges`: everything ends, and ends with the newest text.
- *Kernel.* `EffectiveEdgesDescend`: a topological order of the graph after the reversal exists (the
  order in which calls return). `ReversedOnlyInCycles`: no edge is reversed for nothing.
  `TightTreeSpansFeasibleRanks`, `OptimalOnSimpleGraphs` (no set of nodes can be moved by one rank to
  shorten the drawing, which for such constraints means the least total length of all feasible
  rankings): network simplex. `ChainsReplaceEdges`: each edge is drawn once, from end
  to end, over links of one rank (or of none, for edges without length) and through nodes no other edge
  goes through, with a dummy for its label where it has the room. `CompoundsHoldTheirNodes`: nodes and the dummies of passing edges lie between the borders of the
  compounds around them. `ExitsEndBelowTheFrame`: an edge that leaves a compound for good ends below it (in graphs without negative lengths).
- *Crossing reduction.* `RanksAreOrdered`: through sorting frames in frames, entries that swallow each
  other and entries without a barycenter no node is lost and no place given twice.
  `FramesStandTogether`: no foreign node stands inside a frame, and two frames side by side do not change
  sides between ranks. `SwitchingOnlyHelps`: a switch judged by the links of two nodes lowers the
  crossings of the whole drawing. These three are claimed where no three frames stand in one compound on one
  rank (`TwoAbreast`; section 7 says what three can do). `LayoutEnds`: pivots, sweeps and passes come to an end.
- *Fit.* `StableRangeIsExact`: a width is in the range of the first search exactly when a second search
  for it picks the same rung. `ChosenSettingsReplay`: though solves are reused and levers skipped, the
  drawing returned is the one its settings make. `NoGraphSolvedTwice`: skipping is thorough, in that rungs that
  solve equal graphs both drop text (section 7).
  `AnswerIsValidAndNarrowest`: nothing is lost that the authored drawing shows; a drawing that fits is
  taken; else the narrowest.
- *Documents.* `DocumentIsConsistent`: ids stay unique, and children, parents and regions, which are stored
  on both sides, agree. `HydrationIsKept`: commands fail as a whole, views leave nothing dangling.
  `EventsNameTheirEdge` and `StylesFollowTheirEdges` follow edges through renumbering;
  `DiffTellsTheCommand` says that the diff of the documents before and after one command pairs every
  edge with itself; `UnionIsADocument` that the union hydrates, keeps its numbers through the relayout and
  keeps removed regions in their parents; `UnionAccountsForEveryEdge` that each edge of both documents is
  behind one of its own.

### Why the bounds are enough

- *Warm host.* Two clients are needed for one to notify while another waits, and the server has one
  connection. Two edits of two kinds of file let an incremental refresh follow or precede a full reload
  and let a save fall inside a run as well as before it. A third edit repeats one of these states.
- *Cluster.* Three hosts make a leader and two competing standbys, a leader, a late registration and
  a departure, or a leader, a standby and a `check --watch`. One crash leaves stale metadata for two survivors.
  Whoever requests reads, decides and cleans in separate steps, so one request covers any stale decision; the second
  meets what the first has left. The client and the slow or roleless hosts are taken apart where there are three
  hosts, and together where there are two; the theorems hold for all of it at once.
- *Playground.* Two renders are the least that can overtake each other; the second may start while the
  first is decided, posted, answered, timed out or on the page's renderer. The validation shares the
  worker and its queue under negative numbers. The theorems remove these bounds for all but liveness.
- *Kernel.* `Short` is every list of at most three edges out of seven pairs on four nodes (a self edge,
  two-cycles, a triangle, duplicates), at most one labelled: two edges that shift one another's
  indices and a third that is shifted. `Dense` has every five-edge upward graph on four nodes with at most
  two edges of minimal length 3 or 0 or of weight 0, the smallest in which network simplex pivots more than once.
  `Compound` has three nodes with one, two or three edges in one subgraph, two side by side, or one in
  another, one of them titled, and the same with edges of length 0 inside a subgraph (as
  `layout_building.rs:325` adds them where it has a direction of its own): the smallest with an edge that leaves, enters or passes a frame, and a
  frame that another edge stretches.
- *Crossing reduction.* `MCLayout` has graphs whose barycenters disagree: six edges between three nodes and
  three, or through three ranks; long edges, cycles and two self edges; and two or three frames of
  two nodes whose edges across come in fours, which is what it takes for a barycenter to speak against a
  side settled on the rank before, two of them also with edges of no length inside the frames. With one edge across each way no entry swallows another.
- *Fit.* Four widths and drawings of widths 1 to 4, three of them broken or too high, put a valid, an
  invalid and a fitting drawing at any rung before and after the pick; two searches are what the range
  speaks of. Labels are made of words around every lever's threshold (4, 9 and 17 cells against wraps at
  10, 16 and 24 and cuts at 8, 12 and 20), with single spaces and with runs of them.
- *Documents.* The five documents have parallel edges with and without distinguishing labels, a chain with
  a styled last edge, a region with an intent, and three levels of nesting. Two steps are a command
  after a command (one after the style extension was set, say), a command on a view, and a view of an edited document; renumbering after renumbering
  needs no third.

Every property was tried against a mutant of a mapped definition (`PROJECT.json`, `mutants`), kept beside
the definition it changes and named after the slip it makes.

## 5. Fairness

- `WarmHost`: weak fairness of the loop and of the server thread. The operating system schedules both,
  and each has a step of its own whenever its call does not block. Saves, Ctrl-C, requests and failures
  need not happen.
- `HostCluster`: strong fairness of each host's steps, because a step that takes the lock is disabled
  whenever another has it, and `flock` queues its waiters; weak fairness of the client. Nobody has to
  start, stop, crash, fail or outlast the timeout. Polls recur for as long as a standby waits.
- `Playground`: weak fairness of the timer, of deliveries in both directions, of module loads, of every
  answer the worker can give without waiting, and of the page's own completions (timeouts, fallbacks,
  rejections). The answer to a *dynamic* render is not fair: preparing fonts may take for ever, and the
  timeout of the client is what settles the call. Termination and failures are never forced.
- `Layout`: the pipeline is one call on one thread that does nothing but take its next step. This is stated
  as `KeepsGoing`: infinitely often finished, or infinitely many steps that change something. It is weak
  fairness of the pipeline's step, which is enabled until the layout is finished (the run checks that
  there is no deadlock) and is the only one that changes anything.
- `Fit` and the documents have no liveness property: a search draws a ladder once, and commands end.

## 6. Proofs

All theorems hold for every value of the constants that satisfies the modules' assumptions
(`WarmHostAssumption`, `HostClusterAssumption`, `RenderClientAssumption`, `InputsAreGraphs`,
`NodesAreNumbers`, `RequestsAreWellFormed`, `IdsAreApart`, `DocumentsAssumption`), which say no more than
that identifiers are distinct, bounds are numbers, edges join nodes, no compound holds itself, a request has
options and a ladder with a rung, and the first documents are ones a compiler produces: they hydrate, list regions that
there are, and give each edge a `uid` of its own. TLC evaluates the assumptions in the runs.

Statements about what a loop or a sorted list computes are proved without induction over data: of
the numbers at which a claim would fail one takes the least, or the claim is an invariant of the machine
whose steps are the loop's turns.

- **`WarmHostProofs`** — `TypeCorrect` (`TypeOK`), `WaitedAnswerCorrect` (`WaitedAnswerIsFresh`) and
  `IdleReportCorrect` (`IdleReportReflectsDisk`). The second is not inductive: it says nothing of a check before its answer. The inductive invariant
  adds `NeedIsComing` (no check is owed a generation later than the run under way or the next one) and
  `IdleHasReport` (an idle host has a report, and a finished analysis an outcome). With these, the
  answer given on becoming idle is recent enough. One lemma per kind of actor: `SendInv`, `ServerInv`,
  `LoopInv`. The third holds where `EverySaveIsHeard`: the event source precedes the library (a standby or
  `watch`) and reads do not fail. In the two other cases the code forgets changes (section 7). Its invariant
  follows a save to the report: what the library is behind on is queued, in the burst or pending
  (`LibraryFollows`); a report lacks only what is still queued (`ReportsFollow`); a burst is never dropped by a
  loop that goes on (`BurstsAreRun`).
- **`HostClusterProofs`** — `TypeCorrect` (`TypeOK`), `RecordCorrect` (`RecordIsTrue`), `ServingLeaderCorrect`
  (`ServingLeaderIsReachable`). One host at a time is between taking the lock and letting go of it
  (`WritersHoldLock`, `OpenFilesAreTorn`), so that the record it planned from the file it read is as true of the
  processes when it is written (`FileSound`, `PlansSound`): others only remove the file meanwhile. None of
  this needs readers to lock, and all of it holds whatever `misled` says. The third theorem adds `Ordered`, which
  holds for as long as `misled` is empty, whatever else happens, torn writes and readers without the lock included:
  leaders are in the file or the file is being written (`LeadersRegistered`) and they are in every plan, so that
  nobody elects another (`PlansKeepLeaders`, `OneLeads`); they own the socket path from the bind on
  (`OwnersReached`); and while somebody clears the path for a new leader there is no other (`ClearingAlone`). The
  proof goes through every step and shows that one which would break this is one of the three kinds noted.
- **`PlaygroundProofs`**, the client — `CallsHaveOneOwner` (`OneOwner`), `CallsGetOwnOutput` (`OwnOutput`). The
  invariant has four parts: slots and messages carry the number of their call (`SlotsNamed`,
  `MessagesNamed`), a call has one slot at most (`SlotsUnique`), and each call is where it should be
  (`CallsKept`: owned if and only if made and not settled). One number is used twice by one call, never
  by two, which is what makes the reuse after the decision safe. `ClientTypesKept` is type correctness.
- **`PlaygroundProofs`**, the controller by itself, as the page instantiates it — `RestShowsLatest`,
  `PreviewNeverOlder`, from `NewestKept`: the latest number is open or shown, and nothing open or shown is later.
- **`PlaygroundProofs`**, the page — refinement. `PageRunsClient`: every step of the page is a client step or a
  stutter, so the client's theorems hold of it (`PageCallsHaveOneOwner`). `PageRunsController`: the page
  implements `LiveSpec` with the client's outcomes as results. It needs `OpenIsWaiting` (an open render
  is a call that is not settled), so that a promise that settles is the end of an open render and no
  render ends twice. `PageNeverOlder` carries the controller's theorem over the refinement, and so
  does `PageRestShowsText` (`QuietShowsText`) the controller's invariant `NewestKept`: with `TextKept` (a timer is
  set for what the editor holds, or the newest render was started for it) a page at rest shows the text it
  holds. `PageTypesKept` is `TypeOK`.
- **`LayeringProofs`** and **`NetworkSimplexProofs`** — seven properties of the pipeline `LayeringSpec`, for every graph of nodes,
  compounds and edges, every profile, and both initial rankings.
  - `Acyclicity` (`EffectiveEdgesDescend`): for every list of
    edges, cyclic or not, with duplicates, the order in which the search's calls return is
    a topological order of the graph with the marked edges reversed. The invariant `SearchInv` says which calls are
    running (`StackRuns`), that begun calls run or have returned (`CallsAccounted`), that a call returns
    only when its list is exhausted (`ListsExhausted`) and that of an examined edge's ends the target returns
    first (`ExaminedDescend`): because it has returned, or because it is the inner of two running calls.
    `finish` and `clock`, the order of returns, are history variables that no guard reads.
  - `MarksNoMoreThanItMust` (`ReversedOnlyInCycles`): every edge the search reverses lies on a cycle of the given graph. A
    path is spoken of by the sets that its edges do not leave (`Closed`, `LeadsTo`); `PathInv` says that each
    running call leads to the calls inside it, so the target of a marked edge leads back to its source.
    `SearchStaged` places both invariants in the pipeline, and says what the phases before leave to the
    search and what remains of it afterwards.
  - `RankingCorrect` (`TightTreeSpansFeasibleRanks`): whatever the number of growths and exchanges, no edge is ever
    shorter than it must be, and the tree that the ranking ends with spans the nodes with tight edges.
    The invariant `RankingIInv` follows the graph to the ranking (`GraphOK`: what framing, label room and turned edges
    leave is a finite list of edges with minimal lengths between nodes that are no compounds), and the
    ranking step by step (`RanksInv`). While the tree grows (`GrowInv`) its members hang together by tight edges;
    moving it by the least slack of the edges that leave it keeps all others long enough. While it
    pivots (`PivotInv`), it spans: taking out the edge that leaves cuts the nodes below it from the rest
    (`PartBelow`), the edge that enters crosses that cut (`ChosenFacts`), so that the tree hangs together again
    (`ExchangeReachesAll`), and the new ranks are the old ones with one side moved by the slack of the edge
    that enters, the least in its direction (`TightRanksShift`). That a tree hangs together is said by sets
    again: a set of nodes that no tree edge leaves holds all or none.
    The model's recursions (Kahn's order, longest paths, the nodes hung under a root) are functions of a
    count; `Iterates` and `GrowthEnds` say that such an iteration settles within as many turns as there are
    nodes, which takes a well-founded order but no induction principle as a premise.
  - `ChainsCorrect` (`ChainsReplaceEdges`): whatever the graph, its frames, reversals, labels and lengths, the list
    of edges that crossing reduction starts from draws each edge of the graph once. The invariant
    `ChainsIInv` carries three facts to the loop that breaks the edges. `Scaffold`: edges of frames and titles, which
    come and go around the ranking, are told from given ones by their ends, so the clean-up takes these and
    no others. `Steps`: no given edge spans less than it must; the ranking leaves it so, and taking out empty
    ranks or turning an edge that climbs keeps it. `RoomGiven`: where positions are still original indices, a
    labelled edge has two ranks or no length. In the loop, `ChainsInv` says that links lie on the chain of
    an edge already broken (`LinksOnChains`), which has one for every rank it passes (`ChainsComplete`); that a
    dummy is passed by one chain, once (`DummiesPassedOnce`, `DummiesApart`); and that a label's dummy is among
    them (`LabelsPlaced`). `Rebuild` lists the short edges first and the links after them, so the last step
    relates each edge to its places in that list.
  - `CompoundsHeld` (`CompoundsHoldTheirNodes`): however deep the compounds nest, every node of a compound is drawn
    between its borders, the dummies of passing edges included. The invariant `FramesIInv` starts from the
    shape of the nesting (`CompoundsApart`, with `NoCircle`: any set of compounds has one whose parent is not in it),
    follows the borders and the edges that tie them to what they frame through the ranking (`FramesLink`), and
    reads off feasible ranks that each frame holds what is in it (`FeasibleFramesHold`; `FramesHold` from there
    on). Taking out empty ranks keeps the order of ranks (`HoldMoves`), titles and new dummies only add
    to what is held (`HoldExtends`). Before `parent_dummy_chains`, chains are in no compound and on successive ranks
    (`ChainsStand`). Its two walks go up from one end of the edge and down to the other; `HeldAt` says which
    compounds reach to a rank, and `ParentOnRankHolds` that the walk stops at one of them.
  - `ExitsEndBelow` (`ExitsEndBelowTheFrame`): an edge out of a frame, from whose target nothing leads back, ends
    below the frame. That no path leads back is said by a set of nodes that the edges do not leave (`AwayFrom`;
    `LeadsIntoMeans` shows that this is what the search of `can_reach_compound` computes), so it does not depend on the nodes that
    later phases add. For each such edge the frames bring one that keeps its target below the border (`NestExits`,
    `ExitsLink`); feasible ranks give the order (`FeasibleExitsHold`), and it outlives the later phases
    (`ExitsMove`), which turn no edge of the graph: feasible ranks leave none to climb, unless it asks for a
    negative length. The attempt without that last condition failed at `MarkClimbing`, which may turn such an
    edge after the exits were chosen, so the property excludes it, as `ChainsReplaceEdges` does.
  - `LayeringTyped` (`LayeringTypeOK`): the types, and with them that `feasible_tree` ends by itself and not by its
    safety limit (`TreeGrows`: a round of its loop is paid for by a node that joins the tree).

- **`OrderingProofs`** — the three safety properties of crossing reduction, for every graph, profile and number of
  sweeps and switches, from the edge list on (`LayoutSpec`). Each speaks of graphs without three frames abreast
  (`TwoAbreast`, section 7).
  - `RanksOrdered` (`RanksAreOrdered`) and `FramesTogether` (`FramesStandTogether`) rest on one argument about a sorted
    rank. `sort_entries` lays out every entry once and whole, those without a barycenter at their own index
    (`InterleavedEntries`: an entry placed takes no more indices than it was made of (`Accounts`), so the loop
    never waits for an index that has gone by, `NeverStuck`). Between two children there is one constraint at
    most, and `resolve_conflicts` then merges two entries or none and loses nothing (`ResolvedOne`). So
    `sort_subgraph` lists what stands in a compound between its two border nodes, each node once and the list of
    every child in one piece (`SortedOne`). That this is so for all compounds of a rank (`AllSubSorted`) is proved for a compound
    of greatest height among those where it would fail. The invariant of the sweeps, `SweepHeld`, says
    that all places are in order (`PlacesOK`), and of the ranks already swept (`SweptOK`) that frames enclose their
    own nodes and that the constraints noted are the order their compounds stand in; `MatesPaired` shows that
    `add_subgraph_constraints` notes each pair that meets. The constraints a sweep carries along are what keeps two
    frames on their sides from rank to rank. While switching (`SwitchHeld`) the places of a frame remain an interval, as
    only nodes of one parent are exchanged (`SwapKeeps`).
  - `SwitchingHelps` (`SwitchingOnlyHelps`): of the pairs of links that cross, an exchange of two neighbours touches
    those of a link of one and a link of the other, above or below (`WrongSplits`), which are those that
    `greedy_switch` counts (`PairCrossingsAre`); all other pairs stay as they are (`ElseKept`), so the whole count
    gets less by the same number (`SwapCounts`). That the row holds true neighbours is `RowNeighbours`.
  - The invariant of the pipeline, `LayoutIInv`, has in addition to `OrderingIInv` those of the phases before, and what these
    leave to the ordering: the segments it reads go down one rank at most (`LinksRead`), the graph with
    its border nodes is a forest, ranked and joined (`ShapeAdded`), every layer lists the nodes of its rank
    (`LayersAdded`), and the ranks begin at zero (`FromZero`). The third theorem cannot do without the last:
    a link that ended above the first layer would be counted for crossings but be in no row. `FromZero` is not about
    the ordering at all; `rank::normalize` establishes it, alone or in the clean-up of the frames, and the titles, the
    dummies of chains and their parents keep it, for they stand on ranks between those there are.
  - Lists, sums over finite sets and crossings as sets of pairs have their lemmas in `NetworkSimplexProofs`.
- **`FitProofs`** — `FitInvariant` and `StableRangeCorrect` (`StableRangeIsExact`): for every ladder and every
  way its rungs may be drawn and audited, the range reported is exact. The invariant `FitIInv` says that
  the candidates are the first rungs as they were drawn (`SearchInv`), of which only the last fits, and
  what a report means in terms of these drawings alone (`Tells`): the pick fits from its own width to just
  below the narrowest valid drawing before it, or nothing fits below the narrowest of all. Since drawings
  stay what they are (`DrawingsStay`), a report still tells the truth when a later search has drawn more
  rungs, and the theorem compares two such reports (`RangeFromInvariant`).
  `AnswerCorrect` (`AnswerIsValidAndNarrowest`) reads off the same invariant that the answer passed the audit
  where anything did, fits where anything fits, and is else the narrowest. `ReplayCorrect`
  (`ChosenSettingsReplay`) is about the ladder: its rungs are pushed one sequence of levers after the other,
  a rung may reuse the solve of an earlier one (`ReusedSolvesPrecede`: always an earlier one) and a skipped rung
  passes nothing on, yet the settings of every rung, replayed on the graph, give the graph it
  was drawn from (`SoundLadder`, kept by each push).
- **`DocumentsProofs`** — every property of `documents_code`, for any documents, nesting and number of commands.
  - `DocumentCorrect` (`DocumentIsConsistent`) and `HydrationKept` (`HydrationIsKept`). Every command makes a `Candidate`: a
    document of the right shape whose regions exist, whatever else dangles (one lemma per command). Only one
    that hydrates is laid out, and the relayout keeps what hydration looks at and deals ids and children out
    anew, so the result is `Settled`: ids differ (`RelaidSettles`, from `OrderedFacts`: edges sorted are the
    same edges) and subgraphs list their own nodes. Views are laid out by nobody and checked by nobody; for
    them the references are followed: `Upwards` is closed under parents, so the subgraphs kept are closed
    too (`ViewSettles`, `ViewHydrates`), and an intent that encloses its end is among them. The invariant `IInv` also
    has the `base` hydrate and the identities (`uid`) of edges differ, with all those of edges to come
    still free.
  - `EventsCorrect` (`EventsNameTheirEdge`), `StylesCorrect` (`StylesFollowTheirEdges`), `DiffCorrect` (`DiffTellsTheCommand`).
    Each command leaves a candidate of a known form: its edges in the old order, some changed, some
    dropped, at most one appended. The relayout sorts them again, and since the sort key of an edge that is
    kept is its old place, an edge's new id is one plus the number of kept edges before it. With that, the id an
    event names, the id a style is carried to and the pair the diff makes are all the same number.
  - `UnionComplete` (`UnionAccountsForEveryEdge`), `UnionCorrect` (`UnionIsADocument`). The passes of the diff make a
    matching: no place of either document is used twice, and what no pass paired is a ghost or new. The
    union lists the merged edges by entries that hold each place of both documents once; the ids it
    deals out are dense, so that the relayout gives the same ones back, and the children of the merged
    subgraphs, recomputed, are those it put back.

  The attempt at `StylesCorrect` failed at first, and rightly so: a new edge on a view may be given an id that is
  taken, and with it a style that is not its own (section 7). `StylesFollowTheirEdges` now speaks of steps whose new id
  is free (`NewIdIsFree`).

Only model-checked:

- liveness, for the prover does not reason about fairness: `CallsSettle`, `TypingConverges`, `DirtyIsRerun`,
  `RequestsSettle`, `FailoverCompletesUnlessMisled`, `LayoutEnds`;
- `NoGraphSolvedTwice`: that two graphs of a ladder differ, if one keeps its text, follows from what the wraps do
  to labels, which is a fold over words that the prover cannot induct over;
- that the ranking is the shortest (`OptimalOnSimpleGraphs`): the cut values are sums over subtrees, and that a
  tree without a negative one is optimal is linear programming duality, a sum over all edges.

## 7. Where the code and its words differ

Runs that TLC refutes, each against a sentence or a test of the repository:

1. `warmhost_stop` — a stopped host ends (`watch.rs:936`). A waiting check looks at the freshness only
   (`host.rs:542`); when the loop leaves on an interrupt before a pending notification, the check waits
   for a run that never comes, and `cleanup` joins its thread.
2. `cluster_peer` — a standby promotes itself when the leader dies (`watch.rs:225`). The one that polls
   first elects the newest (`watch.rs:345`), which finds itself listed as a living leader at every poll.
3. `layering_labels` — "ensures labeled edges have minlen >= 2" (`kernel/support.rs:21`). Labels are
   looked up by position after self edges were taken out, but are keyed by original index.

Met while modelling, without a run of their own:

- *Warm host.* `--notify-dirty` is to mark the host dirty before checking
  (`xtask/src/architecture/mod.rs:216`). While a run is under way `note_dirty` leaves the snapshot
  `Running` (`host.rs:432`); that run then completes to idle and its report answers the check that follows.
  Saves between the warm-up's load and the creation of the event source are not seen
  (`StartMode = "host"` violates `IdleReportReflectsDisk`). With failing reads a pending refresh is
  taken before it is applied (`boundaries.rs:85`) and forgotten (`IOFails` violates it too). A `Shutdown`
  cannot wake a server whose socket path somebody else removed or took over.
- *Cluster.* "One leader owns the socket and serves requests" (`xtask/docs/architecture.md:407`). Two serve after any
  of the steps that `misled` notes, which TLC finds when `ServingLeaderIsReachable` is checked without its premise:
  - `lost`: "Write the cluster metadata atomically" (`host.rs:1177`), but a standby that polls between the truncation
    and the filling of the file removes it, and with it the record of the leader that serves (`host.rs:1031`,
    `1203`), and the next host that starts, or is elected, serves beside it. All hosts may be prompt, and nobody need crash.
  - `overridden`: a `check --watch` that found no host binds the socket and registers over whichever leader there is
    by then (`watch.rs:74`).
  - `struck`: a warm-up longer than the timeout is taken for stuck, and another host becomes the leader meanwhile.

  "Promote to leader if it dies" (`watch.rs:225`) fails also for one standby alone: standbys are registered as warming
  up, so one that has waited for longer than the timeout is pruned at its own election (`host.rs:147`, `243`), or
  removes the whole record when it polls. A removed standby never registers again and waits for ever. A crash
  inside a write leaves the file torn. A leader that stops wakes its server thread through the socket path
  (`host.rs:810`): if that leads elsewhere by then, the thread is not woken and the join does not return.
- *Kernel.* Cut values leave out edges parallel to a tree edge (`network_simplex.rs:315`) and pivots only
  reach the first component of a disconnected graph, so ranks are not always optimal (`:3`, `:410`).
  `OptimalOnSimpleGraphs` says where they are. "After normalization, all edges span exactly one rank"
  (`normalize.rs:7`) leaves out edges without length, whose ends may stay on one rank; `ChainsReplaceEdges` says
  so. Where every length is doubled for labels (`pipeline.rs:100`), a length of 0 stays 0, and a labelled edge of
  that kind has no dummy.
- *Compounds.* The compound pass considers edges the search did not reverse only, so constraint cycles remain
  (a subgraph of 1 and 3 declared after one of 2, edges 1→2, 2→1, 2→3): the longest path then misses
  nodes, which "shouldn't happen after acyclic phase" (`rank_core.rs:62`) and which `nesting.rs:176` says is
  avoided. `parent_dummy_chains` walks from the original source although a reversed chain runs the
  other way, so that its dummies get compounds that do not reach to their rank. A titled subgraph
  without children has a title but no borders; `insert_title_nodes` indexes them and panics
  (`TitlesHaveBorders` is the condition). The second `rank::normalize` after the titles does nothing, since
  titles are excluded from positions, although the pipeline's comment says it makes up for rank -1.
- *Crossing reduction.* `insert_self_edge_dummies` makes room for a dummy among all nodes but the one
  added last (`0..lg.order.len() - 1`), which may then share its place. The dummies of reversed chains
  just mentioned (`Strays`) are never met by `sort_subgraph` and keep a place that is somebody else's.
  `greedy_switch` compares parents only, and a border's parent is its own compound: a member may be
  switched past the border of its frame, so that the ends of a frame are claimed for orders it has
  not touched. "Guaranteeing no swap increases total crossings" (`order.rs:1338`) leaves out links that
  are read upwards (tracked reversed chains), which `count_all_crossings` counts but `AdjacencyIndex`
  ignores; `SwitchingOnlyHelps` is about the others. Three frames side by side with many edges across
  can record constraints that form a cycle (7 before 8, 8 before 9, 9 before 7, in one sweep, when 9 swallows 8
  and then stands before 7). `resolve_conflicts` returns the entries it took off its source set, and those of a
  cycle never get there: `sort_subgraph` loses the three frames on every rank that follows, their nodes keep
  stale places, and other nodes of these ranks are given the same ones. So `TwoAbreast` is a condition of what is
  claimed about places. A link of
  weight 0 (an invisible edge) makes the barycenter 0/0. The first upward sweep leaves the last rank as it
  was, and may be the one that is kept.
- *Fit.* "A skipped rung's lever changed nothing, so later rungs do not carry (or report) it"
  (`fit.rs`, `push_sequence`): what it changed is judged before truncation, which is applied before the wraps.
  A label of words 9, 1 and 9 wide is broken by the wrap at 16 and not changed again by the one at 10,
  which is dropped; cut to 12 cells it is one line that the wrap at 16 leaves alone and the one at 10
  would have broken, so that the truncated rung may be wider than the rung it shortens. With a height budget
  the best attempt is the one of least width overflow, then of least height overflow, and need not be the
  narrowest valid drawing (`fit.rs:8`). `min_width` of a fitted answer is its own width, though a
  narrower budget would give the same output when nothing on the ladder is narrower. An error of the
  engine at a later rung fails the whole fit, although earlier rungs are drawn.
  A wrap drops empty words (`fit_levers.rs:16`), so a run of spaces, which a label and its cut keep, collapses
  when it is wrapped: two cuts that differ in such a run only are different graphs, but the same one once
  wrapped, and since a rung is compared with the rung it extends and with no other (`fit.rs:483`, `498`), it is
  solved twice.
- *Documents.* "`None` to allocate the next dense `e{index}` identifier [...]; existing IDs [...] are rejected"
  (`commands.rs:23`); but only a requested id is compared with the others. On a view, whose ids are
  sparse (`docs/mmds.md:107`), the id allocated may be another edge's: the event then names that edge, and
  the new edge is given its style (`commands.rs:999`). Views copy styles of what they leave out (`project.rs:79`), and keep
  intents to subgraphs they drop. Regions of a parent are not kept in step by `SetSubgraphParent` and
  `AddSubgraph`. A subgraph that an intent names cannot be removed. A node and a subgraph may get one id.
  Pairing "in declaration order" follows the order of strings, so `e10` comes before `e2`
  (`diff/mod.rs:674`).
- *Playground.* Neither worker client has an `onerror` handler, and only dynamic renders time out; the
  model assumes that the worker's script itself loads.

The properties of the passing runs are worded to hold in spite of these: their hypotheses (`Dense`,
`NewIdIsFree`, `NoStaleStyle`, `misled = {}`, `Distinguishable`, `KeepsAnEnd`, `IntentsEnclose`, `Simple`, `Connected`, `Strays = {}`) name the
documents, graphs and behaviours for which the code keeps its promise.

## 8. Not modelled

| part | why |
|---|---|
| kernel: coordinates (`bk.rs`, `position.rs`, `compartment_spacing.rs`, `border::remove_nodes`) | averages of real numbers in passes without a choice; what they rely on is checked where the orders come from |
| kernel: moving label dummies and choosing their sides, the sweeps of `reorder_layer`, the declared order as a tie-break, weights of 0 while ordering | sizes of labels are not modelled; neither engine asks for the others; see section 7 for the last |
| label lanes | planned (`LabelLanes`); the rest of edge and label routing is float geometry in pure passes |
| published worker client | planned (`PackageClient`): the same protocol with disjoint ranges of numbers |
| dynamic text metrics | two caches and a guard against re-entrance; lower priority |
| sequence diagrams | one pass from events to rows; activation stacks are worth a later module |
| parsers, compilers, graph model, bridge, engine registry | pure functions of their input; their results are the inputs of the runs |
| grid and renderers | geometry and output without state between calls |
| runtime facade, command line, wasm bindings, MMDS packages | options and conversions around the parts above |
| playground user interface | DOM code; what it hands to the render path is the text |
| other developer tasks, architecture rules | one-shot tools, pure functions |
| `SetProfiles`, `SetExtension` outside the namespace of the styles | store values that nothing modelled reads (`SetExtension` of the styles is an action) |
| metadata of other versions or repositories | abstracted to the torn file: both are unusable |
