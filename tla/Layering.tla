----------------------------- MODULE Layering -----------------------------
(***************************************************************************)
(* The first phases of layout_with_labels: extract_self_edges, the acyclic *)
(* search and the compound feedback, make_space for labels, the frames of  *)
(* the compounds, ranking, the replacement of long edges by chains of      *)
(* dummy nodes (normalize::run) and the parents of these.  Crossing        *)
(* reduction and coordinates come after.                                   *)
(***************************************************************************)
EXTENDS Acyclic, Nesting

CONSTANT Inputs  \* the graphs to lay out, with the configuration of the layout

VARIABLES
  stage,     \* the phase that comes next
  labels,    \* keys of edge_labels: positions in the edge list as given
  chained,   \* normalize::run: how many edges its loop has passed
  chains,    \* dummy_chains
  segments,  \* edges after normalize::run
  flipped    \* reversed_edges after normalize::run

chainVars == <<chained, chains, segments, flipped>>
layeringVars ==
  <<graphVars, visited, stack, examined, finish, clock, compoundVars, simplexVars,
    nestingVars, stage, labels, chained, chains, segments, flipped>>

\* Nodes are numbered, compounds are nodes that stand in no circle, and edges join nodes
\* that are none.
ASSUME InputsAreGraphs ==
  \A input \in Inputs :
    LET compounds == {input.parents[v] : v \in input.nodes} \ {0}
        ends == input.nodes \ compounds
    IN  /\ IsFiniteSet(input.nodes) /\ input.nodes = 1..Cardinality(input.nodes)
        /\ input.parents \in [input.nodes -> input.nodes \union {0}]
        /\ \A C \in SUBSET compounds : C # {} => \E c \in C : input.parents[c] \notin C
        /\ input.titled \subseteq input.nodes
        /\ input.edges \in
             Seq([from : ends, to : ends, minlen : Int, weight : Int, label : BOOLEAN])

\* from_digraph: an edge remembers its position in the list as given.
LayeringInit ==
  /\ \E input \in Inputs :
       /\ config = input.config
       /\ nodes = input.nodes
       /\ edges = [k \in DOMAIN input.edges |->
                     [from |-> input.edges[k].from, to |-> input.edges[k].to, orig |-> k]]
       /\ minlen = [k \in DOMAIN input.edges |-> input.edges[k].minlen]
       /\ weight = [k \in DOMAIN input.edges |-> input.edges[k].weight]
       /\ labels = {k \in DOMAIN input.edges : input.edges[k].label}
       /\ parents = input.parents
       /\ semantic = input.semantic
       /\ titled = input.titled
  /\ reversed = {}
  /\ unplaced = {}
  /\ SearchStart
  /\ RankingStart
  /\ NestingStart
  /\ stage = "self_edges"
  /\ chained = 0
  /\ chains = <<>>
  /\ segments = <<>>
  /\ flipped = {}

\* Mutant: the parallel vectors keep the entry of the removed edge.
ExtractSelfEdgesOnly ==
  /\ stage = "self_edges"
  /\ LET kept == InOrder({k \in Positions : edges[k].from # edges[k].to})
     IN  edges' = [i \in DOMAIN kept |-> edges[kept[i]]]
  /\ stage' = "acyclic"
  /\ UNCHANGED <<nodes, reversed, searchVars, compoundVars, simplexVars, nestingVars,
                 labels, chainVars>>

ExtractSelfEdges ==
  /\ stage = "self_edges"
  /\ LET kept == InOrder({k \in Positions : edges[k].from # edges[k].to})
         keep(s) == [i \in DOMAIN kept |-> s[kept[i]]]
     IN  /\ edges' = keep(edges)
         /\ minlen' = keep(minlen)
         /\ weight' = keep(weight)
  /\ stage' = "acyclic"
  /\ UNCHANGED <<nodes, reversed, searchVars, compoundVars, rank, phase, treeVars,
                 nestingVars, labels, chainVars>>

Search ==
  /\ stage = "acyclic"
  /\ AcyclicNext
  /\ UNCHANGED <<compoundVars, simplexVars, nestingVars, stage, labels, chainVars>>

\* The search is over, and what it kept of its own with it.
EndSearch ==
  /\ stage = "acyclic"
  /\ SearchDone
  /\ visited' = {} /\ examined' = {} /\ finish' = <<>> /\ clock' = 0
  /\ stage' = "feedback"
  /\ UNCHANGED <<graphVars, stack, compoundVars, simplexVars, nestingVars, labels, chainVars>>

CompoundFeedback ==
  /\ stage = "feedback"
  /\ ReverseFeedback
  /\ UNCHANGED <<searchVars, compoundVars, simplexVars, nestingVars, stage, labels, chainVars>>

\* make_space_for_labeled_edges looks a label up by the position of the edge
\* among those that extract_self_edges left, not by its original index.
Roomy(k) ==
  IF ~config.perLabel THEN 2 * minlen[k]
  ELSE IF k \in labels THEN Max({minlen[k], 2})
  ELSE minlen[k]

MakeSpace ==
  /\ stage = "feedback"
  /\ FeedbackDone
  /\ minlen' = [k \in Positions |-> Roomy(k)]
  /\ stage' = IF Compounds = {} THEN "rank" ELSE "nest"
  /\ UNCHANGED <<graphVars, searchVars, compoundVars, weight, rank, phase, treeVars,
                 nestingVars, labels, chainVars>>

FrameCompounds ==
  /\ stage = "nest"
  /\ Nest
  /\ stage' = "rank"
  /\ UNCHANGED <<searchVars, labels, chainVars>>

Rank ==
  /\ stage = "rank"
  /\ RankingNext
  /\ UNCHANGED <<searchVars, nestingVars, stage, labels, chainVars>>

NormalizeRanks ==
  /\ stage = "rank"
  /\ phase = "ranked"
  /\ Compounds = {}
  /\ rank' = Normalized(rank, PositionNodes)
  /\ stage' = "chains"
  /\ UNCHANGED <<graphVars, searchVars, compoundVars, minlen, weight, phase, treeVars,
                 nestingVars, labels, chainVars>>

\* The phases that take the frames down again, for graphs with compounds.
Unframe ==
  /\ \/ stage = "rank" /\ phase = "ranked" /\ Compounds # {}
        /\ RemoveEmptyRanks /\ stage' = "clean_up"
     \/ stage = "clean_up" /\ CleanUp /\ stage' = "titles"
     \/ stage = "titles" /\ InsertTitles /\ stage' = "climbing"
     \/ stage = "climbing" /\ MarkClimbing /\ stage' = "chains"
  /\ UNCHANGED <<searchVars, labels, chainVars>>
----------------------------------------------------------------------------
(* normalize::run.                                                         *)

Long(k) == k \notin excluded /\ rank[Target(k)] > rank[Source(k)] + 1

\* Mutant: the stored direction.
PathAsWritten(k, dummies) == <<edges[k].from>> \o dummies \o <<edges[k].to>>

\* A chain runs downwards, so for a reversed edge from its target to its source.
PathThrough(k, dummies) == <<Source(k)>> \o dummies \o <<Target(k)>>

\* The midpoint of the span.
LabelRank(low, high) == (low + high) \div 2

\* An edge of one rank stays as it is.
KeepEdge ==
  /\ stage = "chains"
  /\ chained < EdgeCount
  /\ ~Long(chained + 1)
  /\ chained' = chained + 1
  /\ UNCHANGED <<graphVars, searchVars, compoundVars, simplexVars, nestingVars, stage,
                 labels, chains, segments, flipped>>

\* A longer one becomes a chain through one new node on every rank between.
BreakEdge ==
  /\ stage = "chains"
  /\ chained < EdgeCount
  /\ LET k == chained + 1
         low == rank[Source(k)]
         high == rank[Target(k)]
         first == NodeCount + 1
         dummies == [i \in 1..(high - low - 1) |-> first + i - 1]
         path == PathThrough(k, dummies)
     IN  /\ Long(k)
         /\ nodes' = nodes \union ToSet(dummies)
         /\ parents' = [v \in nodes' |-> IF v \in nodes THEN parents[v] ELSE 0]
         /\ rank' = [v \in nodes' |-> IF v \in nodes THEN rank[v] ELSE low + 1 + (v - first)]
         /\ chains' = Append(chains,
              [orig |-> edges[k].orig, from |-> edges[k].from, to |-> edges[k].to,
               reversed |-> k \in reversed,
               dummies |-> dummies,
               label |-> IF edges[k].orig \in labels THEN LabelRank(low, high) - low ELSE 0])
         /\ segments' = segments \o
              [i \in 1..(Len(path) - 1) |->
                 [from |-> path[i], to |-> path[i + 1], orig |-> edges[k].orig,
                  reversed |-> k \in reversed]]
         /\ chained' = k
  /\ UNCHANGED <<edges, reversed, searchVars, config, semantic, titled, unplaced, minlen,
                 weight, phase, treeVars, nestingVars, stage, labels, flipped>>

\* Phase 2 of normalize::run: the short edges, then the links of the chains.
Rebuild ==
  /\ stage = "chains"
  /\ chained = EdgeCount
  /\ LET short == InOrder({k \in Positions : ~Long(k)})
         link(s) == [from |-> s.from, to |-> s.to, orig |-> s.orig]
     IN  /\ segments' = [i \in DOMAIN short |-> link(edges[short[i]])] \o
                        [i \in DOMAIN segments |-> link(segments[i])]
         /\ flipped' = {i \in DOMAIN short : short[i] \in reversed} \union
                       {Len(short) + i :
                          i \in {j \in DOMAIN segments :
                                   config.trackChains /\ segments[j].reversed}}
         /\ excluded' = {i \in DOMAIN short : short[i] \in excluded}
  /\ stage' = IF Compounds = {} THEN "order" ELSE "parents"
  /\ UNCHANGED <<graphVars, searchVars, compoundVars, simplexVars, borders, nesting, factor,
                 labels, chained, chains>>

\* parent_dummy_chains::run walks from the ends of the edge as written.
AssignParents ==
  /\ stage = "parents"
  /\ LET chainOf(v) == CHOOSE i \in DOMAIN chains : v \in ToSet(chains[i].dummies)
         dummies == UNION {ToSet(chains[i].dummies) : i \in DOMAIN chains}
     IN  parents' = [v \in nodes |->
                       IF v \in dummies
                       THEN ParentOnRank(chains[chainOf(v)].from, chains[chainOf(v)].to, rank[v])
                       ELSE parents[v]]
  /\ stage' = "order"
  /\ UNCHANGED <<graphVars, searchVars, config, semantic, titled, unplaced, simplexVars,
                 nestingVars, labels, chainVars>>

LayeringNext ==
  \/ ExtractSelfEdges
  \/ Search
  \/ EndSearch
  \/ CompoundFeedback
  \/ MakeSpace
  \/ FrameCompounds
  \/ Rank
  \/ NormalizeRanks
  \/ Unframe
  \/ KeepEdge
  \/ BreakEdge
  \/ Rebuild
  \/ AssignParents

LayeringDone == stage = "order" /\ UNCHANGED layeringVars

LayeringSpec == LayeringInit /\ [][LayeringNext \/ LayeringDone]_layeringVars
----------------------------------------------------------------------------
\* The graph and the tree are well formed, and the loop that grows the tree ends before
\* its safety limit of one round for each node (feasible_tree_with_mode).
LayeringTypeOK ==
  /\ stage \in {"self_edges", "acyclic", "feedback", "nest", "rank", "clean_up", "titles",
                "climbing", "chains", "parents", "order"}
  /\ phase \in {"initial", "grow", "pivot", "ranked"}
  /\ reversed \subseteq Positions
  /\ DOMAIN minlen = Positions /\ DOMAIN weight = Positions
  /\ nodes = 1..NodeCount
  /\ rank \in [nodes -> Int] /\ parents \in [nodes -> nodes \union {0}]
  /\ \A v \in nodes : v \notin Around(v)
  /\ phase = "grow" => rounds < NodeCount
  /\ inTree \subseteq RankNodes
  /\ stage = "rank" /\ phase \in {"grow", "pivot"} =>
       parent \in [nodes -> RankNodes \union {0}] /\ via \in [nodes -> Positions \union {0}]

(***************************************************************************)
(* From the initial ranking on, through every shift and every exchange,    *)
(* each edge keeps its minimal length, so no step draws an edge upwards or *)
(* takes away the room a label asked for; and the spanning tree holds only *)
(* tight edges, each joining a node to its parent, with all parents        *)
(* leading to the root: update_ranks may derive every rank from it, and an *)
(* exchange never cuts a part of the tree off.                             *)
(***************************************************************************)
TightTreeSpansFeasibleRanks ==
  /\ stage = "rank" /\ phase # "initial" /\ missed = {} => \A k \in Positions : Slack(k) >= 0
  /\ phase \in {"grow", "pivot"} =>
       LET hung == Below(First)
       IN  \A v \in nodes : parent[v] # 0 =>
             /\ Joins(via[v], v, parent[v])
             /\ Slack(via[v]) = 0
             /\ v \in hung

Simple ==
  \A j, k \in Positions :
    {edges[j].from, edges[j].to} = {edges[k].from, edges[k].to} => j = k

\* The tree of the pivot loop has reached every node.
Connected == \A v \in nodes \ {First} : parent[v] # 0

(***************************************************************************)
(* No set of nodes can be moved down by one rank together such that every  *)
(* edge keeps its minimal length and the total weighted length shrinks.    *)
(* For difference constraints this local minimum is the global one: the    *)
(* way from any ranking to a shorter one splits into such moves.           *)
(***************************************************************************)
Shortest ==
  \A S \in SUBSET nodes :
    LET in(v) == IF v \in S THEN 1 ELSE 0
        gain(k) == in(Target(k)) - in(Source(k))
    IN  (\A k \in Positions : Slack(k) + gain(k) >= 0)
          => MapThenSumSet(LAMBDA k : weight[k] * gain(k), Positions) >= 0

(***************************************************************************)
(* "Assigns optimal ranks minimizing total weighted edge length"           *)
(* (network_simplex.rs), for connected graphs in which no two edges join   *)
(* the same nodes: cut values leave out the edges parallel to a tree edge, *)
(* and of a graph in parts only the first is optimised.                    *)
(***************************************************************************)
OptimalOnSimpleGraphs ==
  phase = "ranked" /\ stage = "rank" /\ Compounds = {} /\ Simple /\ Connected => Shortest
----------------------------------------------------------------------------
\* The nodes of frames and titles, and the edges they brought.
Added == (UNION {{borders[c][1], borders[c][2]} : c \in DOMAIN borders}) \union unplaced
TouchesAdded(link) == link.from \in Added \/ link.to \in Added

\* The edges of the graph, the links that draw them, and the nodes on these.
Drawn == {k \in Positions : ~TouchesAdded(edges[k])}
Links == {i \in DOMAIN segments : ~TouchesAdded(segments[i])}
Dummies == UNION {ToSet(chains[i].dummies) : i \in DOMAIN chains}

\* A dummy node on the chain of the edge carries its label.
HasLabelDummy(orig) ==
  \E i \in DOMAIN chains : chains[i].orig = orig /\ chains[i].label \in DOMAIN chains[i].dummies

(***************************************************************************)
(* Every labelled edge has a dummy node to carry its label ("ensures       *)
(* labeled edges have minlen >= 2 so a label dummy can be inserted",       *)
(* support.rs).                                                            *)
(***************************************************************************)
LabelsHaveADummy ==
  stage = "order" /\ missed = {} =>
    \A k \in Drawn : edges[k].orig \in labels => HasLabelDummy(edges[k].orig)

\* No self edge has been taken out of the list.
NothingExtracted == \A k \in Drawn : edges[k].orig = k

\* Links lead over one rank or none; read with their reversals they lead down, unless
\* the links of reversed chains are tracked as reversed.
LinksLeadDown ==
  \A i \in Links :
    LET span == rank[segments[i].to] - rank[segments[i].from]
    IN  /\ span \in {-1, 0, 1}
        /\ ~config.trackChains => IF i \in flipped THEN span <= 0 ELSE span >= 0

EndsOf(i) == {segments[i].from, segments[i].to}

TopOf(i) == Min({rank[v] : v \in EndsOf(i)})

\* The links of an edge cover every gap between its ends once, and begin and end there.
LinksCoverEdges ==
  \A k \in Drawn :
    LET mine == {i \in Links : segments[i].orig = edges[k].orig}
        low == rank[Source(k)]
        high == rank[Target(k)]
    IN  /\ Cardinality(mine) = Max({1, high - low})
        /\ {TopOf(i) : i \in mine} = low..Max({low, high - 1})
        /\ \E i, j \in mine : Source(k) \in EndsOf(i) /\ Target(k) \in EndsOf(j)
        /\ minlen[k] > 0 => low < high

\* A dummy node lies on two links, and these on one edge.
DummiesJoinTwo ==
  \A v \in Dummies :
    LET at == {i \in Links : v \in EndsOf(i)}
    IN  Cardinality(at) = 2 /\ Cardinality({segments[i].orig : i \in at}) = 1

\* Where the positions of edges are still their original indices, or every edge gets the
\* room of a label, labels have a dummy node; an edge without length has none to double.
RoomyLabelsHaveADummy ==
  NothingExtracted \/ ~config.perLabel =>
    \A k \in Drawn :
      edges[k].orig \in labels /\ minlen[k] > 0 => HasLabelDummy(edges[k].orig)

(***************************************************************************)
(* "After normalization, all edges span exactly one rank" (normalize.rs),  *)
(* but for edges that need no length (those inside a subgraph with a       *)
(* direction of its own): these may stay on one rank.  The rebuilt list    *)
(* draws each edge of the graph once, from end to end, through nodes no    *)
(* other edge goes through, and labels have a place on it.                 *)
(***************************************************************************)
ChainsReplaceEdges ==
  stage = "order" /\ missed = {} /\ (\A k \in Drawn : minlen[k] >= 0) =>
    LinksLeadDown /\ LinksCoverEdges /\ DummiesJoinTwo /\ RoomyLabelsHaveADummy

(***************************************************************************)
(* When the phases are done, every node lies between the borders of all    *)
(* the compounds around it, and those of the graph and of inner frames off *)
(* these borders: the frames are drawn from the ranks of their borders     *)
(* (assign_rank_minmax), so that a node outside them would be drawn beside *)
(* its subgraph.  That goes for the nodes on the chains of edges too, and  *)
(* a chain stays in a compound as far as it goes ("ensures dummy nodes     *)
(* created during normalization are associated with the correct compound   *)
(* ancestors", parent_dummy_chains.rs).  Chains of edges that are read     *)
(* backwards are left out: their nodes all get the compound of the source. *)
(***************************************************************************)
HeldBy(c, v) ==
  /\ MinRank(c) <= rank[v] /\ rank[v] <= MaxRank(c)
  /\ v \notin Dummies \union {borders[c][1], borders[c][2]} =>
       MinRank(c) < rank[v] /\ rank[v] < MaxRank(c)

\* The nodes on the chains of edges that are read backwards.
BackDummies == UNION {ToSet(chains[i].dummies) : i \in {j \in DOMAIN chains : chains[j].reversed}}

\* A link of a chain leaves only compounds that end there.
LeavesWhereItEnds(link) ==
  \A c \in Around(link.from) \ Around(link.to) : rank[link.from] = MaxRank(c)

CompoundsHoldTheirNodes ==
  stage = "order" /\ missed = {} =>
    /\ \A v \in PositionNodes \ BackDummies : \A c \in Around(v) : HeldBy(c, v)
    /\ \A i \in Links :
         segments[i].to \in Dummies \ BackDummies => LeavesWhereItEnds(segments[i])

(***************************************************************************)
(* An edge that leaves a subgraph and from whose target no edges lead back *)
(* into it ends below the subgraph's frame, however far other nodes have   *)
(* stretched the frame and whatever ranks were taken out since ("the       *)
(* target to be ranked after the compound's bottom border", nesting.rs).   *)
(* Edges that ask for a negative length may be turned once the frames are  *)
(* made, and then no longer lead back; graphs without them are meant.      *)
(***************************************************************************)
ExitsEndBelowTheFrame ==
  stage = "order" /\ missed = {} /\ ~config.dfsOnly /\ (\A k \in Drawn : minlen[k] >= 0) =>
    \A k \in Drawn \ reversed :
      LET c == parents[edges[k].from]
      IN  Leaves(k, c, Drawn \ reversed) => rank[edges[k].to] > MaxRank(c)
============================================================================
