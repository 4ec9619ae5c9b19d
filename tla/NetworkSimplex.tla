--------------------------- MODULE NetworkSimplex ---------------------------
(***************************************************************************)
(* Ranking: network_simplex::run_with_policy with its initial ranking from *)
(* rank_core.  A step is one iteration of a loop of the code: a node taken *)
(* off the stack of tight_tree, a shift of the tree by the least slack, an *)
(* exchange of two tree edges.  Compounds take part as nodes without edges *)
(* unless the policy is DfsOnly.                                           *)
(*                                                                         *)
(* The numbering low/lim of the spanning tree is used by the code only to  *)
(* ask whether one node lies below another, so the tree itself answers the *)
(* question here (Below).                                                  *)
(***************************************************************************)
EXTENDS CompoundGraph

VARIABLES
  minlen,     \* edge_minlens, by edge position
  weight,     \* edge_weights, by edge position
  rank,       \* ranks
  phase,      \* where run_with_policy stands
  inTree,     \* in_tree: the nodes of the spanning tree
  parent,     \* parent in the tree; 0 for None
  via,        \* parent_edge: the edge to the parent; 0 for None
  cuts,       \* cut_value of each tree edge, by its lower end
  work,       \* the stack of tight_tree
  rounds,     \* iters, of the loop that is running
  missed      \* nodes the initial ranking found on a cycle or behind one (history)

treeVars == <<inTree, parent, via, cuts, work, rounds, missed>>
simplexVars == <<minlen, weight, rank, phase, inTree, parent, via, cuts, work, rounds, missed>>

Slack(k) == rank[Target(k)] - rank[Source(k)] - minlen[k]

Joins(k, v, w) == {edges[k].from, edges[k].to} = {v, w}

EdgeCount == Len(edges)

NodeCount == Cardinality(nodes)

\* is_rank_node: exclude_compounds is the policy DfsOnly.
RankNodes == IF config.dfsOnly THEN nodes \ Compounds ELSE nodes

\* The nodes Kahn's algorithm reaches: all of whose predecessors it has reached.
Processed ==
  LET reached[n \in Nat] ==
        IF n = 0 THEN {}
        ELSE LET done == reached[n - 1]
             IN  {v \in nodes : \A k \in Positions : Target(k) = v => Source(k) \in done}
  IN  reached[NodeCount]

\* longest_path: every node as early as its predecessors allow.  What is on a
\* cycle or behind one keeps the rank its processed predecessors ask for, or
\* goes below all others.
LongestPath ==
  LET done == Processed
      counted == {k \in Positions : Source(k) \in done}
      early[n \in Nat] ==
        IF n = 0 THEN [v \in nodes |-> 0]
        ELSE LET ranks == early[n - 1]
             IN  [v \in nodes |->
                    Max({0} \union {ranks[Source(k)] + minlen[k] :
                                      k \in {j \in counted : Target(j) = v}})]
      ranks == early[NodeCount]
      last == Max({ranks[v] : v \in nodes})
  IN  [v \in nodes |-> IF v \notin done /\ ranks[v] = 0 THEN last + 1 ELSE ranks[v]]

\* dagre_longest_path: every node as late as its successors allow, sinks and
\* compounds at 0.
DagreLongestPath ==
  LET late[n \in Nat] ==
        IF n = 0 THEN [v \in nodes |-> 0]
        ELSE LET ranks == late[n - 1]
             IN  [v \in nodes |->
                    LET out == {k \in Positions : Source(k) = v}
                    IN  IF out = {} THEN 0
                        ELSE Min({ranks[Target(k)] - minlen[k] : k \in out})]
  IN  late[NodeCount]

\* normalize: the lowest rank of a node to be placed becomes 0.
Normalized(ranks, placed) ==
  LET lowest == Min({ranks[v] : v \in placed})
  IN  [v \in DOMAIN ranks |-> ranks[v] - lowest]

RankingStart ==
  /\ rank = [v \in nodes |-> 0]
  /\ phase = "initial"
  /\ inTree = {}
  /\ parent = <<>>
  /\ via = <<>>
  /\ cuts = <<>>
  /\ work = <<>>
  /\ rounds = 0
  /\ missed = {}

\* The root of the spanning tree.
First == Min(RankNodes)

InitialRanks ==
  /\ phase = "initial"
  /\ \/ /\ config.longestPath \/ Cardinality(RankNodes) <= 1 \/ EdgeCount = 0
        /\ rank' = LongestPath
        /\ phase' = "ranked"
        /\ UNCHANGED <<inTree, work>>
     \/ /\ ~config.longestPath
        /\ Cardinality(RankNodes) > 1
        /\ EdgeCount > 0
        /\ rank' = IF config.dfsOnly THEN DagreLongestPath ELSE LongestPath
        /\ phase' = "grow"
        /\ inTree' = {First}
        /\ work' = <<First>>
  /\ parent' = [v \in nodes |-> 0]
  /\ via' = [v \in nodes |-> 0]
  /\ missed' = nodes \ Processed
  /\ UNCHANGED <<graphVars, compoundVars, minlen, weight, cuts, rounds>>
----------------------------------------------------------------------------
(* feasible_tree_with_mode: a spanning tree of tight edges.                *)

\* The tight edges from v to nodes outside the tree, one per node: the first.
TightFrom(v) ==
  LET outside == RankNodes \ inTree
      leads == {k \in Positions : Slack(k) = 0 /\ \E w \in outside : Joins(k, v, w)}
      other(k) == CHOOSE w \in outside : Joins(k, v, w)
  IN  {k \in leads : \A j \in leads : j < k => other(j) # other(k)}

GrowTree ==
  /\ phase = "grow"
  /\ work # <<>>
  /\ LET v == Last(work)
         tight == TightFrom(v)
         added == InOrder(tight)
         end(k) == CHOOSE w \in nodes : Joins(k, v, w)
         new == {end(k) : k \in tight}
     IN  /\ inTree' = inTree \union new
         /\ parent' = [w \in nodes |-> IF w \in new THEN v ELSE parent[w]]
         /\ via' = [w \in nodes |->
                      IF w \in new
                      THEN CHOOSE k \in tight : end(k) = w
                      ELSE via[w]]
         /\ work' = Front(work) \o [i \in DOMAIN added |-> end(added[i])]
  /\ UNCHANGED <<graphVars, compoundVars, minlen, weight, rank, phase, cuts, rounds, missed>>

Crossing == {k \in Positions : (edges[k].from \in inTree) # (edges[k].to \in inTree)}

\* find_min_slack_crossing keeps the first edge of least slack.
LeastSlackCrossing ==
  LET crossing == Crossing
  IN  CHOOSE k \in crossing :
        \A j \in crossing : Slack(k) < Slack(j) \/ (Slack(k) = Slack(j) /\ k <= j)

\* The cut-offs of the loop (a shift by nothing, 2 * n rounds) never take
\* effect: see LayeringTypeOK.
ShiftTree ==
  /\ phase = "grow"
  /\ work = <<>>
  /\ inTree # RankNodes
  /\ Crossing # {}
  /\ LET k == LeastSlackCrossing
         delta == IF Source(k) \in inTree THEN Slack(k) ELSE -Slack(k)
     IN  rank' = [v \in nodes |-> IF v \in inTree THEN rank[v] + delta ELSE rank[v]]
  /\ work' = InOrder(inTree)
  /\ rounds' = rounds + 1
  /\ UNCHANGED <<graphVars, compoundVars, minlen, weight, phase, inTree, parent, via, cuts,
                 missed>>

\* calc_cut_value for the tree edge of each node, from the leaves upwards, in
\* the tree given by up and edgeUp.
CutValues(up, edgeUp) ==
  LET cut[c \in nodes] ==
        LET e == edgeUp[c]
            childIsTail == Source(e) = c
            far(k) == IF edges[k].from = c THEN edges[k].to ELSE edges[k].from
            incident == {k \in Positions \ {e} :
                           c \in {edges[k].from, edges[k].to} /\ far(k) # up[c]}
            sign(k) == IF (Source(k) = c) = childIsTail THEN 1 ELSE -1
            share(k) == sign(k) * (IF up[far(k)] = c
                                   THEN weight[k] - cut[far(k)]
                                   ELSE weight[k])
        IN  weight[e] + MapThenSumSet(share, incident)
  IN  [c \in {v \in nodes : up[v] # 0} |-> cut[c]]

\* The tree spans the graph, or the part of it that the first node reaches:
\* then the other nodes join it without an edge.
FinishTree ==
  /\ phase = "grow"
  /\ work = <<>>
  /\ inTree = RankNodes \/ Crossing = {}
  /\ inTree' = RankNodes
  /\ phase' = "pivot"
  /\ cuts' = CutValues(parent, via)
  /\ rounds' = 0
  /\ UNCHANGED <<graphVars, compoundVars, minlen, weight, rank, parent, via, work, missed>>
----------------------------------------------------------------------------
(* The pivot loop.                                                         *)

\* is_descendant: the nodes of the subtree of v, v included.
Below(v) ==
  LET under[n \in Nat] ==
        IF n = 0 THEN {v}
        ELSE LET above == under[n - 1]
             IN  above \union {w \in nodes : parent[w] \in above}
  IN  under[NodeCount]

\* Mutant: only the worst ones.
WorstCuts == {c \in DOMAIN cuts : cuts[c] < -1}

NegativeCuts == {c \in DOMAIN cuts : cuts[c] < 0}

\* leave_edge names a tree edge by its lower end.
Leaving == Min(NegativeCuts)

\* enter_edge: the edges that cross the cut against the leaving edge.
Entering ==
  LET child == Leaving
      below == Below(child)
      childIsHead == Target(via[child]) = child
  IN  {k \in Positions \ {via[v] : v \in nodes} :
         /\ (Source(k) \in below) = childIsHead
         /\ (Target(k) \in below) # childIsHead}

\* A candidate of least slack, the first of them.
Chosen ==
  LET entering == Entering
  IN  CHOOSE k \in entering :
        \A j \in entering : Slack(k) < Slack(j) \/ (Slack(k) = Slack(j) /\ k <= j)

\* rebuild_parent_pointers: the tree with the edges T, hung from its root.
\* The result pairs a node with its parent and the edge between them.
Hung(T) ==
  LET hung[n \in Nat] ==
        IF n = 0 THEN {<<First, 0, 0>>}
        ELSE LET above == hung[n - 1]
                 seen == {link[1] : link \in above}
                 leading == {k \in T : (edges[k].from \in seen) # (edges[k].to \in seen)}
             IN  above \union
                   {IF edges[k].from \in seen
                    THEN <<edges[k].to, edges[k].from, k>>
                    ELSE <<edges[k].from, edges[k].to, k>> : k \in leading}
  IN  hung[NodeCount]

\* Mutant: the direction of the tree edge is ignored.
TightRanksDown(up, edgeUp) ==
  LET tight[v \in nodes] ==
        IF up[v] = 0 THEN rank[v] ELSE tight[up[v]] + minlen[edgeUp[v]]
  IN  tight

\* update_ranks: every tree edge tight again, from the root down.
TightRanks(up, edgeUp) ==
  LET tight[v \in nodes] ==
        IF up[v] = 0 THEN rank[v]
        ELSE IF Source(edgeUp[v]) = v
             THEN tight[up[v]] - minlen[edgeUp[v]]
             ELSE tight[up[v]] + minlen[edgeUp[v]]
  IN  tight

PivotLimit == NodeCount * EdgeCount

CanPivot == NegativeCuts # {} /\ Entering # {} /\ rounds < PivotLimit

\* exchange_edges.
Pivot ==
  /\ phase = "pivot"
  /\ CanPivot
  /\ LET treeEdges == ({via[v] : v \in nodes} \ {0, via[Leaving]}) \union {Chosen}
         links == Hung(treeEdges)
         link(v, i) == IF \E l \in links : l[1] = v
                       THEN (CHOOSE l \in links : l[1] = v)[i]
                       ELSE 0
         up == [v \in nodes |-> link(v, 2)]
         edgeUp == [v \in nodes |-> link(v, 3)]
     IN  /\ parent' = up
         /\ via' = edgeUp
         /\ rank' = TightRanks(up, edgeUp)
         /\ cuts' = CutValues(up, edgeUp)
  /\ rounds' = rounds + 1
  /\ UNCHANGED <<graphVars, compoundVars, minlen, weight, phase, inTree, work, missed>>

FinishRanks ==
  /\ phase = "pivot"
  /\ ~CanPivot
  /\ rank' = IF config.dfsOnly THEN rank ELSE Normalized(rank, PositionNodes)
  /\ phase' = "ranked"
  /\ UNCHANGED <<graphVars, compoundVars, minlen, weight, inTree, parent, via, cuts, work, rounds, missed>>

RankingNext ==
  \/ InitialRanks
  \/ GrowTree
  \/ ShiftTree
  \/ FinishTree
  \/ Pivot
  \/ FinishRanks
============================================================================
