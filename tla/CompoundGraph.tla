--------------------------- MODULE CompoundGraph ---------------------------
(***************************************************************************)
(* The part of LayoutGraph that describes compound nodes (subgraphs), and  *)
(* what the acyclic phase does about them: detect_compound_back_edges      *)
(* (acyclic.rs) reverses edges until the compounds, joined by the edges    *)
(* between their direct members, form no cycle.                            *)
(*                                                                         *)
(* An edge never ends at a compound: the compilers give an edge of a       *)
(* subgraph to one of its nodes.                                           *)
(***************************************************************************)
EXTENDS LayoutGraph, Listing, FiniteSetsExt, SequencesExt

VARIABLES
  config,    \* the LayoutConfig of this call, as far as these phases read it:
             \* [perLabel, trackChains, dfsOnly, longestPath : BOOLEAN], and
             \* greedySwitch and sideGrouping where Layout goes on
  parents,   \* the compound around a node; 0 for None
  semantic,  \* compound_semantic_order: the place of a compound among them
  titled,    \* compound_titles
  unplaced   \* position_excluded_nodes

compoundVars == <<config, parents, semantic, titled, unplaced>>

\* compound_nodes: whatever is somebody's parent.
Compounds == {parents[v] : v \in DOMAIN parents} \ {0}

\* The compounds around a node, at any distance: those in every set of compounds
\* that holds the parent of the node and those of its members.
Around(v) ==
  {c \in Compounds :
     \A C \in SUBSET Compounds : {parents[w] : w \in C \union {v}} \ {0} \subseteq C => c \in C}

IsDescendant(v, c) == c \in Around(v)

\* is_position_node.
PositionNodes == nodes \ (Compounds \union unplaced)

\* Edges between direct members of two compounds, as long as they are not reversed.
CompoundEdges ==
  {k \in Positions \ reversed :
     LET c == parents[edges[k].from]
         d == parents[edges[k].to]
     IN  c # 0 /\ d # 0 /\ c # d}

FromCompound(k) == parents[edges[k].from]
ToCompound(k) == parents[edges[k].to]

\* compound_path_exists: the compounds the edges K lead to from c.
LedTo(K, c) ==
  LET led[n \in Nat] ==
        IF n = 0 THEN {c}
        ELSE LET before == led[n - 1]
             IN  before \union {ToCompound(k) : k \in {j \in K : FromCompound(j) \in before}}
  IN  led[Cardinality(Compounds)]

Feedback ==
  {k \in CompoundEdges : FromCompound(k) \in LedTo(CompoundEdges \ {k}, ToCompound(k))}

\* How far an edge leads back in the order of declaration.
BackBy(k) == semantic[FromCompound(k)] - semantic[ToCompound(k)]

\* select_compound_feedback_edge: the edge that leads back furthest, or, when
\* none does, that leads ahead least; the first of them.
FeedbackChoice(k) ==
  \A j \in Feedback : BackBy(k) > BackBy(j) \/ (BackBy(k) = BackBy(j) /\ k <= j)

\* One turn of the loop of detect_compound_back_edges.
ReverseFeedback ==
  /\ ~config.dfsOnly
  /\ \E k \in Feedback : FeedbackChoice(k) /\ reversed' = reversed \union {k}
  /\ UNCHANGED <<nodes, edges>>

FeedbackDone == config.dfsOnly \/ Feedback = {}
============================================================================
