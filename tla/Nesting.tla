------------------------------ MODULE Nesting ------------------------------
(***************************************************************************)
(* What the pipeline does for graphs with compounds around the ranking:    *)
(* nesting::run_with_policy frames every compound by a top and a bottom    *)
(* border node, rank::remove_empty_ranks takes back the room this made,    *)
(* cleanup withdraws the frame's edges, insert_title_nodes puts a node for *)
(* the title above the top border, and parent_dummy_chains gives the dummy *)
(* nodes of a chain to the compounds it passes through.                    *)
(***************************************************************************)
EXTENDS NetworkSimplex

VARIABLES
  borders,   \* border_top and border_bottom of each compound, as a pair
  nesting,   \* nesting_edges
  excluded,  \* excluded_edges
  factor     \* node_rank_factor

nestingVars == <<borders, nesting, excluded, factor>>

NestingStart == borders = <<>> /\ nesting = {} /\ excluded = {} /\ factor = 1

\* tree_depths counts from 1.
Depth(v) == Cardinality(Around(v)) + 1

Height == Max({Depth(v) : v \in nodes}) - 1

Children(c) == {v \in nodes : parents[v] = c}

\* The places of the border nodes among the nodes: after those of the graph, in pairs.
FrameOf ==
  [c \in Compounds |->
     LET after == NodeCount + 2 * Cardinality({d \in Compounds : d < c})
     IN  <<after + 1, after + 2>>]

Link(from, to, len, w) == [from |-> from, to |-> to, minlen |-> len, weight |-> w]

\* From the top border to each child and on to the bottom border.  A child
\* that is a compound is held by its own borders.
Frame(frames, c) ==
  LET heavy == 2 * NodeCount
      held(v) ==
        LET top == IF v \in Compounds THEN frames[v][1] ELSE v
            bottom == IF v \in Compounds THEN frames[v][2] ELSE v
            len == IF v \in Compounds THEN 1 ELSE Height - Depth(c) + 1
            w == IF v \in Compounds THEN heavy ELSE 2 * heavy
        IN  <<Link(frames[c][1], top, len, w), Link(bottom, frames[c][2], len, w)>>
      inOrder == InOrder(Children(c))
  IN  FlattenSeq([i \in DOMAIN inOrder |-> held(inOrder[i])])

\* can_reach_compound: along at least one of the edges K.
LeadsInto(K, v, c) ==
  LET led[n \in Nat] ==
        IF n = 0 THEN {v}
        ELSE LET before == led[n - 1]
             IN  before \union {edges[k].to : k \in {j \in K : edges[j].from \in before}}
      met == led[NodeCount]
  IN  \E k \in K : edges[k].from \in met /\ IsDescendant(edges[k].to, c)

\* The edge leaves its source's compound c, and the edges K do not lead back.
Leaves(k, c, K) ==
  c # 0 /\ ~IsDescendant(edges[k].to, c) /\ ~LeadsInto(K, edges[k].to, c)

\* Mutant: only frames that are in no other frame.
ExitsOfOutermost ==
  IF config.dfsOnly THEN {}
  ELSE {k \in Positions \ reversed :
          LET c == parents[edges[k].from]
          IN  Leaves(k, c, Positions \ reversed) /\ parents[c] = 0}

\* What these edges lead to goes below the compound's bottom border.
Exits ==
  IF config.dfsOnly THEN {}
  ELSE {k \in Positions \ reversed :
          Leaves(k, parents[edges[k].from], Positions \ reversed)}

\* The root holds whatever is in no compound.
RootLinks(frames, root) ==
  LET top == {v \in nodes : parents[v] = 0}
      leaves == InOrder(top \ Compounds)
      compounds == InOrder(top \intersect Compounds)
  IN  [i \in DOMAIN leaves |-> Link(root, leaves[i], 2 * Height + 1, 0)] \o
      [i \in DOMAIN compounds |-> Link(root, frames[compounds[i]][1], Height + 1, 0)]

Nest ==
  /\ LET frames == FrameOf
         root == NodeCount + 2 * Cardinality(Compounds) + 1
         inOrder == InOrder(Compounds)
         exits == InOrder(Exits)
         added == FlattenSeq([i \in DOMAIN inOrder |-> Frame(frames, inOrder[i])]) \o
                  [i \in DOMAIN exits |->
                     Link(frames[parents[edges[exits[i]].from]][2], edges[exits[i]].to, 1, 0)] \o
                  RootLinks(frames, root)
         framed(v) == CHOOSE c \in Compounds : v \in {frames[c][1], frames[c][2]}
     IN  /\ nodes' = 1..root
         /\ parents' = [v \in 1..root |->
                          IF v \in nodes THEN parents[v] ELSE IF v = root THEN 0 ELSE framed(v)]
         /\ edges' = edges \o [i \in DOMAIN added |->
                                 [from |-> added[i].from, to |-> added[i].to,
                                  orig |-> EdgeCount + i]]
         /\ minlen' = [k \in Positions |-> minlen[k] * (2 * Height + 1)] \o
                      [i \in DOMAIN added |-> added[i].minlen]
         /\ weight' = weight \o [i \in DOMAIN added |-> added[i].weight]
         /\ rank' = [v \in 1..root |-> 0]
         /\ borders' = frames
         /\ nesting' = (EdgeCount + 1)..(EdgeCount + Len(added))
         /\ factor' = 2 * Height + 1
  /\ UNCHANGED <<reversed, config, semantic, titled, unplaced, phase, treeVars, excluded>>
----------------------------------------------------------------------------
\* A layer that holds nothing and lies between two multiples of the factor.
Superfluous(i, first) ==
  i % factor # 0 /\ \A v \in nodes : rank[v] # first + i

\* remove_empty_ranks.
RemoveEmptyRanks ==
  /\ LET first == Min({rank[v] : v \in nodes})
         last == Max({rank[v] : v \in nodes})
         gone == {i \in 0..(last - first) : Superfluous(i, first)}
     IN  rank' = [v \in nodes |-> rank[v] - Cardinality({i \in gone : first + i < rank[v]})]
  /\ UNCHANGED <<graphVars, compoundVars, minlen, weight, phase, treeVars, nestingVars>>

\* cleanup and normalize: the frame's edges stay in the list but count no more,
\* and the root is not to be placed.
CleanUp ==
  /\ LET root == NodeCount
     IN  /\ unplaced' = unplaced \union {root}
         /\ rank' = Normalized(rank, PositionNodes \ {root})
  /\ weight' = [k \in Positions |-> IF k \in nesting THEN 0 ELSE weight[k]]
  /\ excluded' = excluded \union nesting
  /\ nesting' = {}
  /\ UNCHANGED <<graphVars, config, parents, semantic, titled, minlen, phase, treeVars,
                 borders, factor>>

\* insert_title_nodes looks up the top border of every titled subgraph, and
\* panics for one without children, which is no compound.
TitlesHaveBorders == titled \subseteq DOMAIN borders

InsertTitles ==
  /\ TitlesHaveBorders
  /\ LET inOrder == InOrder(titled)
         count == Len(inOrder)
         all == 1..(NodeCount + count)
         subgraph(v) == inOrder[v - NodeCount]
     IN  /\ nodes' = all
         /\ parents' = [v \in all |-> IF v \in nodes THEN parents[v] ELSE subgraph(v)]
         /\ rank' = [v \in all |-> IF v \in nodes THEN rank[v]
                                   ELSE rank[borders[subgraph(v)][1]] - 1]
         /\ unplaced' = unplaced \union (all \ nodes)
         /\ edges' = edges \o [i \in 1..count |->
                                 [from |-> NodeCount + i, to |-> borders[inOrder[i]][1],
                                  orig |-> EdgeCount + i]]
         /\ minlen' = minlen \o [i \in 1..count |-> 1]
         /\ weight' = weight \o [i \in 1..count |-> 0]
  /\ UNCHANGED <<reversed, config, semantic, titled, phase, treeVars, nestingVars>>

\* Edges that the frames have turned upwards are read backwards from here on.
MarkClimbing ==
  /\ reversed' = reversed \union
       {k \in Positions \ reversed : rank[edges[k].from] > rank[edges[k].to]}
  /\ UNCHANGED <<nodes, edges, compoundVars, simplexVars, nestingVars>>
----------------------------------------------------------------------------
(* assign_rank_minmax and parent_dummy_chains.                             *)

MinRank(c) == rank[borders[c][1]]
MaxRank(c) == rank[borders[c][2]]

Innermost(S) == CHOOSE c \in S : \A d \in S \ {c} : d \in Around(c)

\* Mutant: on the way up a compound that ends on the rank is already left.
ParentBeforeEnd(from, to, r) ==
  LET common == Around(from) \intersect Around(to)
      up == {c \in Around(from) \ common : MaxRank(c) > r}
      down == {c \in Around(to) \ common :
                 \A d \in {c} \union (Around(c) \ common) : MinRank(d) <= r}
      held == IF up # {} THEN up ELSE IF down # {} THEN down ELSE common
  IN  IF held = {} THEN 0 ELSE Innermost(held)

\* find_path leads from the compounds around one end of the edge up to those
\* around both and down to the other end.  A dummy node gets the first on the
\* way up that ends on its rank or below, else the last on the way down that
\* begins on its rank or above, else the innermost around both.
ParentOnRank(from, to, r) ==
  LET common == Around(from) \intersect Around(to)
      up == {c \in Around(from) \ common : MaxRank(c) >= r}
      down == {c \in Around(to) \ common :
                 \A d \in {c} \union (Around(c) \ common) : MinRank(d) <= r}
      held == IF up # {} THEN up ELSE IF down # {} THEN down ELSE common
  IN  IF held = {} THEN 0 ELSE Innermost(held)
============================================================================
