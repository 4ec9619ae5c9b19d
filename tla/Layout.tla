------------------------------- MODULE Layout -------------------------------
(***************************************************************************)
(* The pipeline of layout_with_labels up to the coordinates: the phases of *)
(* Layering hand their graph, with a left and a right border on every rank *)
(* of a compound, to crossing reduction.                                   *)
(***************************************************************************)
EXTENDS Layering, Ordering

layoutVars == <<layeringVars, orderingVars>>

LayoutInit == LayeringInit /\ OrderingStart

\* The phases before; extract_self_edges has set the self edges aside.
Prepare ==
  /\ LayeringNext
  /\ loops' = IF stage = "self_edges"
              THEN LET own == InOrder({k \in Positions : edges[k].from = edges[k].to})
                   IN  [i \in DOMAIN own |-> edges[own[i]].from]
              ELSE loops
  /\ UNCHANGED <<graph, step, layers, order, at, passVars, sweepVars>>

\* border::add_segments: two nodes a rank, one compound after the other.
Spots == UNION {{<<c, r>> : r \in MinRank(c)..MaxRank(c)} : c \in Compounds}

Sides ==
  LET before(p) == {q \in Spots : q[1] < p[1] \/ (q[1] = p[1] /\ q[2] < p[2])}
      left(p) == NodeCount + 2 * Cardinality(before(p)) + 1
  IN  [c \in Compounds |->
         [r \in MinRank(c)..MaxRank(c) |-> <<left(<<c, r>>), left(<<c, r>>) + 1>>]]

SideLinks(sides, c) ==
  FlattenSeq([i \in 1..(MaxRank(c) - MinRank(c)) |->
    LET r == MinRank(c) + i - 1
    IN  <<[from |-> sides[c][r][1], to |-> sides[c][r + 1][1]],
          [from |-> sides[c][r][2], to |-> sides[c][r + 1][2]]>>])

\* effective_edges_weighted_filtered.
EffectiveLinks ==
  LET ends(i) == {segments[i].from, segments[i].to}
      kept == InOrder({i \in DOMAIN segments \ excluded : ends(i) \subseteq PositionNodes})
      read(i) == IF i \in flipped
                 THEN [from |-> segments[i].to, to |-> segments[i].from]
                 ELSE [from |-> segments[i].from, to |-> segments[i].to]
  IN  [n \in DOMAIN kept |-> read(kept[n])]

AddSegments ==
  /\ stage = "order"
  /\ step = "wait"
  /\ LET sides == Sides
         inOrder == InOrder(Compounds)
         ofSides == UNION {ToSet(sides[p[1]][p[2]]) : p \in Spots}
         spot == [v \in ofSides |-> CHOOSE p \in Spots : v \in ToSet(sides[p[1]][p[2]])]
         ranks == [v \in nodes \union ofSides |-> IF v \in nodes THEN rank[v] ELSE spot[v][2]]
         placed == PositionNodes \union ofSides
     IN  /\ graph' = [rank |-> ranks,
                      parents |-> [v \in nodes \union ofSides |->
                                     IF v \in nodes THEN parents[v] ELSE spot[v][1]],
                      sides |-> sides,
                      links |-> EffectiveLinks \o
                                FlattenSeq([i \in DOMAIN inOrder |-> SideLinks(sides, inOrder[i])]),
                      pinned |-> IF config.sideGrouping THEN BackDummies ELSE {},
                      greedySwitch |-> config.greedySwitch]
         /\ layers' = [r \in 0..Max({0} \union {ranks[v] : v \in placed}) |->
                         InOrder({v \in placed : ranks[v] = r})]
  /\ step' = "init"
  /\ UNCHANGED <<layeringVars, loops, order, at, passVars, sweepVars>>

Order == OrderingNext /\ UNCHANGED layeringVars

LayoutNext == Prepare \/ AddSegments \/ Order

Finished == step = "loops" /\ loops = <<>>

LayoutDone == Finished /\ UNCHANGED layoutVars

\* The pipeline is one call that does nothing but take its next step: this is
\* WF_layoutVars(LayoutNext), for LayoutNext is enabled until it is finished
\* and no other action changes anything.
KeepsGoing == []<>Finished \/ []<><<TRUE>>_layoutVars

LayoutSpec == LayoutInit /\ [][LayoutNext \/ LayoutDone]_layoutVars /\ KeepsGoing
----------------------------------------------------------------------------
(***************************************************************************)
(* Every graph is laid out: the pivots, the sweeps that go on as long as   *)
(* one of four finds fewer crossings, and the passes that go on as long as *)
(* one switches something, come to an end.                                 *)
(***************************************************************************)
LayoutEnds == <>Finished
============================================================================
