------------------------------ MODULE Ordering ------------------------------
(***************************************************************************)
(* order::run_with_options: sweeps up and down over the ranks sort one     *)
(* rank after the other by the barycenters of its neighbours, the order    *)
(* with the fewest crossings is kept and, for Flux, neighbours are         *)
(* switched as long as that helps.  insert_self_edge_dummies then makes    *)
(* room for the self edges.                                                *)
(*                                                                         *)
(* Nodes are numbered from 1, their places on a rank from 0.  All links    *)
(* weigh the same, which leaves out invisible ones, and barycenters are    *)
(* exact fractions.                                                        *)
(***************************************************************************)
EXTENDS Listing, FiniteSetsExt, SequencesExt

VARIABLES
  graph,        \* the LayoutGraph as the phases before have left it:
                \*   rank, parents  of each node; parents is 0 for None
                \*   sides          border_left and border_right: per compound, per
                \*                  rank the pair of them
                \*   links          effective_edges_weighted_filtered
                \*   pinned         the backward dummies
                \*   greedySwitch   of the options
  loops,        \* self_edges: the nodes of self edges still without a dummy
  step,         \* what comes next
  layers,       \* the position nodes of each rank
  order,        \* the place of each position node on its rank
  turn,         \* how many sweeps have ended
  at,           \* the rank a sweep or a pass is at
  slot,         \* the place on that rank a pass is at
  row,          \* the nodes of that rank in order
  constraints,  \* the constraint graph of this sweep, in order of insertion
  best,         \* best_order and best_cc
  sinceBest,    \* last_best
  improved      \* whether this pass of greedy_switch has switched anything

passVars == <<slot, row, improved>>
sweepVars == <<turn, constraints, best, sinceBest>>
orderingVars == <<graph, loops, step, layers, order, at, passVars, sweepVars>>

OrderingStart ==
  /\ graph = [links |-> <<>>]
  /\ loops = <<>>
  /\ step = "wait"
  /\ layers = <<>>
  /\ order = <<>>
  /\ turn = 0 /\ at = 0 /\ slot = 0
  /\ row = <<>>
  /\ constraints = <<>>
  /\ best = [order |-> <<>>, crossings |-> 0]
  /\ sinceBest = 0
  /\ improved = FALSE

NodesOf(g) == DOMAIN g.rank
CompoundsOf(g) == DOMAIN g.sides
Spans(c, r) == c \in CompoundsOf(graph) /\ r \in DOMAIN graph.sides[c]

\* The compounds around a node from the inside out.
PathUp(v) ==
  LET up[w \in NodesOf(graph)] ==
        IF graph.parents[w] = 0 THEN <<>> ELSE <<graph.parents[w]>> \o up[graph.parents[w]]
  IN  up[v]

LastRank == Max(DOMAIN layers)

(* init_order *)

\* The nodes in the order in which the depth-first search visits them, its
\* roots taken rank by rank.
Visits ==
  LET byRank == FlattenSeq([i \in 1..(LastRank + 1) |-> layers[i - 1]])
      next(v) == LET out == InOrder({i \in DOMAIN graph.links : graph.links[i].from = v})
                 IN  [i \in DOMAIN out |-> graph.links[out[i]].to]
      search[n \in Nat] ==
        IF n = 0 THEN [left |-> byRank, seen |-> <<>>]
        ELSE LET s == search[n - 1]
             IN  IF s.left = <<>> THEN s
                 ELSE IF Head(s.left) \in ToSet(s.seen) THEN [s EXCEPT !.left = Tail(@)]
                 ELSE [left |-> next(Head(s.left)) \o Tail(s.left),
                       seen |-> Append(s.seen, Head(s.left))]
  IN  search[Len(byRank) + Len(graph.links)].seen

\* With fewer than two ranks the order stays that of the nodes.  Otherwise those of
\* a rank stand as visited, the backward dummies at the right end.
InitOrder ==
  /\ step = "init"
  /\ IF LastRank < 1
     THEN /\ order' = [v \in UNION {ToSet(layers[r]) : r \in DOMAIN layers} |-> v - 1]
          /\ step' = "loops"
          /\ UNCHANGED <<layers, at>>
     ELSE /\ LET visits == Visits
                 on(r, pinned) == Picked(visits, {i \in DOMAIN visits :
                                                    /\ graph.rank[visits[i]] = r
                                                    /\ pinned = (visits[i] \in graph.pinned)})
             IN  /\ layers' = [r \in DOMAIN layers |-> on(r, FALSE) \o on(r, TRUE)]
                 /\ order' = [v \in ToSet(visits) |->
                                LET lined == layers'[graph.rank[v]]
                                IN  (CHOOSE i \in DOMAIN lined : lined[i] = v) - 1]
          /\ at' = LastRank - 1
          /\ step' = "sweep"
  /\ UNCHANGED <<graph, loops, passVars, sweepVars>>
----------------------------------------------------------------------------
(* sweep_compound.  An entry is a record of the child it was made for, the  *)
(* nodes it places, its index among the children that may move, and the    *)
(* barycenter as sum / weight, which is None where the weight is 0.         *)

Downward == turn % 2 = 1
BiasRight == turn % 4 >= 2

\* The links of a node to the rank sorted before.
Fixed(v) ==
  LET above == graph.rank[v] + IF Downward THEN -1 ELSE 1
  IN  IF Downward
      THEN {i \in DOMAIN graph.links :
              graph.links[i].to = v /\ graph.rank[graph.links[i].from] = above}
      ELSE {i \in DOMAIN graph.links :
              graph.links[i].from = v /\ graph.rank[graph.links[i].to] = above}

PlaceAcross(i) == order[IF Downward THEN graph.links[i].from ELSE graph.links[i].to]

PlacesAcross(v) == MapThenSumSet(PlaceAcross, Fixed(v))

\* get_children_at_rank.
ChildrenAt(c, r) ==
  {v \in NodesOf(graph) : graph.parents[v] = c /\ (v \in ToSet(layers[r]) \/ Spans(v, r))}

\* Mutant: the other way round.
ConflictWhenSorted(u, v) ==
  u.weight = 0 \/ v.weight = 0 \/ u.sum * v.weight < v.sum * u.weight

\* u has to stand to the left of v, but its barycenter does not.
Conflict(u, v) ==
  u.weight = 0 \/ v.weight = 0 \/ u.sum * v.weight >= v.sum * u.weight

\* Mutant: the nodes of the one swallowed are lost.
MergedLosing(u, v) ==
  [v EXCEPT !.i = Min({u.i, v.i}), !.sum = u.sum + v.sum, !.weight = u.weight + v.weight]

Merged(u, v) ==
  [v EXCEPT !.vs = u.vs \o v.vs, !.i = Min({u.i, v.i}),
            !.sum = u.sum + v.sum, !.weight = u.weight + v.weight]

\* The constraints between children that have an entry: their places among the
\* constraints and the two children.
Arcs(children) ==
  {<<k, constraints[k][1], constraints[k][2]>> :
     k \in {j \in DOMAIN constraints : ToSet(constraints[j]) \subseteq children}}

\* The entry of a child swallows those it is in conflict with, the last taken first.
Swallow(s, c) ==
  FoldRight(LAMBDA u, t :
              IF u \notin t.gone /\ Conflict(t.entry[u], t.entry[c])
              THEN [t EXCEPT !.gone = @ \union {u}, !.entry[c] = Merged(t.entry[u], t.entry[c])]
              ELSE t,
            s.taken[c], s)

\* The last child that is ready is taken, and those to its right are that much
\* nearer to being ready.
Take(arcs, s) ==
  LET c == Last(s.ready)
      next == {a \in arcs : a[2] = c}
      right == {a[3] : a \in next}
      freed == Lined({a \in next : s.waiting[a[3]] = 1}, LAMBDA a, b : a[1] < b[1])
      swallowed == Swallow(s, c)
  IN  [entry |-> swallowed.entry,
       gone |-> swallowed.gone,
       done |-> s.done \union {c},
       ready |-> Front(s.ready) \o [n \in DOMAIN freed |-> freed[n][3]],
       waiting |-> [d \in DOMAIN s.waiting |->
                      IF d \in right THEN s.waiting[d] - 1 ELSE s.waiting[d]],
       taken |-> [d \in DOMAIN s.taken |->
                    IF d \in right THEN Append(s.taken[d], c) ELSE s.taken[d]]]

\* resolve_conflicts: an entry is taken when all that have to stand to its left
\* have been, and swallows those of them it is in conflict with.
Resolved(entries) ==
  LET children == {e.child : e \in entries}
      arcs == Arcs(children)
      waiting == [c \in children |-> Cardinality({a \in arcs : a[3] = c})]
      after[n \in Nat] ==
        IF n = 0
        THEN [entry |-> [c \in children |-> CHOOSE e \in entries : e.child = c],
              gone |-> {}, done |-> {}, waiting |-> waiting, taken |-> [c \in children |-> <<>>],
              ready |-> InOrder({c \in children : waiting[c] = 0})]
        ELSE LET s == after[n - 1]
             IN  IF s.ready = <<>> THEN s ELSE Take(arcs, s)
      final == after[Cardinality(children)]
  IN  IF arcs = {} THEN entries
      ELSE {final.entry[c] : c \in final.done \ final.gone}

\* By barycenter, then by index.
SortsBefore(e, f) ==
  \/ e.sum * f.weight < f.sum * e.weight
  \/ e.sum * f.weight = f.sum * e.weight /\ IF BiasRight THEN e.i > f.i ELSE e.i < f.i

\* One turn of sort_entries: the first of those without a barycenter, once its
\* index is reached, else the first of the sorted.
LayNext(s) ==
  IF s.loose # <<>> /\ Head(s.loose).i <= s.count
  THEN [s EXCEPT !.vs = @ \o Head(s.loose).vs, !.count = @ + 1, !.loose = Tail(@)]
  ELSE IF s.sorted # <<>>
  THEN [s EXCEPT !.vs = @ \o Head(s.sorted).vs, !.count = @ + Len(Head(s.sorted).vs),
                 !.sorted = Tail(@)]
  ELSE s

\* sort_entries: what has no barycenter keeps its index among the others.
Interleaved(entries) ==
  LET sorted == {e \in entries : e.weight > 0}
      laid[n \in Nat] ==
        IF n = 0
        THEN [vs |-> <<>>, count |-> 0, sorted |-> Lined(sorted, SortsBefore),
              loose |-> Lined(entries \ sorted, LAMBDA e, f : e.i < f.i)]
        ELSE LayNext(laid[n - 1])
  IN  laid[Cardinality(entries)].vs

Sums(entries) == MapThenSumSet(LAMBDA e : e.sum, entries)
Weights(entries) == MapThenSumSet(LAMBDA e : e.weight, entries)

Pinned(c, r) == ChildrenAt(c, r) \intersect graph.pinned
FrameAt(c, r) == IF c = 0 THEN {} ELSE ToSet(graph.sides[c][r])

\* The children that may move, each with an entry: for a compound that is what
\* sorting it has given.
EntriesOf(c, r, inside) ==
  LET movable == ChildrenAt(c, r) \ (FrameAt(c, r) \union Pinned(c, r))
      index(v) == Cardinality({w \in movable : w < v})
      entry(v) ==
        LET sub == inside[v]
        IN  IF v \in CompoundsOf(graph)
            THEN [child |-> v, vs |-> sub.vs, i |-> index(v), sum |-> sub.sum,
                  weight |-> sub.weight]
            ELSE [child |-> v, vs |-> <<v>>, i |-> index(v), sum |-> PlacesAcross(v),
                  weight |-> Cardinality(Fixed(v))]
  IN  {entry(v) : v \in movable}

\* sort_subgraph of one compound, when those in it have been sorted.
Sorted(c, r, inside) ==
  LET frame == FrameAt(c, r)
      entries == Resolved(EntriesOf(c, r, inside))
      placed == Interleaved(entries) \o
                Lined(Pinned(c, r), LAMBDA u, v : order[u] < order[v])
      held == c # 0 /\ \A v \in frame : Fixed(v) # {}
  IN  [vs |-> IF c = 0 THEN placed
              ELSE <<graph.sides[c][r][1]>> \o placed \o <<graph.sides[c][r][2]>>,
       sum |-> Sums(entries) + IF held THEN MapThenSumSet(PlacesAcross, frame) ELSE 0,
       weight |-> Weights(entries) + IF held THEN 2 ELSE 0]

\* From the inner compounds to the root, which is 0.
SortedRank(r) ==
  LET inside[c \in CompoundsOf(graph) \union {0}] == Sorted(c, r, inside)
  IN  inside[0].vs

\* add_subgraph_constraints: of the compounds around each node, from the inside
\* out, up to the first that follows another one in the same compound.
AddConstraint(s, v) ==
  LET path == PathUp(v)
      around(k) == graph.parents[path[k]]
      differs == {k \in DOMAIN path : s.last[around(k)] \notin {0, path[k]}}
      met == IF differs = {} THEN DOMAIN path ELSE 1..Min(differs)
      pair == <<s.last[around(Min(differs))], path[Min(differs)]>>
  IN  [last |-> [c \in DOMAIN s.last |->
                   IF \E k \in met : around(k) = c
                   THEN path[CHOOSE k \in met : around(k) = c] ELSE s.last[c]],
       pairs |-> IF differs = {} \/ pair \in ToSet(s.pairs)
                 THEN s.pairs ELSE Append(s.pairs, pair)]

WithConstraints(placed) ==
  LET none == [last |-> [c \in CompoundsOf(graph) \union {0} |-> 0], pairs |-> constraints]
  IN  FoldLeft(AddConstraint, none, placed).pairs

\* One rank of a sweep.
SortRank ==
  /\ step = "sweep"
  /\ LET placed == SortedRank(at)
     IN  /\ order' = [v \in DOMAIN order |->
                        IF v \in ToSet(placed)
                        THEN (CHOOSE k \in DOMAIN placed : placed[k] = v) - 1 ELSE order[v]]
         /\ constraints' = WithConstraints(placed)
  /\ IF at = IF Downward THEN LastRank ELSE 0
     THEN step' = "judge" /\ at' = at
     ELSE step' = step /\ at' = at + IF Downward THEN 1 ELSE -1
  /\ UNCHANGED <<graph, loops, layers, turn, best, sinceBest, passVars>>
----------------------------------------------------------------------------
(* The loop around the sweeps, greedy_switch and the self edges.           *)

Downwards(i) == graph.rank[graph.links[i].from] < graph.rank[graph.links[i].to]

\* The links that AdjacencyIndex knows.
Indexed == {i \in DOMAIN graph.links : Downwards(i)}

Upper(i) == IF Downwards(i) THEN graph.links[i].from ELSE graph.links[i].to
Lower(i) == IF Downwards(i) THEN graph.links[i].to ELSE graph.links[i].from

\* count_all_crossings, of some of the links; those that do not join neighbouring
\* ranks do not count.
CrossingsAmong(I, places) ==
  LET high == [i \in I |-> Upper(i)]
      low == [i \in I |-> Lower(i)]
      joined == {i \in I : graph.rank[low[i]] = graph.rank[high[i]] + 1}
  IN  Cardinality({p \in joined \X joined :
        /\ graph.rank[high[p[1]]] = graph.rank[high[p[2]]]
        /\ places[high[p[1]]] < places[high[p[2]]]
        /\ places[low[p[1]]] > places[low[p[2]]]})

Crossings(places) == CrossingsAmong(DOMAIN graph.links, places)

\* A rank as a pass of greedy_switch finds it: sorted by place, and what shares
\* a place as init_order left it.
RowOf(r, places) ==
  LET all == layers[r]
      before(j, k) == places[all[j]] < places[all[k]] \/ (places[all[j]] = places[all[k]] /\ j < k)
      lined == Lined(DOMAIN all, before)
  IN  [n \in DOMAIN lined |-> all[lined[n]]]

\* The ranks on which there are two nodes to be switched.
Wide == {r \in DOMAIN layers : Len(layers[r]) > 1}

BeginRow(r) == at' = r /\ slot' = 1 /\ row' = RowOf(r, order')

EndPasses == step' = "loops" /\ UNCHANGED <<at, slot, row>>

\* After a sweep: the first order with the fewest crossings is kept, until four
\* sweeps have found nothing better.
Judge ==
  /\ step = "judge"
  /\ LET crossings == Crossings(order)
         better == turn = 0 \/ crossings < best.crossings
         since == IF better THEN 1 ELSE sinceBest + 1
     IN  /\ best' = IF better THEN [order |-> order, crossings |-> crossings] ELSE best
         /\ sinceBest' = since
         /\ IF since < 4
            THEN /\ at' = IF turn % 2 = 0 THEN 1 ELSE LastRank - 1
                 /\ step' = "sweep"
                 /\ UNCHANGED <<order, slot, row>>
            ELSE /\ order' = best'.order
                 /\ IF graph.greedySwitch /\ Wide # {}
                    THEN step' = "switch" /\ BeginRow(Min(Wide))
                    ELSE EndPasses
  /\ turn' = turn + 1
  /\ constraints' = <<>>
  /\ UNCHANGED <<graph, loops, layers, improved>>

\* Mutant: the links to the rank above are left out.
PairCrossingsBelow(a, b) ==
  LET below(v) == {i \in Indexed : graph.links[i].from = v}
  IN  Cardinality({p \in below(a) \X below(b) : order[Lower(p[1])] > order[Lower(p[2])]})

\* count_pair_crossings with a to the left of b, on both sides.
PairCrossings(a, b) ==
  LET below(v) == {i \in Indexed : graph.links[i].from = v}
      above(v) == {i \in Indexed : graph.links[i].to = v}
  IN  Cardinality({p \in below(a) \X below(b) : order[Lower(p[1])] > order[Lower(p[2])]}) +
      Cardinality({p \in above(a) \X above(b) : order[Upper(p[1])] > order[Upper(p[2])]})

\* Mutant: a switch that changes nothing counts.
MaySwitchEven(a, b) ==
  /\ graph.parents[a] = graph.parents[b]
  /\ {a, b} \intersect graph.pinned = {}
  /\ PairCrossings(b, a) <= PairCrossings(a, b)

MaySwitch(a, b) ==
  /\ graph.parents[a] = graph.parents[b]
  /\ {a, b} \intersect graph.pinned = {}
  /\ PairCrossings(b, a) < PairCrossings(a, b)

\* One pair of neighbours.  A pass that has switched something is followed by another.
Switch ==
  /\ step = "switch"
  /\ LET a == row[slot]
         b == row[slot + 1]
         switches == MaySwitch(a, b)
         below == {r \in Wide : r > at}
     IN  /\ order' = IF switches THEN [order EXCEPT ![a] = order[b], ![b] = order[a]] ELSE order
         /\ IF slot + 1 < Len(row)
            THEN /\ slot' = slot + 1
                 /\ row' = IF switches THEN [row EXCEPT ![slot] = b, ![slot + 1] = a] ELSE row
                 /\ improved' = (improved \/ switches)
                 /\ UNCHANGED <<step, at>>
            ELSE IF below # {}
            THEN /\ BeginRow(Min(below))
                 /\ improved' = (improved \/ switches)
                 /\ UNCHANGED step
            ELSE /\ IF improved \/ switches
                    THEN BeginRow(Min(Wide)) /\ UNCHANGED step
                    ELSE EndPasses
                 /\ improved' = FALSE
  /\ UNCHANGED <<graph, loops, layers, sweepVars>>

\* insert_self_edge_dummies for the next self edge.  The nodes after it make room,
\* all but the one added last.
InsertLoop ==
  /\ step = "loops"
  /\ loops # <<>>
  /\ LET v == Head(loops)
         last == Cardinality(NodesOf(graph))
         dummy == last + 1
         moves(w) == w # last /\ graph.rank[w] = graph.rank[v] /\ order[w] > order[v]
         with(f) == [w \in DOMAIN f \union {dummy} |-> IF w = dummy THEN f[v] ELSE f[w]]
     IN  /\ graph' = [graph EXCEPT !.rank = with(@), !.parents = with(@)]
         /\ order' = [w \in DOMAIN order \union {dummy} |->
                        IF w = dummy THEN order[v] + 1
                        ELSE IF moves(w) THEN order[w] + 1 ELSE order[w]]
  /\ loops' = Tail(loops)
  /\ UNCHANGED <<step, layers, at, passVars, sweepVars>>

OrderingNext == InitOrder \/ SortRank \/ Judge \/ Switch \/ InsertLoop
----------------------------------------------------------------------------
\* The dummy nodes that got a compound which does not reach to their rank
\* (chains of edges read backwards, parent_dummy_chains.rs): sort_subgraph never
\* meets them, and they keep the place that init_order gave them.
Strays == {v \in DOMAIN order : \E k \in DOMAIN PathUp(v) : ~Spans(PathUp(v)[k], graph.rank[v])}

\* On no rank do three frames stand in the same compound.  An entry that swallows one of
\* three may come out on the wrong side of another; the constraints of the sweep then form
\* a cycle, and resolve_conflicts drops the frames in it, which keep a stale place.
TwoAbreast ==
  \A c \in CompoundsOf(graph) \union {0}, r \in DOMAIN layers :
    Cardinality({d \in CompoundsOf(graph) : graph.parents[d] = c /\ Spans(d, r)}) <= 2

Sweeping == step \in {"sweep", "judge"}

(***************************************************************************)
(* From init_order to the end of greedy_switch the nodes of a rank stand   *)
(* at the places from 0 on, one at each: sort_subgraph gives every child   *)
(* of every compound back exactly once, through frames in frames, pinned   *)
(* dummies, and entries that swallow each other or have no barycenter.     *)
(* Ranks with strays are left out, and graphs with three frames abreast.   *)
(***************************************************************************)
RanksAreOrdered ==
  (Sweeping \/ step = "switch") /\ TwoAbreast =>
    LET strays == Strays
    IN  \A r \in DOMAIN layers :
          LET on == ToSet(layers[r])
          IN  on \intersect strays = {} => {order[v] : v \in on} = 0..(Cardinality(on) - 1)

Within(c, r) == {v \in ToSet(layers[r]) : c \in ToSet(PathUp(v))}

\* The ranks that either sweep sorts.
Inner == 1..(LastRank - 1)

LeftOf(c, d, r) == order[graph.sides[c][r][2]] < order[graph.sides[d][r][1]]

(***************************************************************************)
(* After a sweep the nodes of a frame stand together on every rank, and of *)
(* two frames side by side the same one is on the left on all ranks they   *)
(* share; switching does not change that.  Otherwise frames drawn around   *)
(* them would cover each other or nodes that are not theirs.  Graphs with  *)
(* three frames abreast are left out, and the first and the last rank, one *)
(* of which each sweep leaves alone.                                       *)
(***************************************************************************)
FramesStandTogether ==
  step \in {"judge", "switch"} /\ Strays = {} /\ TwoAbreast =>
    \A c \in CompoundsOf(graph) :
      /\ \A r \in DOMAIN graph.sides[c] \intersect Inner :
           LET places == {order[v] : v \in Within(c, r)}
           IN  /\ Max(places) - Min(places) = Cardinality(places) - 1
               /\ step = "judge" =>
                    /\ order[graph.sides[c][r][1]] = Min(places)
                    /\ order[graph.sides[c][r][2]] = Max(places)
      /\ step = "judge" =>
           \A d \in CompoundsOf(graph) \ {c} :
             graph.parents[d] = graph.parents[c] =>
               \A r, q \in DOMAIN graph.sides[c] \intersect DOMAIN graph.sides[d] \intersect Inner :
                 LeftOf(c, d, r) = LeftOf(c, d, q)

(***************************************************************************)
(* "Guaranteeing no swap increases total crossings" (order.rs): a switch   *)
(* looks at the links of two neighbours only, and yet the crossings of the *)
(* whole drawing get fewer with each.  Links that are read upwards, as     *)
(* those of tracked reversed chains are, are left out: greedy_switch does  *)
(* not know them.                                                          *)
(***************************************************************************)
SwitchingOnlyHelps ==
  [][step = "switch" /\ order' # order /\ Strays = {} /\ TwoAbreast =>
       CrossingsAmong(Indexed, order') < CrossingsAmong(Indexed, order)]_orderingVars
============================================================================
