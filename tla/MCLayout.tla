------------------------------ MODULE MCLayout ------------------------------
EXTENDS Layout

\* FluxLayeredConfig, its relaxed form and MermaidLayered.
Flux ==
  [perLabel |-> TRUE, trackChains |-> TRUE, dfsOnly |-> FALSE, longestPath |-> FALSE,
   greedySwitch |-> TRUE, sideGrouping |-> TRUE]
Relaxed == [Flux EXCEPT !.trackChains = FALSE, !.sideGrouping = FALSE]
Mermaid ==
  [perLabel |-> FALSE, trackChains |-> FALSE, dfsOnly |-> TRUE, longestPath |-> FALSE,
   greedySwitch |-> FALSE, sideGrouping |-> FALSE]

Edge(p) == [from |-> p[1], to |-> p[2], minlen |-> 1, weight |-> 1, label |-> FALSE]

Graph(ps, es, profile) ==
  [nodes |-> DOMAIN ps, edges |-> [i \in DOMAIN es |-> Edge(es[i])], parents |-> ps,
   semantic |-> [c \in 1..Len(ps) |-> c], titled |-> {}, config |-> profile]

\* The pairs taken from a list in its order.
Sublists(pairs, n) ==
  {[i \in 1..n |-> pairs[InOrder(S)[i]]] : S \in kSubset(n, DOMAIN pairs)}

\* Three nodes above three others, joined in every way by six edges.
Dense ==
  Sublists(<<<<1, 4>>, <<1, 5>>, <<1, 6>>, <<2, 4>>, <<2, 5>>, <<2, 6>>,
             <<3, 4>>, <<3, 5>>, <<3, 6>>>>, 6)

\* Two nodes above three, and these above two others.
Middle ==
  Sublists(<<<<1, 3>>, <<1, 4>>, <<2, 3>>, <<2, 5>>, <<3, 6>>, <<3, 7>>, <<4, 6>>,
             <<4, 7>>, <<5, 6>>>>, 6)

\* Long edges, cycles and two self edges.
Deep ==
  {<<<<1, 2>>, <<1, 1>>>> \o es \o <<<<3, 3>>>> : es \in
     Sublists(<<<<2, 3>>, <<1, 3>>, <<3, 1>>, <<3, 4>>, <<4, 1>>, <<4, 2>>, <<2, 5>>>>, 3)}

Times(p, n) == [i \in 1..n |-> p]

\* Two frames of two nodes with edges in them and across, so many that their
\* barycenters may change sides, and a node outside, beside them or in a third frame.
Across ==
  {<<<<1, 2>>, <<3, 4>>>> \o Times(<<1, 4>>, a) \o Times(<<3, 2>>, b) \o es :
     a \in {1, 4}, b \in {1, 4}, es \in {<<>>, <<<<5, 1>>>>, <<<<4, 5>>>>, <<<<2, 1>>>>}}

\* The edges in the two frames need no length, as when these have a direction of their own.
Turned(input) == [input EXCEPT !.edges[1].minlen = 0, !.edges[2].minlen = 0]

AllInputs ==
  {Graph(<<0, 0, 0, 0, 0, 0>>, es, Flux) : es \in Dense} \union
  {Graph(<<0, 0, 0, 0, 0, 0, 0>>, es, Flux) : es \in Middle} \union
  {Graph(<<0, 0, 0, 0, 0>>, es, p) : es \in Deep, p \in {Flux, Relaxed}} \union
  {Graph(<<6, 6, 7, 7, 0, 0, 0>>, es, p) : es \in Across, p \in {Flux, Relaxed, Mermaid}} \union
  {Graph(<<6, 6, 7, 7, 8, 8, 8, 0>>, es, p) : es \in Across, p \in {Flux, Mermaid}} \union
  {Graph(<<6, 6, 7, 7, 8, 0, 0, 0>>, es, Mermaid) : es \in {l \in Across : Len(l) \in 7..8}} \union
  {Turned(Graph(<<6, 6, 7, 7, 0, 0, 0>>, es, Flux)) : es \in {l \in Across : Len(l) \in 4..5}}
===========================================================================
