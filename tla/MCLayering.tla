---------------------------- MODULE MCLayering ----------------------------
EXTENDS Layering, TLC

Profile(perLabel, track, dfs, lp) ==
  [perLabel |-> perLabel, trackChains |-> track, dfsOnly |-> dfs, longestPath |-> lp]

\* FluxLayeredConfig and its relaxed form, MermaidLayered and LongestPath.
Flux == Profile(TRUE, TRUE, FALSE, FALSE)
Relaxed == Profile(TRUE, FALSE, FALSE, FALSE)
Mermaid == Profile(FALSE, FALSE, TRUE, FALSE)
Longest == Profile(FALSE, FALSE, TRUE, TRUE)

Edge(p, len, lab) == [from |-> p[1], to |-> p[2], minlen |-> len, weight |-> 1, label |-> lab]

Flat(es, profile) ==
  [nodes |-> 1..4, edges |-> es, parents |-> <<0, 0, 0, 0>>, semantic |-> <<>>, titled |-> {},
   config |-> profile]

\* Every list of at most three of these edges, at most one of them labelled.
Pairs == {<<1, 1>>, <<1, 2>>, <<2, 1>>, <<2, 3>>, <<3, 1>>, <<1, 3>>, <<3, 4>>}
Short ==
  UNION {{[i \in 1..n |-> Edge(ps[i], 1, i = l)] : ps \in [1..n -> Pairs], l \in 0..n} : n \in 1..3}

\* Graphs dense enough to need pivots, at most two of whose edges are long, invisible
\* (an invisible edge has weight 0) or of no length.
Upward == {<<1, 2>>, <<1, 3>>, <<1, 4>>, <<2, 3>>, <<2, 4>>, <<3, 4>>}
Sorted(ps) == SetToSortSeq(ps, LAMBDA p, q : p[1] < q[1] \/ (p[1] = q[1] /\ p[2] < q[2]))
Kinds == {[minlen |-> 1], [minlen |-> 3], [minlen |-> 0], [weight |-> 0]}
Dense ==
  UNION {LET inOrder == Sorted(Upward \ {p})
         IN  {[i \in 1..5 |-> kind[i] @@ Edge(inOrder[i], 1, FALSE)] :
                kind \in {f \in [1..5 -> Kinds] :
                            Cardinality({i \in 1..5 : f[i] # [minlen |-> 1]}) <= 2}} :
         p \in Upward}

\* Three nodes, numbered as they come up in the edges, in one subgraph, two side by
\* side or one in another.  Subgraphs follow, the last one declared first; one of
\* them has a title.
Around3 ==
  {<<a, b, c, 0>> : a \in {0, 4}, b \in {0, 4}, c \in {0, 4}} \union
  {<<a, b, c, 0, d>> : a \in {0, 4, 5}, b \in {0, 4, 5}, c \in {0, 4, 5}, d \in {0, 4}}

InUse(ps) == \A c \in 4..Len(ps) : \E v \in DOMAIN ps : ps[v] = c

\* At most three edges, the only one or one of two labelled or none.
Pairs3 == {<<1, 2>>, <<2, 1>>, <<2, 3>>, <<3, 2>>, <<1, 3>>, <<3, 1>>}
Short3 ==
  UNION {{[i \in 1..(n + 1) |-> Edge(IF i = 1 THEN <<1, 2>> ELSE ps[i - 1], 1, i = l)] :
            ps \in [1..n -> Pairs3], l \in 0..(2 - n)} : n \in 0..2}

Nested(ps, es, profile) ==
  [nodes |-> DOMAIN ps, edges |-> es, parents |-> ps,
   semantic |-> [c \in 4..Len(ps) |-> Len(ps) - c], titled |-> {4}, config |-> profile]

\* The edges inside a subgraph with a direction of its own need no length.
Turned(input, c) ==
  LET up(v) == IF v = 0 THEN 0 ELSE input.parents[v]
      inside(v) == c \in {up(v), up(up(v))}
  IN  [input EXCEPT !.edges =
         [i \in DOMAIN @ |-> IF inside(@[i].from) /\ inside(@[i].to)
                             THEN [@[i] EXCEPT !.minlen = 0] ELSE @[i]]]

Framed ==
  {Nested(ps, es, profile) :
     ps \in {q \in Around3 : InUse(q)}, es \in Short3, profile \in {Flux, Mermaid}}

Compound == Framed \union {Turned(input, 4) : input \in {i \in Framed : i.config = Flux}}

AllInputs ==
  {Flat(es, profile) : es \in Short, profile \in {Flux, Relaxed, Mermaid, Longest}} \union
  {Flat(es, profile) : es \in Dense, profile \in {Flux, Mermaid}} \union
  Compound

ShortInputs == {Flat(es, Flux) : es \in Short}
===========================================================================
