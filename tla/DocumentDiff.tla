---------------------------- MODULE DocumentDiff ----------------------------
(***************************************************************************)
(* The snapshot diff's edge correspondence (src/src/mmds/diff/mod.rs) and  *)
(* the union document built from it (union.rs). Ids are positions, so an   *)
(* edge is found again by its endpoints, label and style before its id.    *)
(*                                                                         *)
(* Edges of the before document b and the after document a are named by    *)
(* their places in b.edges and a.edges; a match is a pair of places.       *)
(***************************************************************************)
EXTENDS MmdsDocument

SameEnds(e, f) == e.source = f.source /\ e.target = f.target
SharesOneEnd(e, f) == (e.source = f.source) # (e.target = f.target)

\* The order of a BTreeSet of ids: that of the digits, "e10" before "e2". Ids have at
\* most two digits here.
DigitsBefore(m, n) ==
    LET key(k) == IF k < 10 THEN 11 * k ELSE 11 * (k \div 10) + 1 + (k % 10)
    IN key(m) < key(n)

Look(e) == <<e.label, e.stroke>>
LabelOf(e) == e.label
StrokeOf(e) == e.stroke

Alone(edges, i) == \A j \in DOMAIN edges : SameEnds(edges[i], edges[j]) => j = i

\* mutant: one id and the same nodes
SameIdAndEnds(b, a) ==
    {p \in (DOMAIN b.edges) \X (DOMAIN a.edges) :
        /\ b.edges[p[1]].id = a.edges[p[2]].id
        /\ SameEnds(b.edges[p[1]], a.edges[p[2]])}

\* Two edges with one id and the only ones between their nodes.
SameId(b, a) ==
    {p \in (DOMAIN b.edges) \X (DOMAIN a.edges) :
        /\ b.edges[p[1]].id = a.edges[p[2]].id
        /\ SameEnds(b.edges[p[1]], a.edges[p[2]])
        /\ Alone(b.edges, p[1]) /\ Alone(a.edges, p[2])}

\* The places P leaves unmatched.
OpenBefore(b, P) == DOMAIN b.edges \ {p[1] : p \in P}
OpenAfter(a, P) == DOMAIN a.edges \ {p[2] : p \in P}

\* Pairs that no other pair shares a place with.
UniquePairs(P) == {p \in P : \A q \in P : (q[1] = p[1] \/ q[2] = p[2]) => q = p}

\* P and the open edges that have the same ends and key as exactly one on each side.
PairedBy(P, b, a, Key(_)) ==
    P \cup UniquePairs({p \in OpenBefore(b, P) \X OpenAfter(a, P) :
                          /\ SameEnds(b.edges[p[1]], a.edges[p[2]])
                          /\ Key(b.edges[p[1]]) = Key(a.edges[p[2]])})

\* How many open edges between the nodes of edges[i] come before it.
Turn(edges, open, i) ==
    Cardinality({j \in open : SameEnds(edges[i], edges[j])
                              /\ DigitsBefore(edges[j].id, edges[i].id)})
PairedInOrder(P, b, a) ==
    LET left == OpenBefore(b, P)
        right == OpenAfter(a, P)
    IN P \cup {p \in left \X right :
                  /\ SameEnds(b.edges[p[1]], a.edges[p[2]])
                  /\ Turn(b.edges, left, p[1]) = Turn(a.edges, right, p[2])}

\* Open edges that may be one edge with one end moved.
Reconnectable(P, b, a) ==
    LET known == (DOMAIN b.nodes) \cap (DOMAIN a.nodes) IN
    {p \in OpenBefore(b, P) \X OpenAfter(a, P) :
        LET e == b.edges[p[1]]
            f == a.edges[p[2]]
        IN SharesOneEnd(e, f) /\ {e.source, e.target, f.source, f.target} \subseteq known}

ReconnectedById(P, b, a) ==
    P \cup {p \in UniquePairs(Reconnectable(P, b, a)) : b.edges[p[1]].id = a.edges[p[2]].id}
ReconnectedByLook(P, b, a) ==
    P \cup UniquePairs({p \in Reconnectable(P, b, a) :
                           Look(b.edges[p[1]]) = Look(a.edges[p[2]])})

\* edge_correspondences: each rule on what the ones before it left open.
Matches(b, a) ==
    LET ids == SameId(b, a)
        looks == PairedBy(ids, b, a, Look)
        labels == PairedBy(looks, b, a, LabelOf)
        strokes == PairedBy(labels, b, a, StrokeOf)
        ordered == PairedInOrder(strokes, b, a)
    IN ReconnectedByLook(ReconnectedById(ordered, b, a), b, a)

\* mutant: the ids that are gone
RemovedIds(b, a) ==
    {i \in DOMAIN b.edges : \A j \in DOMAIN a.edges : a.edges[j].id # b.edges[i].id}

Removed(b, a) == OpenBefore(b, Matches(b, a))
Added(b, a) == OpenAfter(a, Matches(b, a))

(***************************************************************************)
(* The union document.                                                     *)
(***************************************************************************)

Gone(before, after) == DOMAIN before \ DOMAIN after

\* The regions removed from s, which it gets back.
RemovedRegions(b, a, s) ==
    {r \in Gone(b.subgraphs, a.subgraphs) :
        /\ b.subgraphs[r].parent = s
        /\ s \in DOMAIN b.subgraphs /\ r \in b.subgraphs[s].regions}

\* The removed items of before keep a parent that is in the union.
Surviving(b, a, parent) ==
    IF parent \in DOMAIN b.subgraphs \cup DOMAIN a.subgraphs THEN parent ELSE None
WithGhosts(b, a, before, after) ==
    [x \in DOMAIN before \cup DOMAIN after |->
        IF x \in DOMAIN after THEN after[x]
        ELSE [before[x] EXCEPT !.parent = Surviving(b, a, @)]]

UnionNodes(b, a) == WithGhosts(b, a, b.nodes, a.nodes)
UnionSubgraphs(b, a) ==
    LET all == WithGhosts(b, a, b.subgraphs, a.subgraphs)
        nodes == UnionNodes(b, a)
    IN [s \in DOMAIN all |->
          [all[s] EXCEPT
             !.children = {n \in DOMAIN nodes : nodes[n].parent = s},
             !.regions = {r \in @ \cup RemovedRegions(b, a, s) :
                             r \in DOMAIN all /\ all[r].parent = s}]]

\* Places in b.edges of the removed edges, in order.
Ghosts(b, a) == InOrder(Removed(b, a))
Ghost(b, a, e) == [e EXCEPT !.stroke = IF @ = "invisible" THEN @ ELSE "dotted",
                            !.from = Surviving(b, a, @), !.to = Surviving(b, a, @)]

\* The union's edges with the document each comes from, before they are numbered.
UnionOrigins(b, a) ==
    LET ghosts == Ghosts(b, a) IN
    [i \in DOMAIN a.edges |-> <<"after", i>>]
        \o [k \in DOMAIN ghosts |-> <<"before", ghosts[k]>>]
Origin(b, a, o) == IF o[1] = "after" THEN a.edges[o[2]] ELSE b.edges[o[2]]
OriginStyled(b, a, o) == Origin(b, a, o).id \in (IF o[1] = "after" THEN a ELSE b).styles.edges

\* Where an edge of the union was in each document: 0 for not at all.
PlaceBefore(b, a, place) ==
    LET found == {p \in Matches(b, a) : p[2] = place}
    IN IF found = {} THEN 0 ELSE (CHOOSE p \in found : TRUE)[1]
EdgeEntry(b, a, o) ==
    IF o[1] = "before" THEN [before |-> o[2], after |-> 0]
    ELSE [before |-> PlaceBefore(b, a, o[2]), after |-> o[2]]

\* mutant: an edge keeps its id
OwnId(e, place) == e.id

\* A number per place: the union's ids are dense whatever those of its sides were.
UnionId(e, place) == place - 1

Drawn(b, a, o) ==
    IF o[1] = "after" THEN Origin(b, a, o) ELSE Ghost(b, a, Origin(b, a, o))

UnionOf(b, a) ==
    LET origins == UnionOrigins(b, a) IN
    [nodes |-> UnionNodes(b, a),
     subgraphs |-> UnionSubgraphs(b, a),
     edges |-> [i \in DOMAIN origins |->
                  [Drawn(b, a, origins[i]) EXCEPT !.id = UnionId(Origin(b, a, origins[i]), i)]],
     look |-> a.look,
     styles |-> [nodes |-> a.styles.nodes
                             \cup (b.styles.nodes \cap Gone(b.nodes, a.nodes)),
                 edges |-> {i - 1 : i \in {j \in DOMAIN origins :
                                              OriginStyled(b, a, origins[j])}}]]
UnionEntries(b, a) ==
    LET origins == UnionOrigins(b, a)
    IN [i \in DOMAIN origins |-> EdgeEntry(b, a, origins[i])]
=============================================================================
