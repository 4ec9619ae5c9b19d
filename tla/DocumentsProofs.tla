--------------------------- MODULE DocumentsProofs ---------------------------
(***************************************************************************)
(* What every command, every view and every relayout leave of a document,  *)
(* for any documents to begin with and any number of commands: it is well  *)
(* formed, its edge ids are unique, its subgraphs list their own nodes,    *)
(* and it hydrates if the document before did; its events and styles are   *)
(* about the edges they were about; the diff pairs each edge with itself,  *)
(* and the union of two documents accounts for both and is a document.     *)
(*                                                                         *)
(* The argument: a command makes a candidate of the right shape, whatever  *)
(* dangles in it; only one that hydrates is laid out, and the relayout     *)
(* keeps what hydration looks at and writes ids and lists of nodes anew.   *)
(* A view is not checked, so that for it the references are followed.      *)
(* Every step keeps the edges, drops some, alters one or adds one (Form),  *)
(* which is what events, styles and the diff are told from.                *)
(***************************************************************************)
EXTENDS Documents, FiniteSetTheorems, SequenceTheorems, TLAPS

-----------------------------------------------------------------------------
(* Edges in order.                                                         *)

\* Turns that differ and are at most as many as the keys are all taken.
LEMMA TurnsAreTaken ==
    ASSUME NEW S, IsFiniteSet(S), NEW turn \in [S -> 1..Cardinality(S)],
           \A i, j \in S : turn[i] = turn[j] => i = j
    PROVE  /\ ByTurn(turn) \in [1..Cardinality(S) -> S]
           /\ \A p \in 1..Cardinality(S) : turn[ByTurn(turn)[p]] = p
  <1> DEFINE n == Cardinality(S)
  <1>1. n \in Nat
    BY FS_CardinalityType
  <1>2. IsFiniteSet(1..n) /\ Cardinality(1..n) = n
    BY <1>1, FS_Interval
  <1>3. turn \in Injection(S, 1..n)
    BY DEF Injection, IsInjective
  <1>4. turn \in Surjection(S, 1..n)
    BY <1>2, <1>3, FS_Injection
  <1>5. \A p \in 1..n : \E i \in S : turn[i] = p
    BY <1>4 DEF Surjection
  <1>6. DOMAIN turn = S
    OBVIOUS
  <1> QED BY <1>5, <1>6 DEF ByTurn

\* Sets that grow from each key to another grow by turns.
LEMMA TurnsByCount ==
    ASSUME NEW S, IsFiniteSet(S), NEW upTo \in [S -> SUBSET S],
           \A i \in S : i \in upTo[i],
           \A i, j \in S : i # j => \/ upTo[i] \subseteq upTo[j] /\ j \notin upTo[i]
                                    \/ upTo[j] \subseteq upTo[i] /\ i \notin upTo[j]
    PROVE  LET turn == [i \in S |-> Cardinality(upTo[i])]
           IN  /\ turn \in [S -> 1..Cardinality(S)]
               /\ \A i, j \in S : turn[i] = turn[j] => i = j
  <1> DEFINE turn == [i \in S |-> Cardinality(upTo[i])]
  <1>1. \A i \in S : IsFiniteSet(upTo[i]) /\ Cardinality(upTo[i]) <= Cardinality(S)
    BY FS_Subset
  <1>2. \A i \in S : Cardinality(upTo[i]) \in Nat /\ Cardinality(upTo[i]) # 0
    BY <1>1, FS_CardinalityType, FS_EmptySet
  <1>3. Cardinality(S) \in Nat
    BY FS_CardinalityType
  <1>4. turn \in [S -> 1..Cardinality(S)]
    BY <1>1, <1>2, <1>3
  <1>5. ASSUME NEW i \in S, NEW j \in S, upTo[i] \subseteq upTo[j], j \notin upTo[i]
        PROVE  turn[i] # turn[j]
    <2>1. Cardinality(upTo[i]) = Cardinality(upTo[j]) => upTo[i] = upTo[j]
      BY <1>1, <1>5, FS_Subset
    <2> QED BY <1>5, <2>1
  <1>6. \A i, j \in S : turn[i] = turn[j] => i = j
    BY <1>5
  <1> QED BY <1>4, <1>6

\* order takes each of 1..n to another of the places, and leaves none out.
Enumerates(order, n, places) ==
    /\ order \in [1..n -> places]
    /\ \A p, q \in 1..n : order[p] = order[q] => p = q
    /\ \A i \in places : \E p \in 1..n : order[p] = i

\* Turns that are taken put the keys in a row.
LEMMA TurnsEnumerate ==
    ASSUME NEW S, IsFiniteSet(S), NEW turn \in [S -> 1..Cardinality(S)],
           \A i, j \in S : turn[i] = turn[j] => i = j
    PROVE  Enumerates(ByTurn(turn), Cardinality(S), S)
  <1>1. PICK order : order = ByTurn(turn)
    OBVIOUS
  <1>2. /\ order \in [1..Cardinality(S) -> S]
        /\ \A p \in 1..Cardinality(S) : turn[order[p]] = p
    BY <1>1, TurnsAreTaken
  <1>3. \A i \in S : turn[order[turn[i]]] = turn[i] /\ order[turn[i]] \in S
    BY <1>2
  <1>4. \A i \in S : order[turn[i]] = i
    BY <1>3
  <1>5. \A p, q \in 1..Cardinality(S) : order[p] = order[q] => p = q
    BY <1>2
  <1> QED BY <1>1, <1>2, <1>4, <1>5 DEF Enumerates

\* The edges sorted are the same edges.
LEMMA OrderedFacts ==
    ASSUME NEW edges \in Seq(Edge)
    PROVE  \E order \in [DOMAIN edges -> DOMAIN edges] :
              /\ Ordered(edges) = [p \in DOMAIN edges |-> edges[order[p]]]
              /\ Enumerates(order, Len(edges), DOMAIN edges)
  <1> DEFINE S == DOMAIN edges
             upTo(i) == {j \in S : \/ edges[j].id < edges[i].id
                                   \/ edges[j].id = edges[i].id /\ j <= i}
             up == [i \in S |-> upTo(i)]
             turn == [i \in S |-> Cardinality(up[i])]
             order == ByTurn(turn)
  <1>1. Len(edges) \in Nat /\ S = 1..Len(edges)
    OBVIOUS
  <1>2. IsFiniteSet(S) /\ Cardinality(S) = Len(edges)
    BY <1>1, FS_Interval
  <1>3. \A i \in S : i \in Nat /\ edges[i].id \in Nat
    <2> SUFFICES ASSUME NEW i \in S PROVE i \in Nat /\ edges[i].id \in Nat
      OBVIOUS
    <2>1. edges[i] \in Edge
      OBVIOUS
    <2> QED BY <1>1, <2>1 DEF Edge
  <1>4. up \in [S -> SUBSET S] /\ \A i \in S : i \in up[i]
    BY <1>3
  <1>5. ASSUME NEW i \in S, NEW j \in S,
               edges[i].id < edges[j].id \/ (edges[i].id = edges[j].id /\ i < j)
        PROVE  up[i] \subseteq up[j] /\ j \notin up[i]
    BY <1>3, <1>5
  <1>6. \A i, j \in S : i # j => \/ up[i] \subseteq up[j] /\ j \notin up[i]
                                 \/ up[j] \subseteq up[i] /\ i \notin up[j]
    <2> SUFFICES ASSUME NEW i \in S, NEW j \in S, i # j
                 PROVE  \/ up[i] \subseteq up[j] /\ j \notin up[i]
                        \/ up[j] \subseteq up[i] /\ i \notin up[j]
      OBVIOUS
    <2>1. \/ edges[i].id < edges[j].id \/ (edges[i].id = edges[j].id /\ i < j)
          \/ edges[j].id < edges[i].id \/ (edges[j].id = edges[i].id /\ j < i)
      BY <1>3
    <2> HIDE DEF up
    <2> QED BY <2>1, <1>5
  <1>7. /\ turn \in [S -> 1..Cardinality(S)]
        /\ \A i, j \in S : turn[i] = turn[j] => i = j
    <2> HIDE DEF up, S
    <2> QED BY <1>2, <1>4, <1>6, TurnsByCount
  <1>8. Enumerates(order, Cardinality(S), S)
    <2> HIDE DEF turn, S
    <2> QED BY <1>2, <1>7, TurnsEnumerate
  <1>9. turn = [i \in S |-> Cardinality(upTo(i))]
    OBVIOUS
  <1>10. Ordered(edges) = [p \in DOMAIN order |-> edges[order[p]]]
    BY <1>9 DEF Ordered
  <1> HIDE DEF order
  <1>11. order \in [S -> S] /\ DOMAIN order = S /\ Enumerates(order, Len(edges), S)
    BY <1>1, <1>2, <1>8 DEF Enumerates
  <1> QED BY <1>10, <1>11

\* Edges whose ids are their places are in order.
LEMMA DenseStays ==
    ASSUME NEW edges \in Seq(Edge), \A i \in DOMAIN edges : edges[i].id = i - 1
    PROVE  Ordered(edges) = edges
  <1> DEFINE S == DOMAIN edges
             upTo(i) == {j \in S : \/ edges[j].id < edges[i].id
                                   \/ edges[j].id = edges[i].id /\ j <= i}
             own == [i \in S |-> i]
             order == ByTurn(own)
  <1>1. Len(edges) \in Nat /\ S = 1..Len(edges)
    OBVIOUS
  <1>2. \A i \in S : upTo(i) = 1..i
    BY <1>1
  <1>3. ASSUME NEW i \in S PROVE Cardinality(1..i) = i
    <2>1. i \in Int /\ 1 \in Int /\ 1 <= i
      BY <1>1
    <2>2. Cardinality(1..i) = IF 1 > i THEN 0 ELSE i - 1 + 1
      BY <2>1, FS_Interval
    <2> QED BY <2>1, <2>2
  <1>4. own = [i \in S |-> Cardinality(upTo(i))]
    BY <1>2, <1>3
  <1>5. Ordered(edges) = [p \in DOMAIN order |-> edges[order[p]]]
    BY <1>4 DEF Ordered
  <1>6. Cardinality(S) = Len(edges)
    <2>1. Cardinality(1..Len(edges)) = IF 1 > Len(edges) THEN 0 ELSE Len(edges) - 1 + 1
      BY <1>1, FS_Interval
    <2> QED BY <1>1, <2>1
  <1>7. \A p \in S : (CHOOSE i \in S : own[i] = p) = p
    OBVIOUS
  <1>8. DOMAIN order = S /\ \A p \in S : order[p] = p
    BY <1>1, <1>6, <1>7 DEF ByTurn
  <1> HIDE DEF order
  <1>9. Ordered(edges) = [p \in S |-> edges[p]]
    BY <1>5, <1>8
  <1> QED BY <1>9

\* A set of places in their order has each of them once.
LEMMA InOrderEnumerates ==
    ASSUME NEW n \in Nat, NEW places \in SUBSET (1..n)
    PROVE  /\ Cardinality(places) \in Nat
           /\ DOMAIN InOrder(places) = 1..Cardinality(places)
           /\ Enumerates(InOrder(places), Cardinality(places), places)
  <1> DEFINE up == [i \in places |-> {j \in places : j <= i}]
             turn == [i \in places |-> Cardinality(up[i])]
  <1>1. IsFiniteSet(places)
    <2>1. IsFiniteSet(1..n)
      BY FS_Interval
    <2> QED BY <2>1, FS_Subset
  <1>2. \A i \in places : i \in Nat
    OBVIOUS
  <1>3. up \in [places -> SUBSET places] /\ \A i \in places : i \in up[i]
    BY <1>2
  <1>4. \A i, j \in places : i # j => \/ up[i] \subseteq up[j] /\ j \notin up[i]
                                      \/ up[j] \subseteq up[i] /\ i \notin up[j]
    <2> SUFFICES ASSUME NEW i \in places, NEW j \in places, i # j
                 PROVE  \/ up[i] \subseteq up[j] /\ j \notin up[i]
                        \/ up[j] \subseteq up[i] /\ i \notin up[j]
      OBVIOUS
    <2>1. CASE i < j
      <3>1. \A k \in places : k <= i => k <= j
        BY <1>2, <2>1
      <3>2. ~(j <= i)
        BY <1>2, <2>1
      <3> QED BY <3>1, <3>2
    <2>2. CASE j < i
      <3>1. \A k \in places : k <= j => k <= i
        BY <1>2, <2>2
      <3>2. ~(i <= j)
        BY <1>2, <2>2
      <3> QED BY <3>1, <3>2
    <2>3. i < j \/ j < i
      BY <1>2
    <2> QED BY <2>1, <2>2, <2>3
  <1>5. /\ turn \in [places -> 1..Cardinality(places)]
        /\ \A i, j \in places : turn[i] = turn[j] => i = j
    <2> HIDE DEF up
    <2> QED BY <1>1, <1>3, <1>4, TurnsByCount
  <1>6. Enumerates(ByTurn(turn), Cardinality(places), places)
    <2> HIDE DEF turn
    <2> QED BY <1>1, <1>5, TurnsEnumerate
  <1>7. InOrder(places) = ByTurn(turn)
    <2>1. turn = [i \in places |-> Cardinality({j \in places : j <= i})]
      OBVIOUS
    <2> QED BY <2>1 DEF InOrder
  <1>8. Cardinality(places) \in Nat
    BY <1>1, FS_CardinalityType
  <1> HIDE DEF turn
  <1>9. DOMAIN ByTurn(turn) = 1..Cardinality(places)
    BY <1>6 DEF Enumerates
  <1> QED BY <1>6, <1>7, <1>8, <1>9

\* The edges kept are those at the places to keep.
LEMMA KeptOrder ==
    ASSUME NEW edges \in Seq(Edge), NEW places \in SUBSET DOMAIN edges
    PROVE  \E n \in Nat : \E order \in [1..n -> places] :
              /\ Enumerates(order, n, places)
              /\ Kept(edges, places) = [p \in 1..n |-> edges[order[p]]]
  <1>1. Len(edges) \in Nat /\ places \in SUBSET (1..Len(edges))
    OBVIOUS
  <1>2. PICK n, order : n = Cardinality(places) /\ order = InOrder(places)
    OBVIOUS
  <1>3. n \in Nat /\ DOMAIN order = 1..n /\ Enumerates(order, n, places)
    BY <1>1, <1>2, InOrderEnumerates
  <1>4. order \in [1..n -> places]
    BY <1>3 DEF Enumerates
  <1>5. Kept(edges, places) = [p \in 1..n |-> edges[order[p]]]
    BY <1>2, <1>3 DEF Kept
  <1> QED BY <1>3, <1>4, <1>5

\* ... so that they are edges, at different places.
LEMMA KeptFacts ==
    ASSUME NEW edges \in Seq(Edge), NEW places \in SUBSET DOMAIN edges
    PROVE  /\ Kept(edges, places) \in Seq(Edge)
           /\ \A p \in DOMAIN Kept(edges, places) :
                 \E k \in places : Kept(edges, places)[p] = edges[k]
           /\ \A k \in places :
                 \E p \in DOMAIN Kept(edges, places) : Kept(edges, places)[p] = edges[k]
           /\ (\A i, j \in DOMAIN edges : edges[i].id = edges[j].id => i = j) =>
                 \A p, q \in DOMAIN Kept(edges, places) :
                     Kept(edges, places)[p].id = Kept(edges, places)[q].id => p = q
           /\ (\A i, j \in DOMAIN edges : edges[i].uid = edges[j].uid => i = j) =>
                 \A p, q \in DOMAIN Kept(edges, places) :
                     Kept(edges, places)[p].uid = Kept(edges, places)[q].uid => p = q
  <1>1. PICK n \in Nat : \E order \in [1..n -> places] :
          /\ Enumerates(order, n, places)
          /\ Kept(edges, places) = [p \in 1..n |-> edges[order[p]]]
    BY KeptOrder
  <1>2. PICK order \in [1..n -> places] :
          /\ Enumerates(order, n, places)
          /\ Kept(edges, places) = [p \in 1..n |-> edges[order[p]]]
    BY <1>1
  <1>3. /\ \A p \in 1..n : order[p] \in places
        /\ \A p, q \in 1..n : order[p] = order[q] => p = q
        /\ \A i \in places : \E p \in 1..n : order[p] = i
    BY <1>2 DEF Enumerates
  <1>4. \A p \in 1..n : edges[order[p]] \in Edge
    BY <1>3
  <1>5. Kept(edges, places) \in Seq(Edge) /\ DOMAIN Kept(edges, places) = 1..n
    BY <1>2, <1>4
  <1>6. \A p \in 1..n : Kept(edges, places)[p] = edges[order[p]]
    BY <1>2
  <1>7. \A p \in 1..n : order[p] \in DOMAIN edges
    BY <1>3
  <1>8. /\ \A p \in 1..n : \E k \in places : Kept(edges, places)[p] = edges[k]
        /\ \A k \in places : \E p \in 1..n : Kept(edges, places)[p] = edges[k]
    <2>1. \A p \in 1..n : \E k \in places : Kept(edges, places)[p] = edges[k]
      BY <1>3, <1>6
    <2>2. ASSUME NEW k \in places
          PROVE  \E p \in 1..n : Kept(edges, places)[p] = edges[k]
      <3>1. PICK p \in 1..n : order[p] = k
        BY <1>3
      <3> QED BY <3>1, <1>6
    <2> QED BY <2>1, <2>2
  <1>9. ASSUME \A i, j \in DOMAIN edges : edges[i].id = edges[j].id => i = j
        PROVE  \A p, q \in 1..n : Kept(edges, places)[p].id = Kept(edges, places)[q].id => p = q
    BY <1>3, <1>6, <1>7, <1>9
  <1>10. ASSUME \A i, j \in DOMAIN edges : edges[i].uid = edges[j].uid => i = j
         PROVE  \A p, q \in 1..n : Kept(edges, places)[p].uid = Kept(edges, places)[q].uid => p = q
    BY <1>3, <1>6, <1>7, <1>10
  <1> QED BY <1>5, <1>8, <1>9, <1>10
-----------------------------------------------------------------------------
(* A relayout.                                                             *)

RegionsListed(d) ==
    \A s \in DOMAIN d.subgraphs : d.subgraphs[s].regions \subseteq DOMAIN d.subgraphs
ChildrenListed(d) ==
    \A s \in DOMAIN d.subgraphs :
        d.subgraphs[s].children = {n \in DOMAIN d.nodes : d.nodes[n].parent = s}

\* What a command may make of a document, and what a relayout leaves.
Candidate(d) == HasShape(d) /\ RegionsListed(d)
Settled(d) == IsDocument(d) /\ ChildrenListed(d) /\ RegionsListed(d)

\* A document with other parts is a document with those parts.
LEMMA ShapeFrom ==
    ASSUME NEW nodes, NEW subgraphs, NEW edges, NEW look, NEW styles,
           IsPartial(nodes, Nodes, NodeEntry),
           IsPartial(subgraphs, Subgraphs, SubgraphEntry),
           edges \in Seq(Edge), look \in Looks,
           styles \in [nodes : SUBSET Nodes, edges : SUBSET Nat]
    PROVE  HasShape([nodes |-> nodes, subgraphs |-> subgraphs, edges |-> edges,
                     look |-> look, styles |-> styles])
  BY DEF HasShape

\* The parts of a document that has been laid out again.
LEMMA RelaidParts ==
    ASSUME NEW d, HasShape(d)
    PROVE  /\ Relaid(d).nodes = d.nodes
           /\ Relaid(d).look = d.look
           /\ DOMAIN Relaid(d).subgraphs = DOMAIN d.subgraphs
           /\ \A s \in DOMAIN d.subgraphs :
                Relaid(d).subgraphs[s] = [d.subgraphs[s] EXCEPT !.children = DirectChildren(d, s)]
           /\ Relaid(d).edges = Renumbered(Ordered(d.edges))
           /\ Relaid(d) = [nodes |-> d.nodes, subgraphs |-> Relaid(d).subgraphs,
                           edges |-> Relaid(d).edges, look |-> d.look,
                           styles |-> Relaid(d).styles]
           /\ Relaid(d).styles = [nodes |-> d.styles.nodes \cap DOMAIN d.nodes,
                                  edges |-> StyledPlaces(d, Ordered(d.edges))]
  <1> DEFINE sorted == Renumbered(Ordered(d.edges))
             subgraphs == [s \in DOMAIN d.subgraphs |->
                             [d.subgraphs[s] EXCEPT !.children = DirectChildren(d, s)]]
             styles == [nodes |-> d.styles.nodes \cap DOMAIN d.nodes,
                        edges |-> StyledPlaces(d, Ordered(d.edges))]
  <1>1. Relaid(d) = [d EXCEPT !.edges = sorted, !.subgraphs = subgraphs, !.styles = styles]
    BY DEF Relaid
  <1>2. d = [nodes |-> d.nodes, subgraphs |-> d.subgraphs, edges |-> d.edges,
             look |-> d.look, styles |-> d.styles]
    BY DEF HasShape
  <1>3. Relaid(d) = [nodes |-> d.nodes, subgraphs |-> subgraphs, edges |-> sorted,
                     look |-> d.look, styles |-> styles]
    <2> HIDE DEF sorted, subgraphs, styles
    <2> QED BY <1>1, <1>2
  <1>4. /\ Relaid(d).subgraphs = subgraphs /\ Relaid(d).edges = sorted
        /\ Relaid(d).styles = styles /\ Relaid(d).nodes = d.nodes /\ Relaid(d).look = d.look
    <2> HIDE DEF sorted, subgraphs, styles
    <2> QED BY <1>3
  <1>5. DOMAIN subgraphs = DOMAIN d.subgraphs
    OBVIOUS
  <1> QED BY <1>3, <1>4, <1>5

\* Its edges are those of the document, each under the number of its place.
LEMMA RelaidEdges ==
    ASSUME NEW d, HasShape(d)
    PROVE  /\ Relaid(d).edges \in Seq(Edge)
           /\ \A i \in DOMAIN Relaid(d).edges :
                /\ Relaid(d).edges[i].id = i - 1
                /\ \E k \in DOMAIN d.edges :
                     Relaid(d).edges[i] = [d.edges[k] EXCEPT !.id = i - 1]
  <1>1. d.edges \in Seq(Edge)
    BY DEF HasShape
  <1>2. PICK order \in [DOMAIN d.edges -> DOMAIN d.edges] :
          Ordered(d.edges) = [p \in DOMAIN d.edges |-> d.edges[order[p]]]
    BY <1>1, OrderedFacts
  <1>3. Len(d.edges) \in Nat /\ DOMAIN d.edges = 1..Len(d.edges)
    BY <1>1
  <1>4. Relaid(d).edges = [i \in DOMAIN d.edges |-> [d.edges[order[i]] EXCEPT !.id = i - 1]]
    <2>1. Relaid(d).edges = Renumbered(Ordered(d.edges))
      BY RelaidParts
    <2> QED BY <1>2, <2>1 DEF Renumbered
  <1>5. ASSUME NEW i \in DOMAIN d.edges
        PROVE  /\ [d.edges[order[i]] EXCEPT !.id = i - 1] \in Edge
               /\ [d.edges[order[i]] EXCEPT !.id = i - 1].id = i - 1
    <2>1. d.edges[order[i]] \in Edge
      BY <1>1, <1>2
    <2>2. i - 1 \in Nat
      BY <1>3
    <2> QED BY <2>1, <2>2 DEF Edge
  <1>6. Relaid(d).edges \in Seq(Edge)
    BY <1>3, <1>4, <1>5
  <1>7. \A i \in DOMAIN d.edges : order[i] \in DOMAIN d.edges
    OBVIOUS
  <1> QED BY <1>4, <1>5, <1>6, <1>7

\* The walks from a subgraph are those of the subgraphs' parents.
LEMMA SubgraphInUpwards ==
    ASSUME NEW d, NEW s \in Subgraphs
    PROVE  s \in Upwards(d, s)
  BY DEF Upwards

\* A subgraph written again lists the nodes whose parent it is, and keeps its other parts.
LEMMA RelaidSubgraphs ==
    ASSUME NEW d, HasShape(d), NEW s \in DOMAIN d.subgraphs
    PROVE  /\ Relaid(d).subgraphs[s] \in SubgraphEntry
           /\ Relaid(d).subgraphs[s].parent = d.subgraphs[s].parent
           /\ Relaid(d).subgraphs[s].regions = d.subgraphs[s].regions
           /\ Relaid(d).subgraphs[s].children = {n \in DOMAIN d.nodes : d.nodes[n].parent = s}
  <1>1. /\ d.subgraphs[s] \in SubgraphEntry /\ s \in Subgraphs
        /\ DOMAIN d.nodes \subseteq Nodes
    BY DEF HasShape, IsPartial
  <1>2. s # None
    BY <1>1, IdsAreApart
  <1>3. DirectChildren(d, s) = {n \in DOMAIN d.nodes : d.nodes[n].parent = s}
    BY <1>1, <1>2, SubgraphInUpwards DEF DirectChildren, Members
  <1>4. Relaid(d).subgraphs[s] = [d.subgraphs[s] EXCEPT !.children = DirectChildren(d, s)]
    BY RelaidParts
  <1> QED BY <1>1, <1>3, <1>4 DEF SubgraphEntry

\* A document laid out again is well formed, with unique ids and lists that are right.
LEMMA RelaidSettles ==
    ASSUME NEW d, Candidate(d)
    PROVE  Settled(Relaid(d))
  <1>0. HasShape(d) /\ RegionsListed(d)
    BY DEF Candidate
  <1> DEFINE r == Relaid(d)
  <1>1. IsPartial(r.nodes, Nodes, NodeEntry) /\ r.nodes = d.nodes
    BY <1>0, RelaidParts DEF HasShape
  <1>2. DOMAIN r.subgraphs = DOMAIN d.subgraphs /\ DOMAIN d.subgraphs \subseteq Subgraphs
    BY <1>0, RelaidParts DEF HasShape, IsPartial
  <1>3. IsPartial(r.subgraphs, Subgraphs, SubgraphEntry)
    <2>1. r.subgraphs = [s \in DOMAIN d.subgraphs |->
                           [d.subgraphs[s] EXCEPT !.children = DirectChildren(d, s)]]
      BY <1>0 DEF HasShape, Relaid
    <2>2. \A s \in DOMAIN d.subgraphs : r.subgraphs[s] \in SubgraphEntry
      BY <1>0, RelaidSubgraphs
    <2> HIDE DEF r
    <2> QED BY <1>2, <2>1, <2>2 DEF IsPartial
  <1>4. r.edges \in Seq(Edge) /\ \A i \in DOMAIN r.edges : r.edges[i].id = i - 1
    BY <1>0, RelaidEdges
  <1>5. r.look \in Looks
    BY <1>0, RelaidParts DEF HasShape
  <1>6. r.styles \in [nodes : SUBSET Nodes, edges : SUBSET Nat]
    <2>1. d.styles.nodes \cap DOMAIN d.nodes \subseteq Nodes
      BY <1>0 DEF HasShape, IsPartial
    <2>2. PICK order \in [DOMAIN d.edges -> DOMAIN d.edges] :
            Ordered(d.edges) = [p \in DOMAIN d.edges |-> d.edges[order[p]]]
      BY <1>0, OrderedFacts DEF HasShape
    <2>3. DOMAIN d.edges = 1..Len(d.edges) /\ Len(d.edges) \in Nat
      BY <1>0 DEF HasShape
    <2>4. StyledPlaces(d, Ordered(d.edges)) \subseteq Nat
      BY <2>2, <2>3 DEF StyledPlaces
    <2>5. r.styles = [nodes |-> d.styles.nodes \cap DOMAIN d.nodes,
                      edges |-> StyledPlaces(d, Ordered(d.edges))]
      BY <1>0, RelaidParts
    <2> QED BY <2>1, <2>4, <2>5
  <1>7. HasShape(r)
    <2>1. r = [nodes |-> r.nodes, subgraphs |-> r.subgraphs, edges |-> r.edges,
               look |-> r.look, styles |-> r.styles]
      BY <1>0, RelaidParts
    <2> HIDE DEF r
    <2> QED BY <1>1, <1>3, <1>4, <1>5, <1>6, <2>1, ShapeFrom
  <1>8. \A i, j \in DOMAIN r.edges : r.edges[i].id = r.edges[j].id => i = j
    <2>1. DOMAIN r.edges = 1..Len(r.edges) /\ Len(r.edges) \in Nat
      BY <1>4
    <2> HIDE DEF r
    <2> QED BY <1>4, <2>1
  <1>9. ChildrenListed(r) /\ RegionsListed(r)
    BY <1>0, <1>1, <1>2, RelaidSubgraphs DEF ChildrenListed, RegionsListed
  <1> QED BY <1>7, <1>8, <1>9 DEF Settled, IsDocument

\* What hydrates before a relayout does after it.
LEMMA RelaidHydrates ==
    ASSUME NEW d, HasShape(d), Hydrates(d)
    PROVE  Hydrates(Relaid(d))
  <1> DEFINE r == Relaid(d)
  <1>1. r.nodes = d.nodes /\ DOMAIN r.subgraphs = DOMAIN d.subgraphs
    BY RelaidParts
  <1>2. \A s \in DOMAIN d.subgraphs :
          /\ r.subgraphs[s].parent = d.subgraphs[s].parent
          /\ r.subgraphs[s].children \subseteq DOMAIN d.nodes
    BY RelaidSubgraphs
  <1>3. Rooted(r)
    <2>1. Rooted(d)
      BY DEF Hydrates
    <2> HIDE DEF r
    <2> QED BY <1>1, <1>2, <2>1 DEF Rooted
  <1>4. ASSUME NEW i \in DOMAIN r.edges
        PROVE  /\ {r.edges[i].source, r.edges[i].target} \subseteq DOMAIN r.nodes
               /\ {r.edges[i].from, r.edges[i].to} \subseteq Optional(DOMAIN r.subgraphs)
    <2>1. PICK k \in DOMAIN d.edges : r.edges[i] = [d.edges[k] EXCEPT !.id = i - 1]
      BY RelaidEdges
    <2>2. d.edges[k] \in Edge
      BY DEF HasShape
    <2>3. /\ r.edges[i].source = d.edges[k].source /\ r.edges[i].target = d.edges[k].target
          /\ r.edges[i].from = d.edges[k].from /\ r.edges[i].to = d.edges[k].to
      BY <2>1, <2>2 DEF Edge
    <2> QED BY <1>1, <2>3 DEF Hydrates
  <1> HIDE DEF r
  <1>5. \A n \in DOMAIN d.nodes : d.nodes[n].parent \in Optional(DOMAIN d.subgraphs)
    BY DEF Hydrates
  <1>6. \A s \in DOMAIN d.subgraphs : d.subgraphs[s].parent \in Optional(DOMAIN d.subgraphs)
    BY DEF Hydrates
  <1>7. Hydrates(r)
    BY <1>1, <1>2, <1>3, <1>4, <1>5, <1>6 DEF Hydrates
  <1> QED BY <1>7 DEF r

-----------------------------------------------------------------------------
(* Commands: what they make of a document is a candidate.                  *)

\* A candidate with other parts of the right shape is one.
LEMMA CandidateWith ==
    ASSUME NEW d, Candidate(d), NEW nodes, NEW subgraphs, NEW edges, NEW look,
           IsPartial(nodes, Nodes, NodeEntry),
           IsPartial(subgraphs, Subgraphs, SubgraphEntry),
           \A s \in DOMAIN subgraphs : subgraphs[s].regions \subseteq DOMAIN subgraphs,
           edges \in Seq(Edge), look \in Looks
    PROVE  Candidate([nodes |-> nodes, subgraphs |-> subgraphs, edges |-> edges,
                      look |-> look, styles |-> d.styles])
  <1>1. d.styles \in [nodes : SUBSET Nodes, edges : SUBSET Nat]
    BY DEF Candidate, HasShape
  <1> QED BY <1>1, ShapeFrom DEF Candidate, RegionsListed

\* The parts of a candidate.
LEMMA CandidateParts ==
    ASSUME NEW d, Candidate(d)
    PROVE  /\ HasShape(d)
           /\ IsPartial(d.nodes, Nodes, NodeEntry)
           /\ IsPartial(d.subgraphs, Subgraphs, SubgraphEntry)
           /\ \A s \in DOMAIN d.subgraphs : d.subgraphs[s].regions \subseteq DOMAIN d.subgraphs
           /\ d.edges \in Seq(Edge) /\ d.look \in Looks
  BY DEF Candidate, HasShape, RegionsListed

\* ... so it may get other nodes ...
LEMMA NodesReplaced ==
    ASSUME NEW d, Candidate(d), NEW nodes, IsPartial(nodes, Nodes, NodeEntry)
    PROVE  /\ Candidate([d EXCEPT !.nodes = nodes])
           /\ [d EXCEPT !.nodes = nodes].edges = d.edges
           /\ [d EXCEPT !.nodes = nodes].styles = d.styles
  <1>1. d = [nodes |-> d.nodes, subgraphs |-> d.subgraphs, edges |-> d.edges,
             look |-> d.look, styles |-> d.styles]
    BY DEF Candidate, HasShape
  <1>2. [d EXCEPT !.nodes = nodes] =
          [nodes |-> nodes, subgraphs |-> d.subgraphs, edges |-> d.edges,
           look |-> d.look, styles |-> d.styles]
    BY <1>1
  <1>3. Candidate([nodes |-> nodes, subgraphs |-> d.subgraphs, edges |-> d.edges,
                   look |-> d.look, styles |-> d.styles])
    BY CandidateParts, CandidateWith
  <1> QED BY <1>2, <1>3

\* ... other subgraphs ...
LEMMA SubgraphsReplaced ==
    ASSUME NEW d, Candidate(d), NEW subgraphs,
           IsPartial(subgraphs, Subgraphs, SubgraphEntry),
           \A s \in DOMAIN subgraphs : subgraphs[s].regions \subseteq DOMAIN subgraphs
    PROVE  /\ Candidate([d EXCEPT !.subgraphs = subgraphs])
           /\ [d EXCEPT !.subgraphs = subgraphs].edges = d.edges
           /\ [d EXCEPT !.subgraphs = subgraphs].styles = d.styles
           /\ [d EXCEPT !.subgraphs = subgraphs].nodes = d.nodes
  <1>1. d = [nodes |-> d.nodes, subgraphs |-> d.subgraphs, edges |-> d.edges,
             look |-> d.look, styles |-> d.styles]
    BY DEF Candidate, HasShape
  <1>2. [d EXCEPT !.subgraphs = subgraphs] =
          [nodes |-> d.nodes, subgraphs |-> subgraphs, edges |-> d.edges,
           look |-> d.look, styles |-> d.styles]
    BY <1>1
  <1>3. Candidate([nodes |-> d.nodes, subgraphs |-> subgraphs, edges |-> d.edges,
                   look |-> d.look, styles |-> d.styles])
    BY CandidateParts, CandidateWith
  <1> QED BY <1>2, <1>3

\* ... other edges ...
LEMMA EdgesReplaced ==
    ASSUME NEW d, Candidate(d), NEW edges \in Seq(Edge)
    PROVE  /\ Candidate([d EXCEPT !.edges = edges])
           /\ [d EXCEPT !.edges = edges].edges = edges
           /\ [d EXCEPT !.edges = edges].styles = d.styles
           /\ [d EXCEPT !.edges = edges].nodes = d.nodes
  <1>1. d = [nodes |-> d.nodes, subgraphs |-> d.subgraphs, edges |-> d.edges,
             look |-> d.look, styles |-> d.styles]
    BY DEF Candidate, HasShape
  <1>2. [d EXCEPT !.edges = edges] =
          [nodes |-> d.nodes, subgraphs |-> d.subgraphs, edges |-> edges,
           look |-> d.look, styles |-> d.styles]
    BY <1>1
  <1>3. Candidate([nodes |-> d.nodes, subgraphs |-> d.subgraphs, edges |-> edges,
                   look |-> d.look, styles |-> d.styles])
    BY CandidateParts, CandidateWith
  <1> QED BY <1>2, <1>3

\* ... and another look.
LEMMA LookReplaced ==
    ASSUME NEW d, Candidate(d), NEW look \in Looks
    PROVE  /\ Candidate([d EXCEPT !.look = look])
           /\ [d EXCEPT !.look = look].edges = d.edges
           /\ [d EXCEPT !.look = look].styles = d.styles
           /\ [d EXCEPT !.look = look].nodes = d.nodes
  <1>1. d = [nodes |-> d.nodes, subgraphs |-> d.subgraphs, edges |-> d.edges,
             look |-> d.look, styles |-> d.styles]
    BY DEF Candidate, HasShape
  <1>2. [d EXCEPT !.look = look] =
          [nodes |-> d.nodes, subgraphs |-> d.subgraphs, edges |-> d.edges,
           look |-> look, styles |-> d.styles]
    BY <1>1
  <1>3. Candidate([nodes |-> d.nodes, subgraphs |-> d.subgraphs, edges |-> d.edges,
                   look |-> look, styles |-> d.styles])
    BY CandidateParts, CandidateWith
  <1> QED BY <1>2, <1>3

\* Another entry in the place of one.
LEMMA EntryChanged ==
    ASSUME NEW f, NEW S, NEW T, IsPartial(f, S, T), NEW x \in S, NEW value \in T
    PROVE  /\ IsPartial([f EXCEPT ![x] = value], S, T)
           /\ IsPartial(With(f, x, value), S, T)
  BY DEF IsPartial, With

\* Items given another parent, or none, are items as before.
LEMMA MovedNodes ==
    ASSUME NEW nodes, IsPartial(nodes, Nodes, NodeEntry), NEW s \in Subgraphs, NEW added, NEW removed
    PROVE  IsPartial(Moved(nodes, s, added, removed), Nodes, NodeEntry)
  <1>1. \A n \in DOMAIN nodes : nodes[n] \in NodeEntry
    BY DEF IsPartial
  <1>2. ASSUME NEW n \in DOMAIN nodes, NEW parent \in Optional(Subgraphs)
        PROVE  [nodes[n] EXCEPT !.parent = parent] \in NodeEntry
    BY <1>1 DEF NodeEntry
  <1>3. s \in Optional(Subgraphs) /\ None \in Optional(Subgraphs)
    BY DEF Optional
  <1> QED BY <1>1, <1>2, <1>3 DEF IsPartial, Moved

\* Subgraphs given another parent are subgraphs.
LEMMA MovedSubgraphs ==
    ASSUME NEW subgraphs, IsPartial(subgraphs, Subgraphs, SubgraphEntry),
           NEW s \in Subgraphs, NEW added, NEW removed
    PROVE  /\ IsPartial(Moved(subgraphs, s, added, removed), Subgraphs, SubgraphEntry)
           /\ DOMAIN Moved(subgraphs, s, added, removed) = DOMAIN subgraphs
           /\ \A t \in DOMAIN subgraphs :
                Moved(subgraphs, s, added, removed)[t].regions = subgraphs[t].regions
  <1>1. \A t \in DOMAIN subgraphs : subgraphs[t] \in SubgraphEntry
    BY DEF IsPartial
  <1>2. ASSUME NEW t \in DOMAIN subgraphs, NEW parent \in Optional(Subgraphs)
        PROVE  /\ [subgraphs[t] EXCEPT !.parent = parent] \in SubgraphEntry
               /\ [subgraphs[t] EXCEPT !.parent = parent].regions = subgraphs[t].regions
    BY <1>1 DEF SubgraphEntry
  <1>3. s \in Optional(Subgraphs) /\ None \in Optional(Subgraphs)
    BY DEF Optional
  <1> QED BY <1>1, <1>2, <1>3 DEF IsPartial, Moved

-----------------------------------------------------------------------------
(* Each command leaves a settled document, which hydrates if the one       *)
(* before did.                                                             *)

AddedKind == "edgeAdded"
RemovedKind == "edgeRemoved"
ChangedKinds == {"edgeReconnected", "edgeIntentChanged", "edgeLabelChanged", "edgeStyleChanged"}
EdgeKinds == ChangedKinds \cup {AddedKind, RemovedKind}

\* f is e with other intents and a change to its ends, to its label or to its stroke.
Altered(e, f) ==
    /\ f.id = e.id /\ f.uid = e.uid
    /\ {f.source, f.target} \subseteq {e.source, e.target} \cup DOMAIN doc.nodes
    /\ \/ Look(f) = Look(e)
       \/ SameEnds(e, f) /\ (f.label = e.label \/ f.stroke = e.stroke)

\* What a step may make of the edges before they are numbered, and what it reports:
\* nothing, some go, one is altered or one is added.
EdgesStay(edges, reported) == edges = doc.edges /\ reported.kind \notin EdgeKinds
EdgesGo(edges, reported) ==
    \E places \in SUBSET DOMAIN doc.edges :
        /\ edges = Kept(doc.edges, places)
        /\ reported.kind \notin ChangedKinds \cup {AddedKind}
        /\ reported.kind = RemovedKind =>
              \E i \in DOMAIN doc.edges :
                  places = DOMAIN doc.edges \ {i} /\ reported.edge = doc.edges[i].id
EdgeAlters(edges, reported) ==
    \E i \in DOMAIN doc.edges, e \in Edge :
        /\ edges = [doc.edges EXCEPT ![i] = e]
        /\ Altered(doc.edges[i], e)
        /\ reported.kind \in ChangedKinds /\ reported.edge = doc.edges[i].id
EdgeJoins(edges, reported) ==
    \E e \in Edge :
        /\ edges = Append(doc.edges, e)
        /\ e.id = NewEdgeId(doc) /\ e.uid = 100 + steps
        /\ reported.kind = AddedKind /\ reported.edge = e.id

\* What a command makes of the document's edges and their styles before it is laid out.
Form(c, reported) ==
    /\ c.styles = doc.styles
    /\ \/ EdgesStay(c.edges, reported)
       \/ EdgesGo(c.edges, reported)
       \/ EdgeAlters(c.edges, reported) /\ c.nodes = doc.nodes
       \/ EdgeJoins(c.edges, reported)

\* A step lays a candidate out, or it changes no edge and leaves some out at most.
LaysOut ==
    \E c : HasShape(c) /\ Hydrates(c) /\ Form(c, event') /\ doc' = Relaid(c)
EndsKnown(d) ==
    \A i \in DOMAIN d.edges : {d.edges[i].source, d.edges[i].target} \subseteq DOMAIN d.nodes
LeavesOut ==
    /\ event'.kind # "extensionChanged" => doc'.styles.edges = doc.styles.edges
    /\ EndsKnown(doc) => EndsKnown(doc')
    /\ EdgesStay(doc'.edges, event') \/ EdgesGo(doc'.edges, event')
    /\ event'.kind # RemovedKind

Sound ==
    /\ Settled(doc')
    /\ Hydrates(doc) => Hydrates(doc')
    /\ LaysOut \/ LeavesOut

\* A candidate that is accepted.
LEMMA AcceptSound ==
    ASSUME NEW c, Candidate(c), NEW reported, Form(c, reported), Accept(c, reported)
    PROVE  Sound
  <1>1. HasShape(c) /\ Hydrates(c) /\ doc' = Relaid(c) /\ event' = reported
    BY DEF Accept, Candidate
  <1>2. LaysOut
    BY <1>1 DEF LaysOut
  <1>3. Settled(doc') /\ Hydrates(doc')
    BY <1>1, RelaidSettles, RelaidHydrates
  <1> QED BY <1>2, <1>3 DEF Sound

\* A command that leaves the edges alone.
LEMMA StayingForm ==
    ASSUME NEW c, c.edges = doc.edges, c.styles = doc.styles,
           NEW kind, kind \notin EdgeKinds
    PROVE  Form(c, Reports(kind))
  BY DEF Form, EdgesStay, Reports

\* The parts of the document a command works on.
LEMMA DocParts ==
    ASSUME Settled(doc)
    PROVE  /\ Candidate(doc) /\ HasShape(doc)
           /\ IsPartial(doc.nodes, Nodes, NodeEntry)
           /\ IsPartial(doc.subgraphs, Subgraphs, SubgraphEntry)
           /\ RegionsListed(doc) /\ doc.edges \in Seq(Edge)
           /\ DOMAIN doc.nodes \subseteq Nodes /\ DOMAIN doc.subgraphs \subseteq Subgraphs
           /\ OptionalParent \subseteq Optional(Subgraphs)
           /\ \A n \in DOMAIN doc.nodes : doc.nodes[n] \in NodeEntry
           /\ \A s \in DOMAIN doc.subgraphs : doc.subgraphs[s] \in SubgraphEntry
  BY DEF Settled, IsDocument, HasShape, IsPartial, Candidate, OptionalParent, Optional

\* SetDocument.
LEMMA SetDocumentSound ==
    ASSUME Settled(doc), NEW look \in Looks, SetDocument(look)
    PROVE  Sound
  <1> DEFINE c == [doc EXCEPT !.look = look]
  <1>1. Candidate(c) /\ c.edges = doc.edges /\ c.styles = doc.styles
    BY DocParts, LookReplaced
  <1>2. Accept(c, Reports("documentChanged"))
    BY DEF SetDocument
  <1> HIDE DEF c
  <1>3. Form(c, Reports("documentChanged"))
    BY <1>1, StayingForm DEF EdgeKinds, AddedKind, RemovedKind, ChangedKinds
  <1> QED BY <1>1, <1>2, <1>3, AcceptSound

\* AddNode.
LEMMA AddNodeSound ==
    ASSUME Settled(doc), NEW n \in Nodes, NEW parent \in OptionalParent, AddNode(n, parent)
    PROVE  Sound
  <1> DEFINE nodes == With(doc.nodes, n, [parent |-> parent, look |-> "plain"])
  <1>1. [parent |-> parent, look |-> "plain"] \in NodeEntry
    BY DocParts DEF NodeEntry, Looks
  <1>2. IsPartial(nodes, Nodes, NodeEntry)
    BY <1>1, DocParts, EntryChanged
  <1> DEFINE c == [doc EXCEPT !.nodes = nodes]
  <1>3. Accept(c, Reports("nodeAdded"))
    BY DEF AddNode
  <1> HIDE DEF nodes
  <1>4. Candidate(c) /\ c.edges = doc.edges /\ c.styles = doc.styles
    BY <1>2, DocParts, NodesReplaced
  <1> HIDE DEF c
  <1>5. Form(c, Reports("nodeAdded"))
    BY <1>4, StayingForm DEF EdgeKinds, AddedKind, RemovedKind, ChangedKinds
  <1> QED BY <1>3, <1>4, <1>5, AcceptSound

\* ChangeNode and SetNodeParent: one part of a node's entry changes.
LEMMA NodeEntrySound ==
    ASSUME Settled(doc), NEW n \in DOMAIN doc.nodes,
           \/ \E look \in Looks : ChangeNode(n, look)
           \/ \E parent \in OptionalParent : SetNodeParent(n, parent)
    PROVE  Sound
  <1>0. n \in Nodes /\ doc.nodes[n] \in NodeEntry
    BY DocParts
  <1>1. ASSUME NEW entry \in NodeEntry, NEW kind, kind \notin EdgeKinds,
               Accept([doc EXCEPT !.nodes = [doc.nodes EXCEPT ![n] = entry]], Reports(kind))
        PROVE  Sound
    <2> DEFINE nodes == [doc.nodes EXCEPT ![n] = entry]
               c == [doc EXCEPT !.nodes = nodes]
    <2>1. IsPartial(nodes, Nodes, NodeEntry)
      BY <1>0, DocParts, EntryChanged
    <2> HIDE DEF nodes
    <2>2. Candidate(c) /\ c.edges = doc.edges /\ c.styles = doc.styles
      BY <2>1, DocParts, NodesReplaced
    <2>3. Accept(c, Reports(kind))
      BY <1>1 DEF nodes
    <2> HIDE DEF c
    <2> QED BY <1>1, <2>2, <2>3, StayingForm, AcceptSound
  <1>2. ASSUME NEW look \in Looks, ChangeNode(n, look) PROVE Sound
    <2> DEFINE entry == [doc.nodes[n] EXCEPT !.look = look]
    <2>1. entry \in NodeEntry
      BY <1>0 DEF NodeEntry
    <2>2. [doc EXCEPT !.nodes = [doc.nodes EXCEPT ![n] = entry]] = [doc EXCEPT !.nodes[n].look = look]
      OBVIOUS
    <2>3. Accept([doc EXCEPT !.nodes[n].look = look], Reports("nodeChanged"))
      BY <1>2 DEF ChangeNode
    <2> HIDE DEF entry
    <2> QED BY <1>1, <2>1, <2>2, <2>3 DEF EdgeKinds, AddedKind, RemovedKind, ChangedKinds
  <1>3. ASSUME NEW parent \in OptionalParent, SetNodeParent(n, parent) PROVE Sound
    <2> DEFINE entry == [doc.nodes[n] EXCEPT !.parent = parent]
    <2>1. entry \in NodeEntry
      BY <1>0, DocParts DEF NodeEntry
    <2>2. [doc EXCEPT !.nodes = [doc.nodes EXCEPT ![n] = entry]]
            = [doc EXCEPT !.nodes[n].parent = parent]
      OBVIOUS
    <2>3. Accept([doc EXCEPT !.nodes[n].parent = parent], Reports("nodeParentChanged"))
      BY <1>3 DEF SetNodeParent
    <2> HIDE DEF entry
    <2> QED BY <1>1, <2>1, <2>2, <2>3 DEF EdgeKinds, AddedKind, RemovedKind, ChangedKinds
  <1> QED BY <1>2, <1>3

\* RemoveNode: its edges go with it, and the entries in the subgraphs' lists.
LEMMA RemoveNodeSound ==
    ASSUME Settled(doc), NEW n \in DOMAIN doc.nodes, RemoveNode(n)
    PROVE  Sound
  <1> DEFINE apart == {i \in DOMAIN doc.edges : n \notin {doc.edges[i].source, doc.edges[i].target}}
             nodes == [m \in DOMAIN doc.nodes \ {n} |-> doc.nodes[m]]
             edges == Kept(doc.edges, apart)
             subgraphs == [s \in DOMAIN doc.subgraphs |->
                             [doc.subgraphs[s] EXCEPT !.children = @ \ {n}]]
  <1>1. IsPartial(nodes, Nodes, NodeEntry)
    BY DocParts DEF IsPartial
  <1>2. edges \in Seq(Edge)
    BY DocParts, KeptFacts
  <1>3. \A s \in DOMAIN doc.subgraphs :
          /\ subgraphs[s] \in SubgraphEntry
          /\ subgraphs[s].regions = doc.subgraphs[s].regions
    <2> SUFFICES ASSUME NEW s \in DOMAIN doc.subgraphs
                 PROVE  /\ subgraphs[s] \in SubgraphEntry
                        /\ subgraphs[s].regions = doc.subgraphs[s].regions
      OBVIOUS
    <2>1. doc.subgraphs[s] \in SubgraphEntry
      BY DocParts
    <2>2. subgraphs[s] = [doc.subgraphs[s] EXCEPT !.children = doc.subgraphs[s].children \ {n}]
      OBVIOUS
    <2> QED BY <2>1, <2>2 DEF SubgraphEntry
  <1>4. DOMAIN subgraphs = DOMAIN doc.subgraphs
    OBVIOUS
  <1>5. IsPartial(subgraphs, Subgraphs, SubgraphEntry)
    <2>1. DOMAIN doc.subgraphs \subseteq Subgraphs
      BY DocParts
    <2> QED BY <1>3, <2>1 DEF IsPartial
  <1>6. \A s \in DOMAIN subgraphs : subgraphs[s].regions \subseteq DOMAIN subgraphs
    <2>1. RegionsListed(doc)
      BY DocParts
    <2> HIDE DEF subgraphs
    <2> QED BY <1>3, <1>4, <2>1 DEF RegionsListed
  <1> HIDE DEF nodes, edges, subgraphs
  <1> DEFINE c1 == [doc EXCEPT !.nodes = nodes]
             c2 == [c1 EXCEPT !.edges = edges]
             c == [c2 EXCEPT !.subgraphs = subgraphs]
  <1>7. Candidate(c) /\ c.edges = edges /\ c.styles = doc.styles
    <2>1. Candidate(c1) /\ c1.styles = doc.styles
      BY <1>1, DocParts, NodesReplaced
    <2> HIDE DEF c1
    <2>2. Candidate(c2) /\ c2.edges = edges /\ c2.styles = doc.styles
      BY <1>2, <2>1, EdgesReplaced
    <2> HIDE DEF c2
    <2> QED BY <1>5, <1>6, <2>2, SubgraphsReplaced
  <1>8. [[[doc EXCEPT !.nodes = nodes] EXCEPT !.edges = edges] EXCEPT !.subgraphs = subgraphs]
          = [doc EXCEPT !.nodes = nodes, !.edges = edges, !.subgraphs = subgraphs]
    OBVIOUS
  <1>9. Accept([doc EXCEPT !.nodes = nodes, !.edges = edges, !.subgraphs = subgraphs],
               Reports("nodeRemoved"))
    BY DEF RemoveNode, WithoutChild, nodes, edges, subgraphs
  <1>10. Accept(c, Reports("nodeRemoved"))
    BY <1>8, <1>9
  <1> HIDE DEF c
  <1>11. Form(c, Reports("nodeRemoved"))
    <2>1. edges = Kept(doc.edges, apart) /\ apart \in SUBSET DOMAIN doc.edges
      BY DEF edges
    <2> HIDE DEF apart
    <2> QED BY <1>7, <2>1 DEF Form, EdgesGo, Reports, EdgeKinds, AddedKind, RemovedKind, ChangedKinds
  <1> QED BY <1>7, <1>10, <1>11, AcceptSound

\* AddEdge.
LEMMA AddEdgeSound ==
    ASSUME Settled(doc), steps \in Nat,
           NEW source \in DOMAIN doc.nodes, NEW target \in DOMAIN doc.nodes,
           NEW from \in OptionalParent, NEW to \in OptionalParent, NEW label \in Labels,
           AddEdge(source, target, from, to, label)
    PROVE  Sound
  <1> DEFINE edge == [id |-> NewEdgeId(doc), uid |-> 100 + steps, source |-> source,
                      target |-> target, from |-> from, to |-> to, label |-> label,
                      stroke |-> "solid"]
             edges == Append(doc.edges, edge)
  <1>1. doc.edges \in Seq(Edge) /\ NewEdgeId(doc) \in Nat
    BY DocParts DEF NewEdgeId
  <1>2. source \in Nodes /\ target \in Nodes /\ from \in Optional(Subgraphs) /\ to \in Optional(Subgraphs)
    BY DocParts
  <1>3. edge \in Edge
    BY <1>1, <1>2 DEF Edge, Strokes
  <1>4. edges \in Seq(Edge)
    BY <1>1, <1>3
  <1> DEFINE c == [doc EXCEPT !.edges = edges]
  <1>5. Accept(c, ReportsEdge("edgeAdded", NewEdgeId(doc)))
    BY DEF AddEdge
  <1>6. Candidate(c) /\ c.edges = edges /\ c.styles = doc.styles
    <2> HIDE DEF edges
    <2> QED BY <1>4, DocParts, EdgesReplaced
  <1> HIDE DEF c
  <1>7. Form(c, ReportsEdge("edgeAdded", NewEdgeId(doc)))
    <2>1. edge.id = NewEdgeId(doc) /\ edge.uid = 100 + steps
      OBVIOUS
    <2> HIDE DEF edge
    <2> QED BY <1>3, <1>6, <2>1 DEF Form, EdgeJoins, ReportsEdge, AddedKind
  <1> QED BY <1>5, <1>6, <1>7, AcceptSound

\* RemoveEdge.
LEMMA RemoveEdgeSound ==
    ASSUME Settled(doc), NEW i \in DOMAIN doc.edges, RemoveEdge(i)
    PROVE  Sound
  <1> DEFINE edges == Kept(doc.edges, DOMAIN doc.edges \ {i})
  <1>1. edges \in Seq(Edge)
    BY DocParts, KeptFacts
  <1> DEFINE c == [doc EXCEPT !.edges = edges]
  <1>2. Accept(c, ReportsEdge("edgeRemoved", doc.edges[i].id))
    BY DEF RemoveEdge
  <1>3. Candidate(c) /\ c.edges = edges /\ c.styles = doc.styles
    <2> HIDE DEF edges
    <2> QED BY <1>1, DocParts, EdgesReplaced
  <1> HIDE DEF c
  <1>4. Form(c, ReportsEdge("edgeRemoved", doc.edges[i].id))
    BY <1>3 DEF Form, EdgesGo, ReportsEdge, RemovedKind, AddedKind, ChangedKinds
  <1> QED BY <1>2, <1>3, <1>4, AcceptSound

\* The commands that change parts of an edge.
LEMMA EdgeEntrySound ==
    ASSUME Settled(doc), NEW i \in DOMAIN doc.edges,
           \/ \E source, target \in DOMAIN doc.nodes : ReconnectEdge(i, source, target)
           \/ \E from, to \in OptionalParent : SetEdgeEndpointIntent(i, from, to)
           \/ \E label \in Labels : ChangeEdgeLabel(i, label)
           \/ \E stroke \in Strokes : ChangeEdgeStyle(i, stroke)
    PROVE  Sound
  <1>0. doc.edges \in Seq(Edge) /\ doc.edges[i] \in Edge
    BY DocParts
  <1>1. ASSUME NEW edge \in Edge, Altered(doc.edges[i], edge), NEW kind \in ChangedKinds,
               Accept([doc EXCEPT !.edges = [doc.edges EXCEPT ![i] = edge]],
                      ReportsEdge(kind, doc.edges[i].id))
        PROVE  Sound
    <2> DEFINE edges == [doc.edges EXCEPT ![i] = edge]
               c == [doc EXCEPT !.edges = edges]
    <2>1. edges \in Seq(Edge)
      BY <1>0
    <2> HIDE DEF edges
    <2>2. /\ Candidate(c) /\ c.edges = edges /\ c.styles = doc.styles /\ c.nodes = doc.nodes
      BY <2>1, DocParts, EdgesReplaced
    <2>3. Accept(c, ReportsEdge(kind, doc.edges[i].id))
      BY <1>1 DEF edges
    <2> HIDE DEF c
    <2>4. EdgeAlters(c.edges, ReportsEdge(kind, doc.edges[i].id))
      BY <1>1, <2>2 DEF EdgeAlters, ReportsEdge, edges
    <2>5. Form(c, ReportsEdge(kind, doc.edges[i].id))
      BY <2>2, <2>4 DEF Form
    <2> QED BY <2>2, <2>3, <2>5, AcceptSound
  <1>2. ASSUME NEW source \in DOMAIN doc.nodes, NEW target \in DOMAIN doc.nodes,
               ReconnectEdge(i, source, target)
        PROVE  Sound
    <2> DEFINE edge == [doc.edges[i] EXCEPT !.source = source, !.target = target]
    <2>1. edge \in Edge
      BY <1>0, DocParts DEF Edge
    <2>2. [doc EXCEPT !.edges = [doc.edges EXCEPT ![i] = edge]]
            = [doc EXCEPT !.edges[i].source = source, !.edges[i].target = target]
      <3>1. edge = [[doc.edges[i] EXCEPT !.source = source] EXCEPT !.target = target]
        OBVIOUS
      <3> QED BY <1>0, <3>1
    <2>3. Altered(doc.edges[i], edge)
      BY <1>0 DEF Edge, Altered, SameEnds, Look
    <2>4. Accept([doc EXCEPT !.edges[i].source = source, !.edges[i].target = target],
               ReportsEdge("edgeReconnected", doc.edges[i].id))
      BY <1>2 DEF ReconnectEdge
    <2> HIDE DEF edge
    <2> QED BY <1>1, <2>1, <2>2, <2>3, <2>4 DEF ChangedKinds
  <1>3. ASSUME NEW from \in OptionalParent, NEW to \in OptionalParent,
               SetEdgeEndpointIntent(i, from, to)
        PROVE  Sound
    <2> DEFINE edge == [doc.edges[i] EXCEPT !.from = from, !.to = to]
    <2>1. edge \in Edge
      BY <1>0, DocParts DEF Edge
    <2>2. [doc EXCEPT !.edges = [doc.edges EXCEPT ![i] = edge]]
            = [doc EXCEPT !.edges[i].from = from, !.edges[i].to = to]
      <3>1. edge = [[doc.edges[i] EXCEPT !.from = from] EXCEPT !.to = to]
        OBVIOUS
      <3> QED BY <1>0, <3>1
    <2>3. Altered(doc.edges[i], edge)
      BY <1>0 DEF Edge, Altered, SameEnds, Look
    <2>4. Accept([doc EXCEPT !.edges[i].from = from, !.edges[i].to = to],
               ReportsEdge("edgeIntentChanged", doc.edges[i].id))
      BY <1>3 DEF SetEdgeEndpointIntent
    <2> HIDE DEF edge
    <2> QED BY <1>1, <2>1, <2>2, <2>3, <2>4 DEF ChangedKinds
  <1>4. ASSUME NEW label \in Labels, ChangeEdgeLabel(i, label) PROVE Sound
    <2> DEFINE edge == [doc.edges[i] EXCEPT !.label = label]
    <2>1. edge \in Edge
      BY <1>0 DEF Edge
    <2>2. [doc EXCEPT !.edges = [doc.edges EXCEPT ![i] = edge]] = [doc EXCEPT !.edges[i].label = label]
      OBVIOUS
    <2>3. Altered(doc.edges[i], edge)
      BY <1>0 DEF Edge, Altered, SameEnds, Look
    <2>4. Accept([doc EXCEPT !.edges[i].label = label],
               ReportsEdge("edgeLabelChanged", doc.edges[i].id))
      BY <1>4 DEF ChangeEdgeLabel
    <2> HIDE DEF edge
    <2> QED BY <1>1, <2>1, <2>2, <2>3, <2>4 DEF ChangedKinds
  <1>5. ASSUME NEW stroke \in Strokes, ChangeEdgeStyle(i, stroke) PROVE Sound
    <2> DEFINE edge == [doc.edges[i] EXCEPT !.stroke = stroke]
    <2>1. edge \in Edge
      BY <1>0 DEF Edge
    <2>2. [doc EXCEPT !.edges = [doc.edges EXCEPT ![i] = edge]] = [doc EXCEPT !.edges[i].stroke = stroke]
      OBVIOUS
    <2>3. Altered(doc.edges[i], edge)
      BY <1>0 DEF Edge, Altered, SameEnds, Look
    <2>4. Accept([doc EXCEPT !.edges[i].stroke = stroke],
               ReportsEdge("edgeStyleChanged", doc.edges[i].id))
      BY <1>5 DEF ChangeEdgeStyle
    <2> HIDE DEF edge
    <2> QED BY <1>1, <2>1, <2>2, <2>3, <2>4 DEF ChangedKinds
  <1> QED BY <1>2, <1>3, <1>4, <1>5

\* AddSubgraph: the nodes and regions it gets move into it.
LEMMA AddSubgraphSound ==
    ASSUME Settled(doc), NEW s \in Subgraphs, NEW parent \in OptionalParent,
           NEW children \in SUBSET DOMAIN doc.nodes, NEW regions \in SUBSET DOMAIN doc.subgraphs,
           AddSubgraph(s, parent, children, regions)
    PROVE  Sound
  <1> DEFINE subgraph == [parent |-> parent, look |-> "plain", children |-> {}, regions |-> regions]
             moved == Moved(doc.subgraphs, s, regions, {})
             nodes == Moved(doc.nodes, s, children, {})
             subgraphs == With(moved, s, subgraph)
  <1>1. IsPartial(nodes, Nodes, NodeEntry)
    BY DocParts, MovedNodes
  <1>2. /\ IsPartial(moved, Subgraphs, SubgraphEntry)
        /\ DOMAIN moved = DOMAIN doc.subgraphs
        /\ \A t \in DOMAIN doc.subgraphs : moved[t].regions = doc.subgraphs[t].regions
    BY DocParts, MovedSubgraphs
  <1>3. subgraph \in SubgraphEntry /\ subgraph.regions \subseteq DOMAIN doc.subgraphs
    BY DocParts DEF SubgraphEntry, Looks
  <1> HIDE DEF subgraph, moved, nodes
  <1>4. IsPartial(subgraphs, Subgraphs, SubgraphEntry)
    BY <1>2, <1>3, EntryChanged
  <1>5. \A t \in DOMAIN subgraphs : subgraphs[t].regions \subseteq DOMAIN subgraphs
    BY <1>2, <1>3, DocParts DEF With, RegionsListed
  <1> HIDE DEF subgraphs
  <1> DEFINE c1 == [doc EXCEPT !.nodes = nodes]
             c == [c1 EXCEPT !.subgraphs = subgraphs]
  <1>6. Candidate(c) /\ c.edges = doc.edges /\ c.styles = doc.styles
    <2>1. Candidate(c1) /\ c1.edges = doc.edges /\ c1.styles = doc.styles
      BY <1>1, DocParts, NodesReplaced
    <2> HIDE DEF c1
    <2> QED BY <1>4, <1>5, <2>1, SubgraphsReplaced
  <1>7. [[doc EXCEPT !.nodes = nodes] EXCEPT !.subgraphs = subgraphs]
          = [doc EXCEPT !.nodes = nodes, !.subgraphs = subgraphs]
    OBVIOUS
  <1>8. Accept([doc EXCEPT !.nodes = nodes, !.subgraphs = subgraphs], Reports("subgraphAdded"))
    BY DEF AddSubgraph, nodes, subgraphs, subgraph, moved
  <1>9. Accept(c, Reports("subgraphAdded"))
    BY <1>7, <1>8
  <1> HIDE DEF c
  <1>10. Form(c, Reports("subgraphAdded"))
    BY <1>6, StayingForm DEF EdgeKinds, AddedKind, RemovedKind, ChangedKinds
  <1> QED BY <1>6, <1>9, <1>10, AcceptSound

\* RemoveSubgraph: what was in it moves to the top, and no subgraph lists it any more.
LEMMA RemoveSubgraphSound ==
    ASSUME Settled(doc), NEW s \in DOMAIN doc.subgraphs, RemoveSubgraph(s)
    PROVE  Sound
  <1> DEFINE moved == Moved(doc.subgraphs, s, {}, DOMAIN doc.subgraphs)
             nodes == Moved(doc.nodes, s, {}, DOMAIN doc.nodes)
             subgraphs == WithoutSubgraph(moved, s)
  <1>0. s \in Subgraphs
    BY DocParts
  <1>1. IsPartial(nodes, Nodes, NodeEntry)
    BY <1>0, DocParts, MovedNodes
  <1>2. /\ IsPartial(moved, Subgraphs, SubgraphEntry)
        /\ DOMAIN moved = DOMAIN doc.subgraphs
        /\ \A t \in DOMAIN doc.subgraphs : moved[t].regions = doc.subgraphs[t].regions
    BY <1>0, DocParts, MovedSubgraphs
  <1> HIDE DEF moved, nodes
  <1>3. DOMAIN subgraphs = DOMAIN doc.subgraphs \ {s}
    BY <1>2 DEF WithoutSubgraph
  <1>4. ASSUME NEW t \in DOMAIN subgraphs
        PROVE  /\ subgraphs[t] \in SubgraphEntry
               /\ subgraphs[t].regions = doc.subgraphs[t].regions \ {s}
    <2>1. t \in DOMAIN moved /\ moved[t] \in SubgraphEntry
      BY <1>2, <1>3 DEF IsPartial
    <2>2. subgraphs[t] = [moved[t] EXCEPT !.regions = moved[t].regions \ {s}]
      BY <1>2, <1>3 DEF WithoutSubgraph
    <2> QED BY <1>2, <2>1, <2>2 DEF SubgraphEntry
  <1>5. IsPartial(subgraphs, Subgraphs, SubgraphEntry)
    <2>1. DOMAIN subgraphs \subseteq Subgraphs
      BY <1>3, DocParts
    <2>2. subgraphs = [t \in DOMAIN subgraphs |-> subgraphs[t]]
      BY DEF WithoutSubgraph
    <2> HIDE DEF subgraphs
    <2> QED BY <1>4, <2>1, <2>2 DEF IsPartial
  <1>6. \A t \in DOMAIN subgraphs : subgraphs[t].regions \subseteq DOMAIN subgraphs
    <2>1. RegionsListed(doc)
      BY DocParts
    <2> HIDE DEF subgraphs
    <2> QED BY <1>3, <1>4, <2>1 DEF RegionsListed
  <1> HIDE DEF subgraphs
  <1> DEFINE c1 == [doc EXCEPT !.nodes = nodes]
             c == [c1 EXCEPT !.subgraphs = subgraphs]
  <1>7. Candidate(c) /\ c.edges = doc.edges /\ c.styles = doc.styles
    <2>1. Candidate(c1) /\ c1.edges = doc.edges /\ c1.styles = doc.styles
      BY <1>1, DocParts, NodesReplaced
    <2> HIDE DEF c1
    <2> QED BY <1>5, <1>6, <2>1, SubgraphsReplaced
  <1>8. [[doc EXCEPT !.nodes = nodes] EXCEPT !.subgraphs = subgraphs]
          = [doc EXCEPT !.nodes = nodes, !.subgraphs = subgraphs]
    OBVIOUS
  <1>9. Accept([doc EXCEPT !.nodes = nodes, !.subgraphs = subgraphs], Reports("subgraphRemoved"))
    BY DEF RemoveSubgraph, nodes, subgraphs, moved
  <1>10. Accept(c, Reports("subgraphRemoved"))
    BY <1>8, <1>9
  <1> HIDE DEF c
  <1>11. Form(c, Reports("subgraphRemoved"))
    BY <1>7, StayingForm DEF EdgeKinds, AddedKind, RemovedKind, ChangedKinds
  <1> QED BY <1>7, <1>10, <1>11, AcceptSound

\* Another entry for a subgraph, with regions that there are.
LEMMA SubgraphEntryChanged ==
    ASSUME NEW d, Candidate(d), NEW s \in DOMAIN d.subgraphs, NEW entry \in SubgraphEntry,
           entry.regions \subseteq DOMAIN d.subgraphs
    PROVE  /\ Candidate([d EXCEPT !.subgraphs = [d.subgraphs EXCEPT ![s] = entry]])
           /\ [d EXCEPT !.subgraphs = [d.subgraphs EXCEPT ![s] = entry]].edges = d.edges
           /\ [d EXCEPT !.subgraphs = [d.subgraphs EXCEPT ![s] = entry]].styles = d.styles
  <1> DEFINE subgraphs == [d.subgraphs EXCEPT ![s] = entry]
  <1>1. /\ IsPartial(d.subgraphs, Subgraphs, SubgraphEntry)
        /\ \A t \in DOMAIN d.subgraphs : d.subgraphs[t].regions \subseteq DOMAIN d.subgraphs
        /\ s \in Subgraphs
    BY CandidateParts DEF IsPartial
  <1>2. IsPartial(subgraphs, Subgraphs, SubgraphEntry)
    BY <1>1, EntryChanged
  <1>3. \A t \in DOMAIN subgraphs : subgraphs[t].regions \subseteq DOMAIN subgraphs
    BY <1>1
  <1> HIDE DEF subgraphs
  <1>4. /\ Candidate([d EXCEPT !.subgraphs = subgraphs])
        /\ [d EXCEPT !.subgraphs = subgraphs].edges = d.edges
        /\ [d EXCEPT !.subgraphs = subgraphs].styles = d.styles
    BY <1>2, <1>3, SubgraphsReplaced
  <1> QED BY <1>4 DEF subgraphs

\* ChangeSubgraph and SetSubgraphParent.
LEMMA SubgraphEntrySound ==
    ASSUME Settled(doc), NEW s \in DOMAIN doc.subgraphs,
           \/ \E look \in Looks : ChangeSubgraph(s, look)
           \/ \E parent \in OptionalParent : SetSubgraphParent(s, parent)
    PROVE  Sound
  <1>0. /\ doc.subgraphs[s] \in SubgraphEntry
        /\ doc.subgraphs[s].regions \subseteq DOMAIN doc.subgraphs
    BY DocParts DEF RegionsListed
  <1> DEFINE with(entry) == [doc EXCEPT !.subgraphs = [doc.subgraphs EXCEPT ![s] = entry]]
  <1>3. ASSUME NEW entry \in SubgraphEntry, entry.regions = doc.subgraphs[s].regions,
               NEW kind, kind \notin EdgeKinds, Accept(with(entry), Reports(kind))
        PROVE  Sound
    <2> DEFINE c == with(entry)
    <2>1. Candidate(c) /\ c.edges = doc.edges /\ c.styles = doc.styles
      BY <1>0, <1>3, DocParts, SubgraphEntryChanged
    <2>2. Accept(c, Reports(kind))
      BY <1>3
    <2> HIDE DEF c
    <2> QED BY <1>3, <2>1, <2>2, StayingForm, AcceptSound
  <1>1. ASSUME NEW look \in Looks, ChangeSubgraph(s, look) PROVE Sound
    <2> DEFINE entry == [doc.subgraphs[s] EXCEPT !.look = look]
    <2>1. entry \in SubgraphEntry /\ entry.regions = doc.subgraphs[s].regions
      BY <1>0 DEF SubgraphEntry
    <2>2. with(entry) = [doc EXCEPT !.subgraphs[s].look = look]
      OBVIOUS
    <2>3. Accept(with(entry), Reports("subgraphChanged"))
      BY <1>1, <2>2 DEF ChangeSubgraph
    <2> HIDE DEF entry, with
    <2> QED BY <1>3, <2>1, <2>3 DEF EdgeKinds, AddedKind, RemovedKind, ChangedKinds
  <1>2. ASSUME NEW parent \in OptionalParent, SetSubgraphParent(s, parent) PROVE Sound
    <2> DEFINE entry == [doc.subgraphs[s] EXCEPT !.parent = parent]
    <2>1. entry \in SubgraphEntry /\ entry.regions = doc.subgraphs[s].regions
      BY <1>0, DocParts DEF SubgraphEntry
    <2>2. with(entry) = [doc EXCEPT !.subgraphs[s].parent = parent]
      OBVIOUS
    <2>3. Accept(with(entry), Reports("subgraphParentChanged"))
      BY <1>2, <2>2 DEF SetSubgraphParent
    <2> HIDE DEF entry, with
    <2> QED BY <1>3, <2>1, <2>3 DEF EdgeKinds, AddedKind, RemovedKind, ChangedKinds
  <1> QED BY <1>1, <1>2

\* ChangeSubgraphMembership.
LEMMA MembershipSound ==
    ASSUME Settled(doc), NEW s \in DOMAIN doc.subgraphs,
           NEW added \in SUBSET DOMAIN doc.nodes, NEW removed \in SUBSET DOMAIN doc.nodes,
           NEW addedRegions \in SUBSET DOMAIN doc.subgraphs,
           NEW removedRegions \in SUBSET DOMAIN doc.subgraphs,
           ChangeSubgraphMembership(s, added, removed, addedRegions, removedRegions)
    PROVE  Sound
  <1> DEFINE moved == Moved(doc.subgraphs, s, addedRegions, removedRegions)
             nodes == Moved(doc.nodes, s, added, removed)
             entry == [moved[s] EXCEPT !.regions = (moved[s].regions \ removedRegions)
                                                      \cup addedRegions]
             subgraphs == [moved EXCEPT ![s] = entry]
  <1>0. s \in Subgraphs
    BY DocParts
  <1>1. IsPartial(nodes, Nodes, NodeEntry)
    BY <1>0, DocParts, MovedNodes
  <1>2. /\ IsPartial(moved, Subgraphs, SubgraphEntry)
        /\ DOMAIN moved = DOMAIN doc.subgraphs
        /\ \A t \in DOMAIN doc.subgraphs : moved[t].regions = doc.subgraphs[t].regions
    BY <1>0, DocParts, MovedSubgraphs
  <1> HIDE DEF moved, nodes
  <1>3. entry \in SubgraphEntry /\ entry.regions \subseteq DOMAIN doc.subgraphs
    <2>1. moved[s] \in SubgraphEntry /\ addedRegions \subseteq Subgraphs
      BY <1>2, DocParts DEF IsPartial
    <2>2. moved[s].regions \subseteq DOMAIN doc.subgraphs
      BY <1>2, DocParts DEF RegionsListed
    <2>3. entry \in SubgraphEntry
      BY <2>1 DEF SubgraphEntry
    <2>4. entry.regions = (moved[s].regions \ removedRegions) \cup addedRegions
      BY <2>1 DEF SubgraphEntry
    <2> QED BY <2>2, <2>3, <2>4
  <1> HIDE DEF entry
  <1>4. IsPartial(subgraphs, Subgraphs, SubgraphEntry)
    BY <1>0, <1>2, <1>3, EntryChanged
  <1>5. \A t \in DOMAIN subgraphs : subgraphs[t].regions \subseteq DOMAIN subgraphs
    BY <1>2, <1>3, DocParts DEF RegionsListed
  <1>6. subgraphs = WithRegions(moved, s, addedRegions, removedRegions)
    BY DEF entry, WithRegions
  <1> HIDE DEF subgraphs
  <1> DEFINE c1 == [doc EXCEPT !.nodes = nodes]
             c == [c1 EXCEPT !.subgraphs = subgraphs]
  <1>7. Candidate(c) /\ c.edges = doc.edges /\ c.styles = doc.styles
    <2>1. Candidate(c1) /\ c1.edges = doc.edges /\ c1.styles = doc.styles
      BY <1>1, DocParts, NodesReplaced
    <2> HIDE DEF c1
    <2> QED BY <1>4, <1>5, <2>1, SubgraphsReplaced
  <1>8. [[doc EXCEPT !.nodes = nodes] EXCEPT !.subgraphs = subgraphs]
          = [doc EXCEPT !.nodes = nodes, !.subgraphs = subgraphs]
    OBVIOUS
  <1>9. Accept([doc EXCEPT !.nodes = nodes, !.subgraphs = subgraphs],
               Reports("subgraphMembershipChanged"))
    BY <1>6 DEF ChangeSubgraphMembership, nodes, moved
  <1>10. Accept(c, Reports("subgraphMembershipChanged"))
    BY <1>8, <1>9
  <1> HIDE DEF c
  <1>11. Form(c, Reports("subgraphMembershipChanged"))
    BY <1>7, StayingForm DEF EdgeKinds, AddedKind, RemovedKind, ChangedKinds
  <1> QED BY <1>7, <1>10, <1>11, AcceptSound

-----------------------------------------------------------------------------
(* What is changed in place is not hydrated first.                         *)

\* A change that leaves ids, lists and references alone.
LEMMA InPlaceSound ==
    ASSUME Settled(doc), Candidate(doc'),
           doc'.nodes = doc.nodes, doc'.edges = doc.edges,
           event'.kind # "extensionChanged" => doc'.styles.edges = doc.styles.edges,
           event'.kind \notin EdgeKinds,
           DOMAIN doc'.subgraphs = DOMAIN doc.subgraphs,
           \A s \in DOMAIN doc.subgraphs :
              /\ doc'.subgraphs[s].parent = doc.subgraphs[s].parent
              /\ doc'.subgraphs[s].children = doc.subgraphs[s].children
    PROVE  Sound
  <1>1. Settled(doc')
    BY DEF Settled, IsDocument, ChildrenListed, Candidate
  <1>2. ASSUME Hydrates(doc) PROVE Hydrates(doc')
    <2>1. Rooted(doc')
      BY <1>2 DEF Hydrates, Rooted
    <2> QED BY <1>2, <2>1 DEF Hydrates
  <1>3. LeavesOut
    BY DEF LeavesOut, EdgesStay, EdgeKinds, RemovedKind, EndsKnown
  <1> QED BY <1>1, <1>2, <1>3 DEF Sound

\* Other styles, and no other change.
LEMMA StylesReplaced ==
    ASSUME Settled(doc), NEW styles \in [nodes : SUBSET Nodes, edges : SUBSET Nat],
           doc' = [doc EXCEPT !.styles = styles],
           event'.kind # "extensionChanged" => styles.edges = doc.styles.edges,
           event'.kind \notin EdgeKinds
    PROVE  Sound
  <1>1. doc = [nodes |-> doc.nodes, subgraphs |-> doc.subgraphs, edges |-> doc.edges,
               look |-> doc.look, styles |-> doc.styles]
    BY DocParts DEF HasShape
  <1>2. doc' = [nodes |-> doc.nodes, subgraphs |-> doc.subgraphs, edges |-> doc.edges,
                look |-> doc.look, styles |-> styles]
    BY <1>1
  <1>3. HasShape(doc')
    <2>1. doc.look \in Looks
      BY DocParts DEF HasShape
    <2>2. styles \in [nodes : SUBSET Nodes, edges : SUBSET Nat]
      OBVIOUS
    <2>3. HasShape([nodes |-> doc.nodes, subgraphs |-> doc.subgraphs, edges |-> doc.edges,
                    look |-> doc.look, styles |-> styles])
      BY <2>1, <2>2, DocParts, ShapeFrom
    <2> QED BY <1>2, <2>3
  <1>4. /\ doc'.nodes = doc.nodes /\ doc'.edges = doc.edges /\ doc'.subgraphs = doc.subgraphs
        /\ doc'.styles = styles
    BY <1>2
  <1>5. Candidate(doc')
    BY <1>3, <1>4, DocParts DEF Candidate, RegionsListed
  <1> QED BY <1>4, <1>5, InPlaceSound

\* SetNodeStyleExtension.
LEMMA StyleSound ==
    ASSUME Settled(doc), NEW n \in DOMAIN doc.nodes, SetNodeStyleExtension(n)
    PROVE  Sound
  <1> DEFINE styles == [doc.styles EXCEPT !.nodes = doc.styles.nodes \cup {n}]
  <1>1. doc' = [doc EXCEPT !.styles = styles]
    BY DEF SetNodeStyleExtension, InPlace
  <1>2. doc.styles \in [nodes : SUBSET Nodes, edges : SUBSET Nat] /\ n \in Nodes
    BY DocParts DEF HasShape
  <1>3. styles \in [nodes : SUBSET Nodes, edges : SUBSET Nat] /\ styles.edges = doc.styles.edges
    BY <1>2
  <1> HIDE DEF styles
  <1>4. event'.kind \notin EdgeKinds
    BY DEF SetNodeStyleExtension, InPlace, Reports, EdgeKinds, AddedKind, RemovedKind, ChangedKinds
  <1> QED BY <1>1, <1>3, <1>4, StylesReplaced

\* SetExtension.
LEMMA ExtensionSound ==
    ASSUME Settled(doc), NEW nodes \in SUBSET Nodes, NEW edges \in SUBSET Nat,
           SetExtension(nodes, edges)
    PROVE  Sound
  <1> DEFINE styles == [nodes |-> nodes, edges |-> edges]
  <1>1. doc' = [doc EXCEPT !.styles = styles] /\ event'.kind = "extensionChanged"
    BY DEF SetExtension, InPlace, Reports
  <1>2. styles \in [nodes : SUBSET Nodes, edges : SUBSET Nat]
    OBVIOUS
  <1> HIDE DEF styles
  <1>3. event'.kind \notin EdgeKinds
    BY <1>1 DEF EdgeKinds, AddedKind, RemovedKind, ChangedKinds
  <1> QED BY <1>1, <1>2, <1>3, StylesReplaced

\* ChangeSubgraphTitle.
LEMMA TitleSound ==
    ASSUME Settled(doc), NEW s \in DOMAIN doc.subgraphs, NEW look \in Looks,
           ChangeSubgraphTitle(s, look)
    PROVE  Sound
  <1> DEFINE entry == [doc.subgraphs[s] EXCEPT !.look = look]
             subgraphs == [doc.subgraphs EXCEPT ![s] = entry]
  <1>1. doc.subgraphs[s] \in SubgraphEntry
    BY DocParts
  <1>2. /\ entry \in SubgraphEntry
        /\ entry.parent = doc.subgraphs[s].parent
        /\ entry.children = doc.subgraphs[s].children
        /\ entry.regions = doc.subgraphs[s].regions
    BY <1>1 DEF SubgraphEntry
  <1>3. doc' = [doc EXCEPT !.subgraphs = subgraphs]
    BY DEF ChangeSubgraphTitle, InPlace
  <1>4. Candidate([doc EXCEPT !.subgraphs = subgraphs])
    <2>1. entry.regions \subseteq DOMAIN doc.subgraphs
      BY <1>2, DocParts DEF RegionsListed
    <2> HIDE DEF entry
    <2> QED BY <1>2, <2>1, DocParts, SubgraphEntryChanged
  <1>5. /\ DOMAIN subgraphs = DOMAIN doc.subgraphs
        /\ \A t \in DOMAIN doc.subgraphs :
              /\ subgraphs[t].parent = doc.subgraphs[t].parent
              /\ subgraphs[t].children = doc.subgraphs[t].children
    <2> HIDE DEF entry
    <2> QED BY <1>2
  <1> HIDE DEF subgraphs
  <1>6. doc = [nodes |-> doc.nodes, subgraphs |-> doc.subgraphs, edges |-> doc.edges,
               look |-> doc.look, styles |-> doc.styles]
    BY DocParts DEF HasShape
  <1>7. doc' = [nodes |-> doc.nodes, subgraphs |-> subgraphs, edges |-> doc.edges,
                look |-> doc.look, styles |-> doc.styles]
    BY <1>3, <1>6
  <1>8. /\ doc'.nodes = doc.nodes /\ doc'.edges = doc.edges /\ doc'.subgraphs = subgraphs
        /\ doc'.styles.edges = doc.styles.edges
    BY <1>7
  <1>9. event'.kind \notin EdgeKinds
    BY DEF ChangeSubgraphTitle, InPlace, Reports, EdgeKinds, AddedKind, RemovedKind, ChangedKinds
  <1> QED BY <1>3, <1>4, <1>5, <1>8, <1>9, InPlaceSound

\* The walk from a subgraph holds the parent of each of its members that has one.
LEMMA UpwardsClosed ==
    ASSUME NEW d, NEW s, NEW t \in Upwards(d, s), t \in DOMAIN d.subgraphs,
           d.subgraphs[t].parent \in Optional(Subgraphs)
    PROVE  d.subgraphs[t].parent \in Optional(Upwards(d, s))
  BY DEF Upwards, ClosedUp, Optional

\* The places of the edges that are inside a view of these nodes.
Inside(nodes) ==
    {i \in DOMAIN doc.edges : {doc.edges[i].source, doc.edges[i].target} \subseteq nodes}

\* The parts of a view.
LEMMA ViewParts ==
    ASSUME Settled(doc), NEW nodes \in SUBSET DOMAIN doc.nodes, NEW subgraphs
    PROVE  LET v == ViewOf(doc, nodes, subgraphs)
               retained == RetainedSubgraphs(doc, nodes, subgraphs)
           IN  /\ v = [nodes |-> v.nodes, subgraphs |-> v.subgraphs, edges |-> v.edges,
                       look |-> v.look, styles |-> v.styles]
               /\ DOMAIN v.nodes = nodes /\ \A n \in nodes : v.nodes[n] = doc.nodes[n]
               /\ v.edges = Kept(doc.edges, Inside(nodes))
               /\ DOMAIN v.subgraphs = retained \cap DOMAIN doc.subgraphs
               /\ \A s \in retained \cap DOMAIN doc.subgraphs :
                    /\ v.subgraphs[s] \in SubgraphEntry
                    /\ v.subgraphs[s].parent = doc.subgraphs[s].parent
                    /\ v.subgraphs[s].children = doc.subgraphs[s].children \cap nodes
                    /\ v.subgraphs[s].regions = doc.subgraphs[s].regions \cap retained
               /\ v.look = doc.look /\ v.styles = doc.styles
               /\ IsPartial(v.nodes, Nodes, NodeEntry)
               /\ IsPartial(v.subgraphs, Subgraphs, SubgraphEntry)
  <1> DEFINE v == ViewOf(doc, nodes, subgraphs)
             retained == RetainedSubgraphs(doc, nodes, subgraphs)
             inside == Inside(nodes)
             entry(s) == [doc.subgraphs[s] EXCEPT
                            !.children = doc.subgraphs[s].children \cap nodes,
                            !.regions = doc.subgraphs[s].regions \cap retained]
             parts == [s \in retained \cap DOMAIN doc.subgraphs |-> entry(s)]
             kept == [n \in nodes |-> doc.nodes[n]]
  <1>1. v = [doc EXCEPT !.nodes = kept, !.edges = Kept(doc.edges, inside), !.subgraphs = parts]
    BY DEF ViewOf, Inside
  <1> HIDE DEF v, retained, inside
  <1>2. doc = [nodes |-> doc.nodes, subgraphs |-> doc.subgraphs, edges |-> doc.edges,
               look |-> doc.look, styles |-> doc.styles]
    BY DocParts DEF HasShape
  <1>3. v = [nodes |-> kept, subgraphs |-> parts, edges |-> Kept(doc.edges, inside),
             look |-> doc.look, styles |-> doc.styles]
    <2> HIDE DEF kept, parts
    <2> QED BY <1>1, <1>2
  <1>4. /\ v.nodes = kept /\ v.subgraphs = parts /\ v.edges = Kept(doc.edges, inside)
        /\ v.look = doc.look /\ v.styles = doc.styles
    <2> HIDE DEF kept, parts
    <2> QED BY <1>3
  <1>5. DOMAIN parts = retained \cap DOMAIN doc.subgraphs
    OBVIOUS
  <1>6. ASSUME NEW s \in retained \cap DOMAIN doc.subgraphs
        PROVE  /\ parts[s] \in SubgraphEntry
               /\ parts[s].parent = doc.subgraphs[s].parent
               /\ parts[s].children = doc.subgraphs[s].children \cap nodes
               /\ parts[s].regions = doc.subgraphs[s].regions \cap retained
    <2>1. doc.subgraphs[s] \in SubgraphEntry
      BY DocParts
    <2>2. parts[s] = entry(s)
      OBVIOUS
    <2> HIDE DEF parts
    <2> QED BY <2>1, <2>2 DEF SubgraphEntry
  <1> HIDE DEF parts
  <1>7. v = [nodes |-> v.nodes, subgraphs |-> v.subgraphs, edges |-> v.edges,
             look |-> v.look, styles |-> v.styles]
    BY <1>3, <1>4
  <1>8. IsPartial(v.nodes, Nodes, NodeEntry)
    BY <1>4, DocParts DEF IsPartial
  <1> HIDE DEF kept
  <1>9. IsPartial(v.subgraphs, Subgraphs, SubgraphEntry)
    <2> USE DEF parts
    <2>1. parts \in [DOMAIN parts -> SubgraphEntry]
      <3> HIDE DEF parts
      <3>1. \A s \in DOMAIN parts : parts[s] \in SubgraphEntry
        BY <1>5, <1>6
      <3>2. parts = [s \in DOMAIN parts |-> parts[s]]
        BY DEF parts
      <3> QED BY <3>1, <3>2
    <2> HIDE DEF parts
    <2> QED BY <1>4, <1>5, <2>1, DocParts DEF IsPartial
  <1>10. /\ DOMAIN v.subgraphs = retained \cap DOMAIN doc.subgraphs
        /\ \A s \in retained \cap DOMAIN doc.subgraphs :
             /\ v.subgraphs[s] \in SubgraphEntry
             /\ v.subgraphs[s].parent = doc.subgraphs[s].parent
             /\ v.subgraphs[s].children = doc.subgraphs[s].children \cap nodes
             /\ v.subgraphs[s].regions = doc.subgraphs[s].regions \cap retained
    BY <1>4, <1>5, <1>6
  <1>11. DOMAIN v.nodes = nodes /\ \A n \in nodes : v.nodes[n] = doc.nodes[n]
    BY <1>4 DEF kept
  <1> QED BY <1>4, <1>7, <1>8, <1>9, <1>10, <1>11 DEF v, retained, inside

\* A view of a document is one, with ids and lists of its own.
LEMMA ViewSettles ==
    ASSUME Settled(doc), NEW nodes \in SUBSET DOMAIN doc.nodes,
           NEW subgraphs \in SUBSET DOMAIN doc.subgraphs
    PROVE  Settled(ViewOf(doc, nodes, subgraphs))
  <1> DEFINE v == ViewOf(doc, nodes, subgraphs)
             retained == RetainedSubgraphs(doc, nodes, subgraphs)
             inside == Inside(nodes)
  <1>1. /\ v = [nodes |-> v.nodes, subgraphs |-> v.subgraphs, edges |-> v.edges,
                look |-> v.look, styles |-> v.styles]
        /\ DOMAIN v.nodes = nodes /\ \A n \in nodes : v.nodes[n] = doc.nodes[n]
        /\ v.edges = Kept(doc.edges, inside)
        /\ DOMAIN v.subgraphs = retained \cap DOMAIN doc.subgraphs
        /\ v.look = doc.look /\ v.styles = doc.styles
        /\ IsPartial(v.nodes, Nodes, NodeEntry)
        /\ IsPartial(v.subgraphs, Subgraphs, SubgraphEntry)
    BY ViewParts
  <1>2. \A s \in retained \cap DOMAIN doc.subgraphs :
          /\ v.subgraphs[s] \in SubgraphEntry
          /\ v.subgraphs[s].parent = doc.subgraphs[s].parent
          /\ v.subgraphs[s].children = doc.subgraphs[s].children \cap nodes
          /\ v.subgraphs[s].regions = doc.subgraphs[s].regions \cap retained
    BY ViewParts
  <1>3. doc.edges \in Seq(Edge) /\ inside \in SUBSET DOMAIN doc.edges
    BY DocParts DEF Inside
  <1> HIDE DEF v, retained, inside
  <1>4. HasShape(v)
    <2>1. v.edges \in Seq(Edge)
      BY <1>1, <1>3, KeptFacts
    <2>2. v.look \in Looks /\ v.styles \in [nodes : SUBSET Nodes, edges : SUBSET Nat]
      BY <1>1, DocParts DEF HasShape
    <2> QED BY <1>1, <2>1, <2>2, ShapeFrom
  <1>5. \A i, j \in DOMAIN v.edges : v.edges[i].id = v.edges[j].id => i = j
    <2>1. \A i, j \in DOMAIN doc.edges : doc.edges[i].id = doc.edges[j].id => i = j
      BY DEF Settled, IsDocument
    <2>2. \A p, q \in DOMAIN Kept(doc.edges, inside) :
             Kept(doc.edges, inside)[p].id = Kept(doc.edges, inside)[q].id => p = q
      BY <1>3, <2>1, KeptFacts
    <2> QED BY <1>1, <2>2
  <1>6. ChildrenListed(v)
    <2>1. ChildrenListed(doc)
      BY DEF Settled
    <2> QED BY <1>1, <1>2, <2>1 DEF ChildrenListed
  <1>7. RegionsListed(v)
    <2>1. RegionsListed(doc)
      BY DEF Settled
    <2> QED BY <1>1, <1>2, <2>1 DEF RegionsListed
  <1> QED BY <1>4, <1>5, <1>6, <1>7 DEF Settled, IsDocument, v

\* A view names nothing that it leaves out: of a subgraph it keeps those around it, of
\* a node those it is in, and an intent is one of these.
LEMMA ViewHydrates ==
    ASSUME Settled(doc), NEW nodes \in SUBSET DOMAIN doc.nodes,
           NEW subgraphs \in SUBSET DOMAIN doc.subgraphs,
           Hydrates(doc), IntentsEnclose(doc)
    PROVE  Hydrates(ViewOf(doc, nodes, subgraphs))
  <1> DEFINE v == ViewOf(doc, nodes, subgraphs)
             retained == RetainedSubgraphs(doc, nodes, subgraphs)
             inside == Inside(nodes)
  <1> DEFINE named == subgraphs \cup ({doc.nodes[n].parent : n \in nodes} \ {None})
  <1>1. /\ DOMAIN v.nodes = nodes /\ \A n \in nodes : v.nodes[n] = doc.nodes[n]
        /\ v.edges = Kept(doc.edges, inside)
        /\ DOMAIN v.subgraphs = retained \cap DOMAIN doc.subgraphs
    BY ViewParts
  <1>2. \A s \in retained \cap DOMAIN doc.subgraphs :
          /\ v.subgraphs[s].parent = doc.subgraphs[s].parent
          /\ v.subgraphs[s].children = doc.subgraphs[s].children \cap nodes
    BY ViewParts
  <1>3. retained = UNION {Upwards(doc, s) : s \in named}
    BY DEF RetainedSubgraphs
  <1> HIDE DEF v, retained
  <1>4. named \subseteq DOMAIN doc.subgraphs /\ DOMAIN doc.subgraphs \subseteq Subgraphs
    BY DocParts DEF Hydrates, Optional
  <1>5. \A s \in named : s \in retained
    <2> HIDE DEF named
    <2> QED BY <1>3, <1>4, SubgraphInUpwards
  <1>6. \A n \in nodes : doc.nodes[n].parent \in Optional(DOMAIN v.subgraphs)
    <2> SUFFICES ASSUME NEW n \in nodes
                 PROVE  doc.nodes[n].parent \in Optional(DOMAIN v.subgraphs)
      OBVIOUS
    <2>1. doc.nodes[n].parent # None => doc.nodes[n].parent \in named
      OBVIOUS
    <2> HIDE DEF named
    <2> QED BY <1>1, <1>4, <1>5, <2>1 DEF Optional
  <1>7. ASSUME NEW s \in retained \cap DOMAIN doc.subgraphs
         PROVE  doc.subgraphs[s].parent \in Optional(DOMAIN v.subgraphs)
    <2> HIDE DEF named
    <2>1. PICK t \in named : s \in Upwards(doc, t)
      BY <1>3
    <2>2. doc.subgraphs[s].parent \in Optional(DOMAIN doc.subgraphs)
      BY DEF Hydrates
    <2>3. doc.subgraphs[s].parent \in Optional(Upwards(doc, t))
      BY <1>4, <2>1, <2>2, UpwardsClosed DEF Optional
    <2>4. Upwards(doc, t) \subseteq retained
      BY <1>3, <2>1
    <2> QED BY <1>1, <2>2, <2>3, <2>4 DEF Optional
  <1>8. Rooted(v)
    <2>1. Rooted(doc)
      BY DEF Hydrates
    <2> QED BY <1>1, <1>2, <2>1 DEF Rooted
  <1>9. ASSUME NEW n \in nodes, NEW intent \in DOMAIN doc.subgraphs, n \in Members(doc, intent)
         PROVE  intent \in DOMAIN v.subgraphs
    <2>1. doc.nodes[n].parent \in named /\ intent \in Upwards(doc, doc.nodes[n].parent)
      BY <1>9 DEF Members
    <2> HIDE DEF named
    <2> QED BY <1>1, <1>3, <2>1
  <1> HIDE DEF named
  <1>10. ASSUME NEW i \in DOMAIN v.edges
         PROVE  /\ {v.edges[i].source, v.edges[i].target} \subseteq DOMAIN v.nodes
                /\ {v.edges[i].from, v.edges[i].to} \subseteq Optional(DOMAIN v.subgraphs)
    <2>1. doc.edges \in Seq(Edge) /\ inside \in SUBSET DOMAIN doc.edges
      BY DocParts DEF Inside
    <2>2. PICK k \in inside : v.edges[i] = doc.edges[k]
      BY <1>1, <2>1, KeptFacts
    <2>3. k \in DOMAIN doc.edges /\ {doc.edges[k].source, doc.edges[k].target} \subseteq nodes
      BY <2>2 DEF Inside
    <2>4. {doc.edges[k].from, doc.edges[k].to} \subseteq Optional(DOMAIN doc.subgraphs)
      BY <2>3 DEF Hydrates
    <2>5. /\ doc.edges[k].from # None => doc.edges[k].source \in Members(doc, doc.edges[k].from)
          /\ doc.edges[k].to # None => doc.edges[k].target \in Members(doc, doc.edges[k].to)
      BY <2>3 DEF IntentsEnclose
    <2>6. /\ doc.edges[k].from # None => doc.edges[k].from \in DOMAIN v.subgraphs
          /\ doc.edges[k].to # None => doc.edges[k].to \in DOMAIN v.subgraphs
      BY <1>9, <2>3, <2>4, <2>5 DEF Optional
    <2> QED BY <1>1, <2>2, <2>3, <2>6 DEF Optional
  <1>11. \A s \in DOMAIN v.subgraphs : v.subgraphs[s].children \subseteq DOMAIN v.nodes
    BY <1>1, <1>2
  <1>12. Hydrates(v)
    BY <1>1, <1>2, <1>6, <1>7, <1>8, <1>10, <1>11 DEF Hydrates
  <1> QED BY <1>12 DEF v

-----------------------------------------------------------------------------
(* Which edge is which.                                                    *)

\* The edges of a document that is laid out again are those it had, in the order of
\* their ids, and so are the styled ones; where ids are positions nothing moves.
LEMMA RelaidOrder ==
    ASSUME NEW d, HasShape(d)
    PROVE  \E order \in [DOMAIN d.edges -> DOMAIN d.edges] :
              /\ Enumerates(order, Len(d.edges), DOMAIN d.edges)
              /\ DOMAIN Relaid(d).edges = DOMAIN d.edges
              /\ \A i \in DOMAIN d.edges :
                    /\ Relaid(d).edges[i] = [d.edges[order[i]] EXCEPT !.id = i - 1]
                    /\ i - 1 \in Relaid(d).styles.edges <=> d.edges[order[i]].id \in d.styles.edges
              /\ Dense(d) => \A i \in DOMAIN d.edges : order[i] = i
  <1>1. d.edges \in Seq(Edge)
    BY DEF HasShape
  <1>2. PICK order \in [DOMAIN d.edges -> DOMAIN d.edges] :
          /\ Ordered(d.edges) = [p \in DOMAIN d.edges |-> d.edges[order[p]]]
          /\ Enumerates(order, Len(d.edges), DOMAIN d.edges)
    BY <1>1, OrderedFacts
  <1>3. Len(d.edges) \in Nat /\ DOMAIN d.edges = 1..Len(d.edges)
    BY <1>1
  <1>4. Relaid(d).edges = [i \in DOMAIN d.edges |-> [d.edges[order[i]] EXCEPT !.id = i - 1]]
    <2>1. Relaid(d).edges = Renumbered(Ordered(d.edges))
      BY RelaidParts
    <2> QED BY <1>2, <2>1 DEF Renumbered
  <1>5. Relaid(d).styles.edges = {i - 1 : i \in {j \in DOMAIN d.edges : d.edges[order[j]].id \in d.styles.edges}}
    <2>1. Relaid(d).styles = [nodes |-> d.styles.nodes \cap DOMAIN d.nodes,
                              edges |-> StyledPlaces(d, Ordered(d.edges))]
      BY RelaidParts
    <2>2. Relaid(d).styles.edges = StyledPlaces(d, Ordered(d.edges))
      BY <2>1
    <2> QED BY <1>2, <2>2 DEF StyledPlaces
  <1>6. \A i \in DOMAIN d.edges :
          i - 1 \in Relaid(d).styles.edges <=> d.edges[order[i]].id \in d.styles.edges
    BY <1>3, <1>5
  <1>7. ASSUME Dense(d), NEW p \in DOMAIN d.edges
        PROVE  order[p] = p
    <2>9. Ordered(d.edges) = d.edges
      BY <1>1, <1>7, DenseStays DEF Dense
    <2>10. d.edges[order[p]].id = d.edges[p].id
      BY <1>2, <2>9
    <2>11. order[p] \in DOMAIN d.edges
      OBVIOUS
    <2> QED BY <1>3, <1>7, <2>10, <2>11 DEF Dense
  <1> QED BY <1>2, <1>4, <1>6, <1>7

\* The identities of the edges, and of those whose id is among these.
UidsIn(edges) == {edges[i].uid : i \in DOMAIN edges}
StyledIn(edges, ids) == {edges[i].uid : i \in {j \in DOMAIN edges : edges[j].id \in ids}}

\* Both depend on the edges and their styles alone.
LEMMA UidsByEdges ==
    ASSUME NEW d
    PROVE  /\ Uids(d) = UidsIn(d.edges)
           /\ Styled(d) = StyledIn(d.edges, d.styles.edges)
  BY DEF Uids, UidsIn, Styled, StyledIn

\* A relayout loses no edge, takes none for another, and leaves each its style.
LEMMA RelaidUids ==
    ASSUME NEW d, HasShape(d)
    PROVE  /\ Uids(Relaid(d)) = UidsIn(d.edges)
           /\ Styled(Relaid(d)) = StyledIn(d.edges, d.styles.edges)
           /\ \A next : Identified(d, next) => Identified(Relaid(d), next)
  <1>1. PICK order \in [DOMAIN d.edges -> DOMAIN d.edges] :
          /\ Enumerates(order, Len(d.edges), DOMAIN d.edges)
          /\ DOMAIN Relaid(d).edges = DOMAIN d.edges
          /\ \A i \in DOMAIN d.edges :
                /\ Relaid(d).edges[i] = [d.edges[order[i]] EXCEPT !.id = i - 1]
                /\ i - 1 \in Relaid(d).styles.edges <=> d.edges[order[i]].id \in d.styles.edges
    BY RelaidOrder
  <1>2. d.edges \in Seq(Edge)
    BY DEF HasShape
  <1>3. \A i, j \in DOMAIN d.edges : order[i] = order[j] => i = j
    BY <1>1, <1>2 DEF Enumerates
  <1>4. \A k \in DOMAIN d.edges : \E i \in DOMAIN d.edges : order[i] = k
    BY <1>1, <1>2 DEF Enumerates
  <1>5. \A i \in DOMAIN d.edges : order[i] \in DOMAIN d.edges /\ d.edges[order[i]] \in Edge
    BY <1>2
  <1>6. \A i \in DOMAIN d.edges : /\ Relaid(d).edges[i].uid = d.edges[order[i]].uid
                                  /\ Relaid(d).edges[i].id = i - 1
    BY <1>1, <1>5 DEF Edge
  <1>7. Uids(Relaid(d)) = UidsIn(d.edges)
    <2>1. ASSUME NEW i \in DOMAIN d.edges
          PROVE  \E k \in DOMAIN d.edges : Relaid(d).edges[i].uid = d.edges[k].uid
      BY <1>5, <1>6
    <2>2. ASSUME NEW k \in DOMAIN d.edges
          PROVE  \E i \in DOMAIN d.edges : Relaid(d).edges[i].uid = d.edges[k].uid
      BY <1>4, <1>6
    <2>3. Uids(Relaid(d)) = {Relaid(d).edges[i].uid : i \in DOMAIN d.edges}
      BY <1>1 DEF Uids
    <2>4. ASSUME NEW u PROVE u \in Uids(Relaid(d)) <=> u \in UidsIn(d.edges)
      <3>1. u \in Uids(Relaid(d)) <=> \E i \in DOMAIN d.edges : u = Relaid(d).edges[i].uid
        BY <2>3
      <3>2. u \in UidsIn(d.edges) <=> \E k \in DOMAIN d.edges : u = d.edges[k].uid
        BY DEF UidsIn
      <3> QED BY <2>1, <2>2, <3>1, <3>2
    <2> QED BY <2>4
  <1>8. Styled(Relaid(d)) = StyledIn(d.edges, d.styles.edges)
    <2>1. \A i \in DOMAIN d.edges :
            Relaid(d).edges[i].id \in Relaid(d).styles.edges
              <=> d.edges[order[i]].id \in d.styles.edges
      BY <1>1, <1>6
    <2>2. ASSUME NEW i \in DOMAIN d.edges, Relaid(d).edges[i].id \in Relaid(d).styles.edges
          PROVE  \E k \in DOMAIN d.edges :
                    d.edges[k].id \in d.styles.edges /\ Relaid(d).edges[i].uid = d.edges[k].uid
      BY <1>5, <1>6, <2>1, <2>2
    <2>3. ASSUME NEW k \in DOMAIN d.edges, d.edges[k].id \in d.styles.edges
          PROVE  \E i \in DOMAIN d.edges :
                    /\ Relaid(d).edges[i].id \in Relaid(d).styles.edges
                    /\ Relaid(d).edges[i].uid = d.edges[k].uid
      BY <1>4, <1>6, <2>1, <2>3
    <2> QED BY <1>1, <2>2, <2>3 DEF Styled, StyledIn
  <1>9. ASSUME NEW next, Identified(d, next)
        PROVE  Identified(Relaid(d), next)
    <2>1. ASSUME NEW i \in DOMAIN d.edges, NEW j \in DOMAIN d.edges
          PROVE  /\ Relaid(d).edges[i].uid < next
                 /\ Relaid(d).edges[i].uid = Relaid(d).edges[j].uid => i = j
      <3>1. /\ d.edges[order[i]].uid < next
            /\ d.edges[order[i]].uid = d.edges[order[j]].uid => order[i] = order[j]
        BY <1>5, <1>9 DEF Identified
      <3> QED BY <1>3, <1>6, <3>1
    <2> QED BY <1>1, <2>1 DEF Identified
  <1> QED BY <1>7, <1>8, <1>9

\* Edges that are left out take their styles along ...
LEMMA GoUids ==
    ASSUME NEW edges \in Seq(Edge), NEW places \in SUBSET DOMAIN edges, NEW ids,
           \A i, j \in DOMAIN edges : edges[i].uid = edges[j].uid => i = j
    PROVE  /\ UidsIn(Kept(edges, places)) = {edges[i].uid : i \in places}
           /\ StyledIn(Kept(edges, places), ids)
                = StyledIn(edges, ids) \cap UidsIn(Kept(edges, places))
  <1> DEFINE kept == Kept(edges, places)
  <1>1. /\ \A p \in DOMAIN kept : \E k \in places : kept[p] = edges[k]
        /\ \A k \in places : \E p \in DOMAIN kept : kept[p] = edges[k]
    BY KeptFacts
  <1> HIDE DEF kept
  <1>2. ASSUME NEW u
        PROVE  /\ u \in UidsIn(kept) <=> \E k \in places : u = edges[k].uid
               /\ u \in StyledIn(kept, ids) <=>
                    \E k \in places : edges[k].id \in ids /\ u = edges[k].uid
               /\ u \in StyledIn(edges, ids) <=>
                    \E k \in DOMAIN edges : edges[k].id \in ids /\ u = edges[k].uid
    <2>1. u \in UidsIn(kept) <=> \E p \in DOMAIN kept : u = kept[p].uid
      BY DEF UidsIn
    <2>2. u \in StyledIn(kept, ids) <=>
            \E p \in DOMAIN kept : kept[p].id \in ids /\ u = kept[p].uid
      BY DEF StyledIn
    <2>3. u \in StyledIn(edges, ids) <=>
            \E k \in DOMAIN edges : edges[k].id \in ids /\ u = edges[k].uid
      BY DEF StyledIn
    <2> QED BY <1>1, <2>1, <2>2, <2>3
  <1>3. ASSUME NEW u PROVE u \in StyledIn(kept, ids) <=> u \in StyledIn(edges, ids) /\ u \in UidsIn(kept)
    <2>1. ASSUME u \in StyledIn(edges, ids), u \in UidsIn(kept) PROVE u \in StyledIn(kept, ids)
      <3>1. PICK k \in DOMAIN edges : edges[k].id \in ids /\ u = edges[k].uid
        BY <1>2, <2>1
      <3>2. PICK l \in places : u = edges[l].uid
        BY <1>2, <2>1
      <3>3. l = k
        BY <3>1, <3>2
      <3> QED BY <1>2, <3>1, <3>2, <3>3
    <2>2. ASSUME u \in StyledIn(kept, ids) PROVE u \in StyledIn(edges, ids) /\ u \in UidsIn(kept)
      BY <1>2, <2>2
    <2> QED BY <2>1, <2>2
  <1>4. UidsIn(kept) = {edges[i].uid : i \in places}
    BY <1>2
  <1>5. StyledIn(kept, ids) = StyledIn(edges, ids) \cap UidsIn(kept)
    BY <1>3
  <1> QED BY <1>4, <1>5 DEF kept

\* ... an altered edge keeps its style ...
LEMMA AlterUids ==
    ASSUME NEW edges \in Seq(Edge), NEW i \in DOMAIN edges, NEW e \in Edge, NEW ids,
           e.id = edges[i].id, e.uid = edges[i].uid
    PROVE  /\ UidsIn([edges EXCEPT ![i] = e]) = UidsIn(edges)
           /\ StyledIn([edges EXCEPT ![i] = e], ids) = StyledIn(edges, ids)
  <1> DEFINE altered == [edges EXCEPT ![i] = e]
  <1>1. /\ DOMAIN altered = DOMAIN edges
        /\ \A j \in DOMAIN edges : altered[j].id = edges[j].id /\ altered[j].uid = edges[j].uid
    OBVIOUS
  <1> HIDE DEF altered
  <1>2. UidsIn(altered) = UidsIn(edges)
    BY <1>1 DEF UidsIn
  <1>3. StyledIn(altered, ids) = StyledIn(edges, ids)
    BY <1>1 DEF StyledIn
  <1> QED BY <1>2, <1>3 DEF altered

\* ... and a new one whose id has no style is not styled.
LEMMA JoinUids ==
    ASSUME NEW edges \in Seq(Edge), NEW e \in Edge, NEW ids
    PROVE  /\ UidsIn(Append(edges, e)) = UidsIn(edges) \cup {e.uid}
           /\ e.id \notin ids => StyledIn(Append(edges, e), ids) = StyledIn(edges, ids)
  <1> DEFINE joined == Append(edges, e)
  <1>1. /\ DOMAIN joined = DOMAIN edges \cup {Len(edges) + 1}
        /\ \A j \in DOMAIN edges : joined[j] = edges[j]
        /\ joined[Len(edges) + 1] = e
    OBVIOUS
  <1> HIDE DEF joined
  <1>2. ASSUME NEW u
        PROVE  u \in UidsIn(joined) <=> u \in UidsIn(edges) \/ u = e.uid
    <2>1. u \in UidsIn(joined) <=> \E j \in DOMAIN joined : u = joined[j].uid
      BY DEF UidsIn
    <2>2. u \in UidsIn(edges) <=> \E j \in DOMAIN edges : u = edges[j].uid
      BY DEF UidsIn
    <2> QED BY <1>1, <2>1, <2>2
  <1>3. ASSUME e.id \notin ids, NEW u
        PROVE  u \in StyledIn(joined, ids) <=> u \in StyledIn(edges, ids)
    <2>1. u \in StyledIn(joined, ids)
            <=> \E j \in DOMAIN joined : joined[j].id \in ids /\ u = joined[j].uid
      BY DEF StyledIn
    <2>2. u \in StyledIn(edges, ids)
            <=> \E j \in DOMAIN edges : edges[j].id \in ids /\ u = edges[j].uid
      BY DEF StyledIn
    <2> QED BY <1>1, <1>3, <2>1, <2>2
  <1>4. UidsIn(joined) = UidsIn(edges) \cup {e.uid}
    BY <1>2
  <1>5. e.id \notin ids => StyledIn(joined, ids) = StyledIn(edges, ids)
    BY <1>3
  <1> QED BY <1>4, <1>5 DEF joined

\* Uids that differ and are below next, among edges.
Apart(edges, next) ==
    \A i, j \in DOMAIN edges :
        /\ edges[i].uid < next
        /\ edges[i].uid = edges[j].uid => i = j

\* What a step makes of the edges takes none for another.
LEMMA FormApart ==
    ASSUME Settled(doc), steps \in Nat, Identified(doc, 100 + steps), NEW edges, NEW reported,
           \/ EdgesStay(edges, reported) \/ EdgesGo(edges, reported)
           \/ EdgeAlters(edges, reported) \/ EdgeJoins(edges, reported)
    PROVE  Apart(edges, 100 + (steps + 1))
  <1>1. doc.edges \in Seq(Edge) /\ Apart(doc.edges, 100 + steps)
    BY DocParts DEF Identified, Apart
  <1>2. ASSUME NEW i \in DOMAIN doc.edges PROVE doc.edges[i].uid \in Nat
    <2>1. doc.edges[i] \in Edge
      BY <1>1
    <2> QED BY <2>1 DEF Edge
  <1>3. \A i, j \in DOMAIN doc.edges :
          /\ doc.edges[i].uid < 100 + steps
          /\ doc.edges[i].uid < 100 + (steps + 1)
          /\ doc.edges[i].uid = doc.edges[j].uid => i = j
    BY <1>1, <1>2 DEF Apart
  <1>4. CASE EdgesStay(edges, reported)
    BY <1>3, <1>4 DEF EdgesStay, Apart
  <1>5. CASE EdgesGo(edges, reported)
    <2>1. PICK places \in SUBSET DOMAIN doc.edges : edges = Kept(doc.edges, places)
      BY <1>5 DEF EdgesGo
    <2>2. \A p \in DOMAIN edges : \E k \in places : edges[p] = doc.edges[k]
      BY <1>1, <2>1, KeptFacts
    <2>5. \A i, j \in DOMAIN doc.edges : doc.edges[i].uid = doc.edges[j].uid => i = j
      BY <1>3
    <2>3. \A p, q \in DOMAIN edges : edges[p].uid = edges[q].uid => p = q
      <3>1. \A p, q \in DOMAIN Kept(doc.edges, places) :
               Kept(doc.edges, places)[p].uid = Kept(doc.edges, places)[q].uid => p = q
        BY <1>1, <2>5, KeptFacts
      <3> QED BY <2>1, <3>1
    <2>4. \A p \in DOMAIN edges : edges[p].uid < 100 + (steps + 1)
      BY <1>3, <2>2
    <2> QED BY <2>3, <2>4 DEF Apart
  <1>6. CASE EdgeAlters(edges, reported)
    <2>1. PICK i \in DOMAIN doc.edges, e \in Edge :
            edges = [doc.edges EXCEPT ![i] = e] /\ e.uid = doc.edges[i].uid
      BY <1>6 DEF EdgeAlters, Altered
    <2>2. DOMAIN edges = DOMAIN doc.edges /\ \A j \in DOMAIN edges : edges[j].uid = doc.edges[j].uid
      BY <1>1, <2>1
    <2> QED BY <1>3, <2>2 DEF Apart
  <1>7. CASE EdgeJoins(edges, reported)
    <2>1. PICK e \in Edge : edges = Append(doc.edges, e) /\ e.uid = 100 + steps
      BY <1>7 DEF EdgeJoins
    <2>2. /\ DOMAIN edges = DOMAIN doc.edges \cup {Len(doc.edges) + 1}
          /\ \A j \in DOMAIN doc.edges : edges[j] = doc.edges[j]
          /\ edges[Len(doc.edges) + 1] = e
      BY <1>1, <2>1
    <2>3. ASSUME NEW i \in DOMAIN edges, NEW j \in DOMAIN edges
          PROVE  /\ edges[i].uid < 100 + (steps + 1)
                 /\ edges[i].uid = edges[j].uid => i = j
      <3>1. CASE i \in DOMAIN doc.edges /\ j \in DOMAIN doc.edges
        BY <1>3, <2>2, <3>1
      <3>2. CASE i \in DOMAIN doc.edges /\ j = Len(doc.edges) + 1
        BY <1>2, <1>3, <2>1, <2>2, <3>2
      <3>3. CASE i = Len(doc.edges) + 1 /\ j \in DOMAIN doc.edges
        BY <1>2, <1>3, <2>1, <2>2, <3>3
      <3>4. CASE i = Len(doc.edges) + 1 /\ j = Len(doc.edges) + 1
        BY <2>1, <2>2, <3>4
      <3> QED BY <2>2, <3>1, <3>2, <3>3, <3>4
    <2> QED BY <2>3 DEF Apart
  <1> QED BY <1>4, <1>5, <1>6, <1>7

\* What a step makes of the edges leaves each its style.
LEMMA FormStyled ==
    ASSUME Settled(doc), Identified(doc, 100 + steps), NoStaleStyle(doc), NEW edges, NEW reported,
           \/ EdgesStay(edges, reported) \/ EdgesGo(edges, reported)
           \/ EdgeAlters(edges, reported) \/ EdgeJoins(edges, reported),
           reported.kind = AddedKind => \A i \in DOMAIN doc.edges : doc.edges[i].id # reported.edge
    PROVE  StyledIn(edges, doc.styles.edges) = Styled(doc) \cap UidsIn(edges)
  <1> DEFINE ids == doc.styles.edges
  <1>1. doc.edges \in Seq(Edge)
    BY DocParts
  <1>2. \A i, j \in DOMAIN doc.edges : doc.edges[i].uid = doc.edges[j].uid => i = j
    BY DEF Identified
  <1>3. Styled(doc) = StyledIn(doc.edges, ids)
    BY UidsByEdges
  <1>4. StyledIn(doc.edges, ids) \subseteq UidsIn(doc.edges)
    BY DEF StyledIn, UidsIn
  <1>5. CASE EdgesStay(edges, reported)
    BY <1>3, <1>4, <1>5 DEF EdgesStay
  <1>6. CASE EdgesGo(edges, reported)
    <2>1. PICK places \in SUBSET DOMAIN doc.edges : edges = Kept(doc.edges, places)
      BY <1>6 DEF EdgesGo
    <2>2. StyledIn(Kept(doc.edges, places), ids)
            = StyledIn(doc.edges, ids) \cap UidsIn(Kept(doc.edges, places))
      BY <1>1, <1>2, GoUids
    <2> QED BY <1>3, <2>1, <2>2
  <1>7. CASE EdgeAlters(edges, reported)
    <2>1. PICK i \in DOMAIN doc.edges, e \in Edge :
            /\ edges = [doc.edges EXCEPT ![i] = e]
            /\ e.id = doc.edges[i].id /\ e.uid = doc.edges[i].uid
      BY <1>7 DEF EdgeAlters, Altered
    <2>2. UidsIn(edges) = UidsIn(doc.edges) /\ StyledIn(edges, ids) = StyledIn(doc.edges, ids)
      BY <1>1, <2>1, AlterUids
    <2> QED BY <1>3, <1>4, <2>2
  <1>8. CASE EdgeJoins(edges, reported)
    <2>1. PICK e \in Edge : /\ edges = Append(doc.edges, e)
                            /\ reported.kind = AddedKind /\ reported.edge = e.id
      BY <1>8 DEF EdgeJoins
    <2>2. e.id \notin ids
      BY <2>1 DEF NoStaleStyle
    <2>3. UidsIn(edges) = UidsIn(doc.edges) \cup {e.uid} /\ StyledIn(edges, ids) = StyledIn(doc.edges, ids)
      BY <1>1, <2>1, <2>2, JoinUids
    <2> QED BY <1>3, <1>4, <2>3
  <1> QED BY <1>5, <1>6, <1>7, <1>8

\* Where ids are unique, one edge has an edge's id.
LEMMA NamedOne ==
    ASSUME NEW d, IsDocument(d), NEW i \in DOMAIN d.edges
    PROVE  Named(d, d.edges[i].id) = {d.edges[i].uid}
  BY DEF Named, IsDocument

\* Where ids are positions, a relayout moves no edge.
LEMMA RelaidInPlace ==
    ASSUME NEW c, HasShape(c), Dense(c)
    PROVE  /\ DOMAIN Relaid(c).edges = DOMAIN c.edges
           /\ \A i \in DOMAIN c.edges : /\ Relaid(c).edges[i].uid = c.edges[i].uid
                                        /\ Relaid(c).edges[i].id = i - 1
  <1>1. PICK order \in [DOMAIN c.edges -> DOMAIN c.edges] :
          /\ DOMAIN Relaid(c).edges = DOMAIN c.edges
          /\ \A i \in DOMAIN c.edges : Relaid(c).edges[i] = [c.edges[order[i]] EXCEPT !.id = i - 1]
          /\ Dense(c) => \A i \in DOMAIN c.edges : order[i] = i
    BY RelaidOrder
  <1>2. \A i \in DOMAIN c.edges : Relaid(c).edges[i] = [c.edges[i] EXCEPT !.id = i - 1]
    BY <1>1
  <1>3. \A i \in DOMAIN c.edges : c.edges[i] \in Edge
    BY DEF HasShape
  <1>4. ASSUME NEW i \in DOMAIN c.edges
        PROVE  Relaid(c).edges[i].uid = c.edges[i].uid /\ Relaid(c).edges[i].id = i - 1
    BY <1>2, <1>3 DEF Edge
  <1> QED BY <1>1, <1>4

\* The id a new edge is reported under is its own, where ids are positions.
LEMMA AddedIsNamed ==
    ASSUME Settled(doc), steps \in Nat, Identified(doc, 100 + steps), Dense(doc),
           NEW c, HasShape(c), EdgeJoins(c.edges, event'), doc' = Relaid(c), Settled(doc')
    PROVE  Named(doc', event'.edge) = Uids(doc') \ Uids(doc)
  <1>1. PICK e \in Edge :
          /\ c.edges = Append(doc.edges, e)
          /\ e.id = NewEdgeId(doc) /\ e.uid = 100 + steps
          /\ event'.edge = e.id
    BY DEF EdgeJoins
  <1>2. doc.edges \in Seq(Edge)
    BY DocParts
  <1> DEFINE new == Len(doc.edges) + 1
  <1>3. /\ DOMAIN c.edges = DOMAIN doc.edges \cup {new} /\ new \in Nat
        /\ \A j \in DOMAIN doc.edges : c.edges[j] = doc.edges[j]
        /\ c.edges[new] = e
    BY <1>1, <1>2
  <1>4. e.id = new - 1
    BY <1>1, <1>2 DEF NewEdgeId
  <1>5. Dense(c)
    <2> HIDE DEF new
    <2> QED BY <1>3, <1>4 DEF Dense
  <1>6. /\ DOMAIN doc'.edges = DOMAIN c.edges
        /\ doc'.edges[new].uid = e.uid /\ doc'.edges[new].id = e.id
    <2> HIDE DEF new
    <2> QED BY <1>3, <1>4, <1>5, RelaidInPlace
  <1>7. Named(doc', e.id) = {e.uid}
    <2>1. IsDocument(doc')
      BY DEF Settled
    <2>2. new \in DOMAIN doc'.edges
      BY <1>3, <1>6
    <2>3. Named(doc', doc'.edges[new].id) = {doc'.edges[new].uid}
      BY <2>1, <2>2, NamedOne
    <2> QED BY <1>6, <2>3
  <1>8. Uids(doc') = UidsIn(doc.edges) \cup {e.uid}
    BY <1>1, <1>2, RelaidUids, JoinUids
  <1>9. e.uid \notin UidsIn(doc.edges)
    <2>1. ASSUME NEW i \in DOMAIN doc.edges PROVE doc.edges[i].uid # e.uid
      <3>1. doc.edges[i].uid < 100 + steps
        BY DEF Identified
      <3>2. doc.edges[i] \in Edge
        BY <1>2
      <3> QED BY <1>1, <3>1, <3>2 DEF Edge
    <2> QED BY <2>1 DEF UidsIn
  <1>10. Uids(doc) = UidsIn(doc.edges)
    BY UidsByEdges
  <1> QED BY <1>1, <1>7, <1>8, <1>9, <1>10

\* ... that of a removed edge was its own ...
LEMMA RemovedIsNamed ==
    ASSUME Settled(doc), Identified(doc, 100 + steps), event'.kind = RemovedKind,
           NEW c, HasShape(c), EdgesGo(c.edges, event'), doc' = Relaid(c)
    PROVE  Named(doc, event'.edge) = Uids(doc) \ Uids(doc')
  <1>1. PICK i \in DOMAIN doc.edges :
          c.edges = Kept(doc.edges, DOMAIN doc.edges \ {i}) /\ event'.edge = doc.edges[i].id
    BY DEF EdgesGo
  <1> DEFINE others == DOMAIN doc.edges \ {i}
  <1>2. doc.edges \in Seq(Edge)
    BY DocParts
  <1>3. \A j, k \in DOMAIN doc.edges : doc.edges[j].uid = doc.edges[k].uid => j = k
    BY DEF Identified
  <1>4. UidsIn(Kept(doc.edges, others)) = {doc.edges[k].uid : k \in others}
    BY <1>2, <1>3, GoUids
  <1>5. Uids(doc') = {doc.edges[k].uid : k \in others}
    BY <1>1, <1>4, RelaidUids
  <1>6. Named(doc, event'.edge) = {doc.edges[i].uid}
    BY <1>1, NamedOne DEF Settled
  <1>7. Uids(doc) \ Uids(doc') = {doc.edges[i].uid}
    BY <1>3, <1>5 DEF Uids
  <1> QED BY <1>6, <1>7

\* ... and that of an altered one is its own before and after.
LEMMA AlteredIsNamed ==
    ASSUME Settled(doc), Dense(doc), NEW c, HasShape(c), EdgeAlters(c.edges, event'),
           doc' = Relaid(c), Settled(doc')
    PROVE  /\ Named(doc, event'.edge) = Named(doc', event'.edge)
           /\ Named(doc, event'.edge) # {}
  <1>1. PICK i \in DOMAIN doc.edges, e \in Edge :
          /\ c.edges = [doc.edges EXCEPT ![i] = e]
          /\ e.id = doc.edges[i].id /\ e.uid = doc.edges[i].uid
          /\ event'.edge = doc.edges[i].id
    BY DEF EdgeAlters, Altered
  <1>2. doc.edges \in Seq(Edge)
    BY DocParts
  <1>3. /\ DOMAIN c.edges = DOMAIN doc.edges
        /\ \A j \in DOMAIN doc.edges : c.edges[j].id = doc.edges[j].id
        /\ c.edges[i].uid = doc.edges[i].uid
    BY <1>1, <1>2
  <1>4. Dense(c) /\ doc.edges[i].id = i - 1
    BY <1>3 DEF Dense
  <1>5. /\ i \in DOMAIN doc'.edges
        /\ doc'.edges[i].uid = doc.edges[i].uid /\ doc'.edges[i].id = doc.edges[i].id
    BY <1>3, <1>4, RelaidInPlace
  <1>6. Named(doc, doc.edges[i].id) = {doc.edges[i].uid}
    BY NamedOne DEF Settled
  <1>7. Named(doc', doc'.edges[i].id) = {doc'.edges[i].uid}
    BY <1>5, NamedOne DEF Settled
  <1> QED BY <1>1, <1>5, <1>6, <1>7

-----------------------------------------------------------------------------
(* The diff of two documents that are one step apart.                      *)

\* The places of the edges that are in both documents.
Own(b, a) ==
    {p \in (DOMAIN b.edges) \X (DOMAIN a.edges) : b.edges[p[1]].uid = a.edges[p[2]].uid}

Same(e, f) == SameEnds(e, f) /\ Look(e) = Look(f)

\* The pairs in Own whose edges are the same are enough to leave nothing open on one
\* of the sides, or but the two ends of another such pair.
Settling(b, a) ==
    \A i \in DOMAIN b.edges, j \in DOMAIN a.edges :
        \/ \E l \in DOMAIN a.edges : <<i, l>> \in Own(b, a) /\ Same(b.edges[i], a.edges[l])
        \/ \E k \in DOMAIN b.edges : <<k, j>> \in Own(b, a) /\ Same(b.edges[k], a.edges[j])
        \/ <<i, j>> \in Own(b, a)

\* What may differ between the two edges of a pair: nothing, or no more than a command
\* alters.
Unaltered(b, a) == \A p \in Own(b, a) : Same(b.edges[p[1]], a.edges[p[2]])
Alike(e, f) ==
    \/ Look(e) = Look(f)
    \/ SameEnds(e, f) /\ (e.label = f.label \/ e.stroke = f.stroke)
OwnAreAlike(b, a) == \A p \in Own(b, a) : Alike(b.edges[p[1]], a.edges[p[2]])
Related(b, a) ==
    /\ OwnAreAlike(b, a)
    /\ \A p \in Own(b, a) :
        LET e == b.edges[p[1]]
            f == a.edges[p[2]]
        IN  \/ SameEnds(e, f)
            \/ {e.source, e.target, f.source, f.target} \subseteq DOMAIN b.nodes \cap DOMAIN a.nodes

UidsDiffer(d) == \A i, j \in DOMAIN d.edges : d.edges[i].uid = d.edges[j].uid => i = j

\* No place is in two pairs, so that none of them is dropped as ambiguous ...
LEMMA OwnIsUnique ==
    ASSUME NEW b, NEW a, UidsDiffer(b), UidsDiffer(a)
    PROVE  /\ \A p, q \in Own(b, a) : (p[1] = q[1] \/ p[2] = q[2]) => p = q
           /\ \A S \in SUBSET Own(b, a) : UniquePairs(S) = S
  <1>1. ASSUME NEW p \in Own(b, a), NEW q \in Own(b, a), p[1] = q[1] \/ p[2] = q[2]
        PROVE  p = q
    <2>1. /\ p = <<p[1], p[2]>> /\ q = <<q[1], q[2]>>
          /\ p[1] \in DOMAIN b.edges /\ q[1] \in DOMAIN b.edges
          /\ p[2] \in DOMAIN a.edges /\ q[2] \in DOMAIN a.edges
          /\ b.edges[p[1]].uid = a.edges[p[2]].uid /\ b.edges[q[1]].uid = a.edges[q[2]].uid
      BY DEF Own
    <2>2. p[1] = q[1] /\ p[2] = q[2]
      BY <1>1, <2>1 DEF UidsDiffer
    <2> QED BY <2>1, <2>2
  <1>2. ASSUME NEW S \in SUBSET Own(b, a) PROVE UniquePairs(S) = S
    BY <1>1 DEF UniquePairs
  <1> QED BY <1>1, <1>2

\* ... and one that is not among pairs of that kind is open.
LEMMA OpenOrThere ==
    ASSUME NEW b, NEW a, UidsDiffer(b), UidsDiffer(a), NEW P \in SUBSET Own(b, a),
           NEW p \in Own(b, a)
    PROVE  p \in P \/ p \in OpenBefore(b, P) \X OpenAfter(a, P)
  <1>1. p = <<p[1], p[2]>> /\ p[1] \in DOMAIN b.edges /\ p[2] \in DOMAIN a.edges
    BY DEF Own
  <1>2. \A q \in P : (q[1] = p[1] \/ q[2] = p[2]) => q = p
    BY OwnIsUnique
  <1> QED BY <1>1, <1>2 DEF OpenBefore, OpenAfter

\* More pairs leave less open.
LEMMA OpenShrinks ==
    ASSUME NEW b, NEW a, NEW P, NEW Q, P \subseteq Q
    PROVE  OpenBefore(b, Q) \X OpenAfter(a, Q) \subseteq OpenBefore(b, P) \X OpenAfter(a, P)
  BY DEF OpenBefore, OpenAfter

\* An id that two documents share is one edge's, if it is alone between its nodes.
LEMMA SameIdIsOwn ==
    ASSUME NEW b, NEW a, Settling(b, a)
    PROVE  SameId(b, a) \subseteq Own(b, a)
  <1> SUFFICES ASSUME NEW p \in SameId(b, a) PROVE p \in Own(b, a)
    OBVIOUS
  <1>1. PICK i \in DOMAIN b.edges, j \in DOMAIN a.edges : p = <<i, j>>
    BY DEF SameId
  <1>2. SameEnds(b.edges[i], a.edges[j]) /\ Alone(b.edges, i) /\ Alone(a.edges, j)
    BY <1>1 DEF SameId
  <1>3. CASE \E l \in DOMAIN a.edges : <<i, l>> \in Own(b, a) /\ Same(b.edges[i], a.edges[l])
    <2>1. PICK l \in DOMAIN a.edges : <<i, l>> \in Own(b, a) /\ Same(b.edges[i], a.edges[l])
      BY <1>3
    <2>2. l = j
      BY <1>2, <2>1 DEF Same, SameEnds, Alone
    <2> QED BY <1>1, <2>1, <2>2
  <1>4. CASE \E k \in DOMAIN b.edges : <<k, j>> \in Own(b, a) /\ Same(b.edges[k], a.edges[j])
    <2>1. PICK k \in DOMAIN b.edges : <<k, j>> \in Own(b, a) /\ Same(b.edges[k], a.edges[j])
      BY <1>4
    <2>2. k = i
      BY <1>2, <2>1 DEF Same, SameEnds, Alone
    <2> QED BY <1>1, <2>1, <2>2
  <1> QED BY <1>1, <1>3, <1>4 DEF Settling

\* The same nodes and look are one edge's, where these tell edges apart.
LEMMA SameLookIsOwn ==
    ASSUME NEW b, NEW a, Settling(b, a), Distinguishable(b), Distinguishable(a),
           NEW i \in DOMAIN b.edges, NEW j \in DOMAIN a.edges, Same(b.edges[i], a.edges[j])
    PROVE  <<i, j>> \in Own(b, a)
  <1>1. CASE \E l \in DOMAIN a.edges : <<i, l>> \in Own(b, a) /\ Same(b.edges[i], a.edges[l])
    <2>1. PICK l \in DOMAIN a.edges : <<i, l>> \in Own(b, a) /\ Same(b.edges[i], a.edges[l])
      BY <1>1
    <2>2. SameEnds(a.edges[l], a.edges[j]) /\ Look(a.edges[l]) = Look(a.edges[j])
      BY <2>1 DEF Same, SameEnds
    <2> QED BY <2>1, <2>2 DEF Distinguishable
  <1>2. CASE \E k \in DOMAIN b.edges : <<k, j>> \in Own(b, a) /\ Same(b.edges[k], a.edges[j])
    <2>1. PICK k \in DOMAIN b.edges : <<k, j>> \in Own(b, a) /\ Same(b.edges[k], a.edges[j])
      BY <1>2
    <2>2. SameEnds(b.edges[k], b.edges[i]) /\ Look(b.edges[k]) = Look(b.edges[i])
      BY <2>1 DEF Same, SameEnds
    <2> QED BY <2>1, <2>2 DEF Distinguishable
  <1> QED BY <1>1, <1>2 DEF Settling

\* Every rule adds pairs in Own and, one rule after the other, they add all of them.
LEMMA DiffIsOwn ==
    ASSUME NEW b, NEW a, UidsDiffer(b), UidsDiffer(a), Settling(b, a), Related(b, a),
           Distinguishable(b), Distinguishable(a), KeepsAnEnd(b, a)
    PROVE  Matches(b, a) = Own(b, a)
  <1> DEFINE U == Own(b, a)
             open(P) == OpenBefore(b, P) \X OpenAfter(a, P)
             ids == SameId(b, a)
             looks == PairedBy(ids, b, a, Look)
             labels == PairedBy(looks, b, a, LabelOf)
             strokes == PairedBy(labels, b, a, StrokeOf)
             ordered == PairedInOrder(strokes, b, a)
             byId == ReconnectedById(ordered, b, a)
             byLook == ReconnectedByLook(byId, b, a)
  <1>1. Matches(b, a) = byLook
    BY DEF Matches
  <1>2. \A S \in SUBSET U : UniquePairs(S) = S
    BY OwnIsUnique
  <1>3. ids \subseteq U
    BY SameIdIsOwn
  <1> DEFINE looksAdded == {p \in open(ids) : /\ SameEnds(b.edges[p[1]], a.edges[p[2]])
                                               /\ Look(b.edges[p[1]]) = Look(a.edges[p[2]])}
  <1>4. looksAdded \subseteq U
    <2> SUFFICES ASSUME NEW p \in looksAdded PROVE p \in U
      OBVIOUS
    <2>1. PICK i \in DOMAIN b.edges, j \in DOMAIN a.edges : p = <<i, j>>
      BY DEF OpenBefore, OpenAfter
    <2>2. Same(b.edges[i], a.edges[j])
      BY <2>1 DEF Same
    <2> QED BY <2>1, <2>2, SameLookIsOwn
  <1>5. looks = ids \cup looksAdded
    <2>1. looks = ids \cup UniquePairs(looksAdded)
      BY DEF PairedBy
    <2> QED BY <1>2, <1>4, <2>1
  <1>6. looks \subseteq U
    BY <1>3, <1>4, <1>5
  <1> HIDE DEF looks
  <1>7. ASSUME NEW p \in U, Same(b.edges[p[1]], a.edges[p[2]])
        PROVE  p \in looks
    <2>1. p \in ids \/ p \in open(ids)
      BY <1>3, OpenOrThere
    <2> QED BY <1>5, <1>7, <2>1 DEF Same
  <1>8. open(looks) \subseteq U
    <2> SUFFICES ASSUME NEW i \in OpenBefore(b, looks), NEW j \in OpenAfter(a, looks)
                 PROVE  <<i, j>> \in U
      OBVIOUS
    <2>1. /\ i \in DOMAIN b.edges /\ j \in DOMAIN a.edges
          /\ \A q \in looks : q[1] # i /\ q[2] # j
      BY DEF OpenBefore, OpenAfter
    <2>2. \A l \in DOMAIN a.edges : ~(<<i, l>> \in U /\ Same(b.edges[i], a.edges[l]))
      <3> SUFFICES ASSUME NEW l \in DOMAIN a.edges, <<i, l>> \in U, Same(b.edges[i], a.edges[l])
                   PROVE  FALSE
        OBVIOUS
      <3>1. <<i, l>> \in looks
        BY <1>7
      <3> QED BY <2>1, <3>1
    <2>3. \A k \in DOMAIN b.edges : ~(<<k, j>> \in U /\ Same(b.edges[k], a.edges[j]))
      <3> SUFFICES ASSUME NEW k \in DOMAIN b.edges, <<k, j>> \in U, Same(b.edges[k], a.edges[j])
                   PROVE  FALSE
        OBVIOUS
      <3>1. <<k, j>> \in looks
        BY <1>7
      <3> QED BY <2>1, <3>1
    <2> QED BY <2>1, <2>2, <2>3 DEF Settling
  <1> DEFINE labelsAdded == {p \in open(looks) : /\ SameEnds(b.edges[p[1]], a.edges[p[2]])
                                                  /\ LabelOf(b.edges[p[1]]) = LabelOf(a.edges[p[2]])}
  <1>9. labels = looks \cup labelsAdded /\ labels \subseteq U
    <2>1. labels = looks \cup UniquePairs(labelsAdded)
      BY DEF PairedBy
    <2> QED BY <1>2, <1>6, <1>8, <2>1
  <1> HIDE DEF labels
  <1>10. open(labels) \subseteq open(looks)
    BY <1>9, OpenShrinks
  <1> DEFINE strokesAdded == {p \in open(labels) : /\ SameEnds(b.edges[p[1]], a.edges[p[2]])
                                                    /\ StrokeOf(b.edges[p[1]]) = StrokeOf(a.edges[p[2]])}
  <1>11. strokes = labels \cup strokesAdded /\ strokes \subseteq U
    <2>1. strokes = labels \cup UniquePairs(strokesAdded)
      BY DEF PairedBy
    <2>2. strokesAdded \subseteq U
      BY <1>8, <1>10
    <2>3. UniquePairs(strokesAdded) = strokesAdded
      BY <1>2, <2>2
    <2> HIDE DEF strokesAdded
    <2> QED BY <1>9, <2>1, <2>2, <2>3
  <1> HIDE DEF strokes
  <1>12. open(strokes) \subseteq U
    BY <1>8, <1>10, <1>11, OpenShrinks
  <1>13. strokes \subseteq ordered /\ ordered \subseteq U
    BY <1>11, <1>12 DEF PairedInOrder
  <1> HIDE DEF ordered
  <1>14. open(ordered) \subseteq U
    BY <1>12, <1>13, OpenShrinks
  <1>15. Reconnectable(ordered, b, a) \subseteq U
    BY <1>14 DEF Reconnectable
  <1>16. ordered \subseteq byId /\ byId \subseteq U
    <2>1. UniquePairs(Reconnectable(ordered, b, a)) \subseteq U
      BY <1>2, <1>15
    <2> QED BY <1>13, <2>1 DEF ReconnectedById
  <1> HIDE DEF byId
  <1>17. Reconnectable(byId, b, a) \subseteq U
    <2>1. open(byId) \subseteq U
      BY <1>14, <1>16, OpenShrinks
    <2> QED BY <2>1 DEF Reconnectable
  <1> DEFINE lookAlike == {p \in Reconnectable(byId, b, a) :
                             Look(b.edges[p[1]]) = Look(a.edges[p[2]])}
  <1>18. byLook = byId \cup lookAlike /\ byLook \subseteq U
    <2>1. byLook = byId \cup UniquePairs(lookAlike)
      BY DEF ReconnectedByLook
    <2> QED BY <1>2, <1>16, <1>17, <2>1
  <1> HIDE DEF byLook
  <1>19. ASSUME NEW p \in U PROVE p \in byLook
    <2> DEFINE e == b.edges[p[1]]
               f == a.edges[p[2]]
    <2>1. /\ \/ Look(e) = Look(f)
             \/ SameEnds(e, f) /\ (e.label = f.label \/ e.stroke = f.stroke)
          /\ \/ SameEnds(e, f)
             \/ {e.source, e.target, f.source, f.target} \subseteq DOMAIN b.nodes \cap DOMAIN a.nodes
      BY DEF Related, OwnAreAlike, Alike
    <2>2. e.source = f.source \/ e.target = f.target
      BY DEF Own, KeepsAnEnd
    <2>3. strokes \subseteq byLook
      BY <1>13, <1>16, <1>18
    <2>4. CASE SameEnds(e, f) /\ e.label = f.label
      <3>1. p \in looks \/ p \in open(looks)
        BY <1>6, OpenOrThere
      <3>2. p \in labels
        BY <1>9, <2>4, <3>1 DEF LabelOf
      <3> QED BY <1>11, <2>3, <3>2
    <2>5. CASE SameEnds(e, f) /\ e.stroke = f.stroke
      <3>1. p \in labels \/ p \in open(labels)
        BY <1>9, OpenOrThere
      <3>2. p \in strokes
        BY <1>11, <2>5, <3>1 DEF StrokeOf
      <3> QED BY <2>3, <3>2
    <2>6. CASE ~SameEnds(e, f)
      <3>1. p \in byId \/ p \in open(byId)
        BY <1>16, OpenOrThere
      <3>2. SharesOneEnd(e, f)
        BY <2>2, <2>6 DEF SharesOneEnd, SameEnds
      <3>3. Look(e) = Look(f)
        BY <2>1, <2>6
      <3>4. p \in open(byId) => p \in Reconnectable(byId, b, a)
        BY <2>1, <2>6, <3>2 DEF Reconnectable
      <3> QED BY <1>18, <3>1, <3>3, <3>4
    <2>7. Look(e) = Look(f) => e.label = f.label
      BY DEF Look
    <2> QED BY <2>1, <2>4, <2>5, <2>6, <2>7
  <1> QED BY <1>1, <1>18, <1>19

\* The edges of d are these, under ids of their own.
Like(e, f) == e.uid = f.uid /\ Same(e, f)
Carries(d, edges) ==
    /\ \A j \in DOMAIN d.edges : \E k \in DOMAIN edges : Like(edges[k], d.edges[j])
    /\ \A k \in DOMAIN edges : \E j \in DOMAIN d.edges : Like(edges[k], d.edges[j])

\* A relayout carries every edge over as it is, but for its number.
LEMMA RelaidCarries ==
    ASSUME NEW c, HasShape(c)
    PROVE  Carries(Relaid(c), c.edges)
  <1>1. PICK order \in [DOMAIN c.edges -> DOMAIN c.edges] :
          /\ Enumerates(order, Len(c.edges), DOMAIN c.edges)
          /\ DOMAIN Relaid(c).edges = DOMAIN c.edges
          /\ \A i \in DOMAIN c.edges : Relaid(c).edges[i] = [c.edges[order[i]] EXCEPT !.id = i - 1]
    BY RelaidOrder
  <1>2. c.edges \in Seq(Edge)
    BY DEF HasShape
  <1>3. \A k \in DOMAIN c.edges : \E i \in DOMAIN c.edges : order[i] = k
    BY <1>1, <1>2 DEF Enumerates
  <1>4. ASSUME NEW i \in DOMAIN c.edges
        PROVE  order[i] \in DOMAIN c.edges /\ Like(c.edges[order[i]], Relaid(c).edges[i])
    <2>1. order[i] \in DOMAIN c.edges /\ c.edges[order[i]] \in Edge
      BY <1>2
    <2> QED BY <1>1, <2>1 DEF Edge, Like, Same, SameEnds, Look
  <1> QED BY <1>1, <1>3, <1>4 DEF Carries

\* A step that drops edges at most leaves every edge after it the one it was ...
LEMMA GoneSettles ==
    ASSUME Settled(doc), UidsDiffer(doc), NEW edges, NEW reported,
           EdgesStay(edges, reported) \/ EdgesGo(edges, reported), NEW a, Carries(a, edges)
    PROVE  Settling(doc, a) /\ Unaltered(doc, a)
  <1>1. doc.edges \in Seq(Edge)
    BY DocParts
  <1>2. \A k \in DOMAIN edges : \E m \in DOMAIN doc.edges : edges[k] = doc.edges[m]
    <2>1. CASE EdgesStay(edges, reported)
      BY <2>1 DEF EdgesStay
    <2>2. CASE EdgesGo(edges, reported)
      BY <1>1, <2>2, KeptFacts DEF EdgesGo
    <2> QED BY <2>1, <2>2
  <1>3. ASSUME NEW j \in DOMAIN a.edges
        PROVE  \E m \in DOMAIN doc.edges : Like(doc.edges[m], a.edges[j])
    BY <1>2 DEF Carries
  <1>4. Settling(doc, a)
    <2> SUFFICES ASSUME NEW i \in DOMAIN doc.edges, NEW j \in DOMAIN a.edges
                 PROVE  \E k \in DOMAIN doc.edges :
                           <<k, j>> \in Own(doc, a) /\ Same(doc.edges[k], a.edges[j])
      BY DEF Settling
    <2> QED BY <1>3 DEF Like, Own
  <1>5. ASSUME NEW p \in Own(doc, a) PROVE Same(doc.edges[p[1]], a.edges[p[2]])
    <2>1. /\ p[1] \in DOMAIN doc.edges /\ p[2] \in DOMAIN a.edges
          /\ doc.edges[p[1]].uid = a.edges[p[2]].uid
      BY DEF Own
    <2>2. PICK m \in DOMAIN doc.edges : Like(doc.edges[m], a.edges[p[2]])
      BY <1>3, <2>1
    <2>3. m = p[1]
      BY <2>1, <2>2 DEF Like, UidsDiffer
    <2> QED BY <2>2, <2>3 DEF Like
  <1> QED BY <1>4, <1>5 DEF Unaltered

\* ... one that adds an edge leaves every edge before it the one it was ...
LEMMA JoinSettles ==
    ASSUME Settled(doc), NEW edges, NEW reported, EdgeJoins(edges, reported),
           NEW a, Carries(a, edges), UidsDiffer(a)
    PROVE  Settling(doc, a) /\ Unaltered(doc, a)
  <1>1. doc.edges \in Seq(Edge)
    BY DocParts
  <1>2. \A i \in DOMAIN doc.edges : i \in DOMAIN edges /\ edges[i] = doc.edges[i]
    BY <1>1 DEF EdgeJoins
  <1>3. ASSUME NEW i \in DOMAIN doc.edges
        PROVE  \E j \in DOMAIN a.edges : Like(doc.edges[i], a.edges[j])
    BY <1>2 DEF Carries
  <1>4. Settling(doc, a)
    <2> SUFFICES ASSUME NEW i \in DOMAIN doc.edges, NEW j \in DOMAIN a.edges
                 PROVE  \E l \in DOMAIN a.edges :
                           <<i, l>> \in Own(doc, a) /\ Same(doc.edges[i], a.edges[l])
      BY DEF Settling
    <2> QED BY <1>3 DEF Like, Own
  <1>5. ASSUME NEW p \in Own(doc, a) PROVE Same(doc.edges[p[1]], a.edges[p[2]])
    <2>1. /\ p[1] \in DOMAIN doc.edges /\ p[2] \in DOMAIN a.edges
          /\ doc.edges[p[1]].uid = a.edges[p[2]].uid
      BY DEF Own
    <2>2. PICK j \in DOMAIN a.edges : Like(doc.edges[p[1]], a.edges[j])
      BY <1>3, <2>1
    <2>3. j = p[2]
      BY <2>1, <2>2 DEF Like, UidsDiffer
    <2> QED BY <2>2, <2>3 DEF Like
  <1> QED BY <1>4, <1>5 DEF Unaltered

\* ... and one that alters an edge leaves every other the one it was.
LEMMA AlterSettles ==
    ASSUME Settled(doc), UidsDiffer(doc), NEW edges, NEW reported, EdgeAlters(edges, reported),
           NEW a, Carries(a, edges), UidsDiffer(a)
    PROVE  Settling(doc, a) /\ OwnAreAlike(doc, a)
  <1>1. doc.edges \in Seq(Edge)
    BY DocParts
  <1>2. PICK i0 \in DOMAIN doc.edges, e0 \in Edge :
          edges = [doc.edges EXCEPT ![i0] = e0] /\ Altered(doc.edges[i0], e0)
    BY DEF EdgeAlters
  <1>3. /\ DOMAIN edges = DOMAIN doc.edges /\ edges[i0] = e0
        /\ \A i \in DOMAIN doc.edges : i # i0 => edges[i] = doc.edges[i]
    BY <1>1, <1>2
  <1>4. PICK j0 \in DOMAIN a.edges : Like(e0, a.edges[j0])
    BY <1>3 DEF Carries
  <1>5. <<i0, j0>> \in Own(doc, a)
    BY <1>2, <1>4 DEF Altered, Like, Own
  <1>6. ASSUME NEW i \in DOMAIN doc.edges, i # i0
        PROVE  \E j \in DOMAIN a.edges : Like(doc.edges[i], a.edges[j])
    BY <1>3, <1>6 DEF Carries
  <1>7. Settling(doc, a)
    <2> SUFFICES ASSUME NEW i \in DOMAIN doc.edges, NEW j \in DOMAIN a.edges
                 PROVE  \/ \E l \in DOMAIN a.edges :
                             <<i, l>> \in Own(doc, a) /\ Same(doc.edges[i], a.edges[l])
                        \/ \E k \in DOMAIN doc.edges :
                             <<k, j>> \in Own(doc, a) /\ Same(doc.edges[k], a.edges[j])
                        \/ <<i, j>> \in Own(doc, a)
      BY DEF Settling
    <2>1. CASE i # i0
      <3>1. PICK l \in DOMAIN a.edges : Like(doc.edges[i], a.edges[l])
        BY <1>6, <2>1
      <3> QED BY <3>1 DEF Like, Own
    <2>2. CASE j = j0
      BY <1>5, <2>1, <2>2
    <2>3. CASE j # j0
      <3>1. PICK k \in DOMAIN edges : Like(edges[k], a.edges[j])
        BY DEF Carries
      <3>2. k # i0
        BY <1>3, <1>4, <2>3, <3>1 DEF Like, UidsDiffer
      <3>3. k \in DOMAIN doc.edges /\ Like(doc.edges[k], a.edges[j])
        BY <1>3, <3>1, <3>2
      <3> QED BY <3>3 DEF Like, Own
    <2> QED BY <1>5, <2>1, <2>2, <2>3
  <1>8. ASSUME NEW p \in Own(doc, a)
        PROVE  Alike(doc.edges[p[1]], a.edges[p[2]])
    <2>1. /\ p[1] \in DOMAIN doc.edges /\ p[2] \in DOMAIN a.edges
          /\ doc.edges[p[1]].uid = a.edges[p[2]].uid
      BY DEF Own
    <2>2. CASE p[1] = i0
      <3>1. p[2] = j0
        BY <1>2, <1>4, <2>1, <2>2 DEF Altered, Like, UidsDiffer
      <3>2. /\ Look(e0) = Look(a.edges[j0]) /\ SameEnds(e0, a.edges[j0])
            /\ e0.label = a.edges[j0].label /\ e0.stroke = a.edges[j0].stroke
        BY <1>4 DEF Like, Same, Look
      <3> QED BY <1>2, <2>2, <3>1, <3>2 DEF Altered, SameEnds, Alike
    <2>3. CASE p[1] # i0
      <3>1. PICK j \in DOMAIN a.edges : Like(doc.edges[p[1]], a.edges[j])
        BY <1>6, <2>1, <2>3
      <3>2. j = p[2]
        BY <2>1, <3>1 DEF Like, UidsDiffer
      <3> QED BY <3>1, <3>2 DEF Like, Same, Alike
    <2> QED BY <2>2, <2>3
  <1> QED BY <1>7, <1>8 DEF OwnAreAlike

-----------------------------------------------------------------------------

\* The inductive invariant.
IInv ==
    /\ Settled(base) /\ Settled(doc) /\ Hydrates(base)
    /\ steps \in 0..MaxCommands
    /\ Identified(doc, 100 + steps)
    /\ EndsKnown(doc)

\* Documents as they are written to begin with.
LEMMA InitSettled == Init => IInv
  <1> SUFFICES ASSUME Init PROVE IInv
    OBVIOUS
  <1>1. PICK d \in Produced : base = Relaid(d)
    BY DEF Init
  <1>2. Candidate(d)
    BY DocumentsAssumption DEF Candidate, RegionsListed, IsDocument
  <1>3. Settled(base)
    BY <1>1, <1>2, RelaidSettles
  <1>4. doc = base /\ steps = 0
    BY DEF Init
  <1>5. HasShape(d) /\ Hydrates(d) /\ Identified(d, 100)
    BY DocumentsAssumption DEF IsDocument
  <1>6. Identified(base, 100)
    BY <1>1, <1>5, RelaidUids
  <1>7. Hydrates(base) /\ EndsKnown(base)
    BY <1>1, <1>5, RelaidHydrates DEF Hydrates, EndsKnown
  <1> QED BY <1>3, <1>4, <1>6, <1>7, DocumentsAssumption DEF IInv

\* Any command leaves a sound document ...
LEMMA CommandSound ==
    ASSUME Settled(doc), steps \in Nat, NodeCommand \/ EdgeCommand \/ SubgraphCommand
    PROVE  Sound
  <1>1. CASE NodeCommand
    <2>1. AtMostOne(Nodes) \subseteq SUBSET Nodes /\ AtMostOne(0..MaxEdges) \subseteq SUBSET Nat
      BY DEF AtMostOne
    <2> QED
      BY <1>1, <2>1, SetDocumentSound, AddNodeSound, RemoveNodeSound, NodeEntrySound, StyleSound,
         ExtensionSound
      DEF NodeCommand
  <1>2. CASE EdgeCommand
    BY <1>2, AddEdgeSound, RemoveEdgeSound, EdgeEntrySound DEF EdgeCommand
  <1>3. CASE SubgraphCommand
    <2>1. \A S : AtMostOne(S) \subseteq SUBSET S
      BY DEF AtMostOne
    <2> QED
      BY <1>3, <2>1, AddSubgraphSound, RemoveSubgraphSound, SubgraphEntrySound, TitleSound,
         MembershipSound
      DEF SubgraphCommand
  <1> QED BY <1>1, <1>2, <1>3

\* ... and counts as one.
LEMMA StepCounted ==
    ASSUME steps \in 0..MaxCommands, Next
    PROVE  steps' \in 0..MaxCommands /\ base' = base /\ steps' = steps + 1
  <1>1. ASSUME steps < MaxCommands, steps' = steps + 1, UNCHANGED base
        PROVE  steps' \in 0..MaxCommands /\ base' = base /\ steps' = steps + 1
    BY <1>1, DocumentsAssumption
  <1>2. steps < MaxCommands /\ steps' = steps + 1 /\ UNCHANGED base
    BY DEF Next, NodeCommand, EdgeCommand, SubgraphCommand, SetDocument, AddNode, RemoveNode,
           ChangeNode, SetNodeParent, SetNodeStyleExtension, SetExtension, AddEdge, RemoveEdge, ReconnectEdge,
           SetEdgeEndpointIntent, ChangeEdgeLabel, ChangeEdgeStyle, AddSubgraph, RemoveSubgraph,
           ChangeSubgraph, ChangeSubgraphTitle, SetSubgraphParent, ChangeSubgraphMembership,
           TakeView, Accept, InPlace
  <1> QED BY <1>1, <1>2

\* Every step leaves a sound document ...
LEMMA StepSound ==
    ASSUME IInv, Next
    PROVE  /\ Settled(doc') /\ (LaysOut \/ LeavesOut)
           /\ steps' \in 0..MaxCommands /\ base' = base /\ steps' = steps + 1
           /\ (Hydrates(doc) /\ (event'.kind = "viewed" => IntentsEnclose(doc))) => Hydrates(doc')
  <1>1. Settled(doc) /\ Settled(base) /\ steps \in 0..MaxCommands /\ steps \in Nat
    BY DocumentsAssumption DEF IInv
  <1>2. steps' \in 0..MaxCommands /\ base' = base /\ steps' = steps + 1
    BY <1>1, StepCounted
  <1>3. CASE NodeCommand \/ EdgeCommand \/ SubgraphCommand
    BY <1>1, <1>2, <1>3, CommandSound DEF Sound
  <1>4. ASSUME NEW nodes \in SUBSET DOMAIN doc.nodes, NEW subgraphs \in SUBSET DOMAIN doc.subgraphs,
               TakeView(nodes, subgraphs)
        PROVE  /\ Settled(doc') /\ LeavesOut
               /\ (Hydrates(doc) /\ (event'.kind = "viewed" => IntentsEnclose(doc)))
                    => Hydrates(doc')
    <2>1. doc' = ViewOf(doc, nodes, subgraphs) /\ event'.kind = "viewed"
      BY <1>4 DEF TakeView, InPlace, Reports
    <2>2. /\ doc'.edges = Kept(doc.edges, Inside(nodes)) /\ doc'.styles = doc.styles
          /\ DOMAIN doc'.nodes = nodes
      BY <1>1, <2>1, ViewParts
    <2>3. doc.edges \in Seq(Edge) /\ Inside(nodes) \in SUBSET DOMAIN doc.edges
      BY <1>1, DocParts DEF Inside
    <2>4. \A p \in DOMAIN doc'.edges : \E k \in Inside(nodes) : doc'.edges[p] = doc.edges[k]
      BY <2>2, <2>3, KeptFacts
    <2>5. EndsKnown(doc')
      BY <2>2, <2>4 DEF EndsKnown, Inside
    <2>6. LeavesOut
      BY <2>1, <2>2, <2>3, <2>5 DEF LeavesOut, EdgesGo, ChangedKinds, AddedKind, RemovedKind
    <2> QED BY <1>1, <2>1, <2>6, ViewSettles, ViewHydrates
  <1> QED BY <1>2, <1>3, <1>4 DEF Next

\* ... and keeps the invariant.
LEMMA StepSettled == IInv /\ [Next]_vars => IInv'
  <1> SUFFICES ASSUME IInv, [Next]_vars PROVE IInv'
    OBVIOUS
  <1>1. Settled(doc) /\ Settled(base) /\ steps \in 0..MaxCommands /\ steps \in Nat
    BY DocumentsAssumption DEF IInv
  <1>2. CASE UNCHANGED vars
    BY <1>1, <1>2 DEF vars, IInv
  <1>3. CASE Next
    <2>1. /\ Settled(doc') /\ (LaysOut \/ LeavesOut)
          /\ steps' \in 0..MaxCommands /\ base' = base /\ steps' = steps + 1
      BY <1>3, StepSound
    <2>2. Identified(doc, 100 + steps) /\ EndsKnown(doc)
      BY DEF IInv
    <2>3. CASE LaysOut
      <3>1. PICK c : HasShape(c) /\ Hydrates(c) /\ Form(c, event') /\ doc' = Relaid(c)
        BY <2>3 DEF LaysOut
      <3>2. Apart(c.edges, 100 + (steps + 1))
        BY <1>1, <2>2, <3>1, FormApart DEF Form
      <3>3. Identified(c, 100 + (steps + 1))
        BY <3>2 DEF Identified, Apart
      <3>4. Identified(doc', 100 + steps')
        BY <2>1, <3>1, <3>3, RelaidUids
      <3>5. EndsKnown(doc')
        BY <3>1, RelaidHydrates DEF Hydrates, EndsKnown
      <3> QED BY <1>1, <2>1, <3>4, <3>5 DEF IInv
    <2>4. CASE LeavesOut
      <3>1. EdgesStay(doc'.edges, event') \/ EdgesGo(doc'.edges, event')
        BY <2>4 DEF LeavesOut
      <3>2. Apart(doc'.edges, 100 + (steps + 1))
        BY <1>1, <2>2, <3>1, FormApart
      <3>3. Identified(doc', 100 + steps')
        BY <2>1, <3>2 DEF Identified, Apart
      <3>4. EndsKnown(doc')
        BY <2>2, <2>4 DEF LeavesOut
      <3> QED BY <1>1, <2>1, <3>3, <3>4 DEF IInv
    <2> QED BY <2>1, <2>3, <2>4
  <1> QED BY <1>2, <1>3

\* Edge ids stay unique and documents well formed through every sequence of commands,
\* views and relayouts, and a subgraph lists the nodes whose parent it is and no others.
THEOREM DocumentCorrect == Spec => []DocumentIsConsistent
  <1>1. IInv => DocumentIsConsistent
    BY DEF IInv, Settled, DocumentIsConsistent, ChildrenListed, RegionsListed
  <1> QED BY <1>1, StepSettled, InitSettled, PTL DEF Spec

\* A document that hydrates still does after any command and in any view, whatever the
\* nodes, edges and nesting of subgraphs.
THEOREM HydrationKept == Spec => HydrationIsKept
  <1> DEFINE Keeps == (Hydrates(doc) /\ (event'.kind = "viewed" => IntentsEnclose(doc)))
                         => Hydrates(doc')
  <1>1. IInv /\ [Next]_vars => [Keeps]_vars
    BY StepSound
  <1>3. HydrationIsKept <=> [][Keeps]_vars
    BY DEF HydrationIsKept
  <1> QED BY <1>1, <1>3, StepSettled, InitSettled, PTL DEF Spec

\* A style stays with its edge through every command, relayout and view, whatever the ids:
\* it goes when the edge goes, and a new edge has none if it takes no other's id.
THEOREM StylesCorrect == Spec => StylesFollowTheirEdges
  <1> DEFINE Follows ==
        (NoStaleStyle(doc) /\ NewIdIsFree /\ event'.kind # "extensionChanged") =>
          Styled(doc') = Styled(doc) \cap Uids(doc')
  <1>1. ASSUME IInv, Next, NoStaleStyle(doc), NewIdIsFree, event'.kind # "extensionChanged"
        PROVE  Styled(doc') = Styled(doc) \cap Uids(doc')
    <2>1. Settled(doc) /\ Identified(doc, 100 + steps) /\ (LaysOut \/ LeavesOut)
      BY <1>1, StepSound DEF IInv
    <2>2. event'.kind = AddedKind => \A i \in DOMAIN doc.edges : doc.edges[i].id # event'.edge
      BY <1>1 DEF NewIdIsFree, AddedKind
    <2>3. CASE LaysOut
      <3>1. PICK c : HasShape(c) /\ Hydrates(c) /\ Form(c, event') /\ doc' = Relaid(c)
        BY <2>3 DEF LaysOut
      <3>2. StyledIn(c.edges, doc.styles.edges) = Styled(doc) \cap UidsIn(c.edges)
        BY <1>1, <2>1, <2>2, <3>1, FormStyled DEF Form
      <3>3. Uids(doc') = UidsIn(c.edges) /\ Styled(doc') = StyledIn(c.edges, c.styles.edges)
        BY <3>1, RelaidUids
      <3> QED BY <3>1, <3>2, <3>3 DEF Form
    <2>4. CASE LeavesOut
      <3>1. StyledIn(doc'.edges, doc.styles.edges) = Styled(doc) \cap UidsIn(doc'.edges)
        BY <1>1, <2>1, <2>2, <2>4, FormStyled DEF LeavesOut
      <3>2. Uids(doc') = UidsIn(doc'.edges) /\ Styled(doc') = StyledIn(doc'.edges, doc'.styles.edges)
        BY UidsByEdges
      <3> QED BY <1>1, <2>4, <3>1, <3>2 DEF LeavesOut
    <2> QED BY <2>1, <2>3, <2>4
  <1>2. IInv /\ [Next]_vars => [Follows]_vars
    BY <1>1
  <1>3. StylesFollowTheirEdges <=> [][Follows]_vars
    BY DEF StylesFollowTheirEdges
  <1> QED BY <1>2, <1>3, StepSettled, InitSettled, PTL DEF Spec

\* Where ids are positions, the id that a command reports names the edge it was about,
\* though it is made out before the relayout numbers the edges anew.
THEOREM EventsCorrect == Spec => EventsNameTheirEdge
  <1> DEFINE Names ==
        Dense(doc) =>
          /\ event'.kind = "edgeAdded" => Named(doc', event'.edge) = Uids(doc') \ Uids(doc)
          /\ event'.kind = "edgeRemoved" => Named(doc, event'.edge) = Uids(doc) \ Uids(doc')
          /\ event'.kind \in {"edgeReconnected", "edgeIntentChanged", "edgeLabelChanged",
                              "edgeStyleChanged"} =>
                /\ Named(doc, event'.edge) = Named(doc', event'.edge)
                /\ Named(doc, event'.edge) # {}
  <1>1. ASSUME IInv, Next, Dense(doc)
        PROVE  /\ event'.kind = AddedKind => Named(doc', event'.edge) = Uids(doc') \ Uids(doc)
               /\ event'.kind = RemovedKind => Named(doc, event'.edge) = Uids(doc) \ Uids(doc')
               /\ event'.kind \in ChangedKinds =>
                     /\ Named(doc, event'.edge) = Named(doc', event'.edge)
                     /\ Named(doc, event'.edge) # {}
    <2>1. /\ Settled(doc) /\ Settled(doc') /\ Identified(doc, 100 + steps) /\ steps \in Nat
          /\ LaysOut \/ LeavesOut
      BY <1>1, StepSound, DocumentsAssumption DEF IInv
    <2>2. AddedKind # RemovedKind /\ AddedKind \notin ChangedKinds /\ RemovedKind \notin ChangedKinds
      BY DEF AddedKind, RemovedKind, ChangedKinds
    <2>3. CASE LeavesOut
      BY <2>3 DEF LeavesOut, EdgesStay, EdgesGo, EdgeKinds
    <2>4. CASE LaysOut
      <3>1. PICK c : HasShape(c) /\ Form(c, event') /\ doc' = Relaid(c)
        BY <2>4 DEF LaysOut
      <3>2. CASE EdgesStay(c.edges, event')
        BY <3>2 DEF EdgesStay, EdgeKinds
      <3>3. CASE EdgesGo(c.edges, event')
        <4>1. event'.kind \notin ChangedKinds \cup {AddedKind}
          BY <3>3 DEF EdgesGo
        <4> QED BY <2>1, <3>1, <3>3, <4>1, RemovedIsNamed
      <3>4. CASE EdgeAlters(c.edges, event')
        <4>1. event'.kind \in ChangedKinds
          BY <3>4 DEF EdgeAlters
        <4> QED BY <1>1, <2>1, <2>2, <3>1, <3>4, <4>1, AlteredIsNamed
      <3>5. CASE EdgeJoins(c.edges, event')
        <4>1. event'.kind = AddedKind
          BY <3>5 DEF EdgeJoins
        <4>2. Named(doc', event'.edge) = Uids(doc') \ Uids(doc)
          BY <1>1, <2>1, <3>1, <3>5, AddedIsNamed
        <4> QED BY <2>2, <4>1, <4>2
      <3> QED BY <3>1, <3>2, <3>3, <3>4, <3>5 DEF Form
    <2> QED BY <2>1, <2>3, <2>4
  <1>2. IInv /\ [Next]_vars => [Names]_vars
    BY <1>1 DEF AddedKind, RemovedKind, ChangedKinds
  <1>3. EventsNameTheirEdge <=> [][Names]_vars
    BY DEF EventsNameTheirEdge
  <1> QED BY <1>2, <1>3, StepSettled, InitSettled, PTL DEF Spec

\* The diff of a document and what any command or view makes of it pairs every edge with
\* itself and no other, however the ids have moved.
THEOREM DiffCorrect == Spec => DiffTellsTheCommand
  <1> DEFINE Tells ==
        (Distinguishable(doc) /\ Distinguishable(doc') /\ KeepsAnEnd(doc, doc')) =>
          Matches(doc, doc') = {p \in (DOMAIN doc.edges) \X (DOMAIN doc'.edges) :
                                   doc.edges[p[1]].uid = doc'.edges[p[2]].uid}
  <1>1. ASSUME IInv, Next, IInv', Distinguishable(doc), Distinguishable(doc'),
               KeepsAnEnd(doc, doc')
        PROVE  Matches(doc, doc') = Own(doc, doc')
    <2>1. /\ Settled(doc) /\ Settled(doc') /\ (LaysOut \/ LeavesOut)
          /\ EndsKnown(doc) /\ EndsKnown(doc') /\ UidsDiffer(doc) /\ UidsDiffer(doc')
      BY <1>1, StepSound DEF IInv, Identified, UidsDiffer
    <2>2. PICK edges :
            /\ Carries(doc', edges)
            /\ \/ EdgesStay(edges, event') \/ EdgesGo(edges, event') \/ EdgeJoins(edges, event')
               \/ EdgeAlters(edges, event') /\ doc'.nodes = doc.nodes
      <3>1. CASE LaysOut
        <4>1. PICK c : HasShape(c) /\ Form(c, event') /\ doc' = Relaid(c)
          BY <3>1 DEF LaysOut
        <4>2. Carries(doc', c.edges) /\ doc'.nodes = c.nodes
          BY <4>1, RelaidCarries, RelaidParts
        <4> QED BY <4>1, <4>2 DEF Form
      <3>2. CASE LeavesOut
        <4>1. Carries(doc', doc'.edges)
          BY DEF Carries, Like, Same, SameEnds
        <4> QED BY <3>2, <4>1 DEF LeavesOut
      <3> QED BY <2>1, <3>1, <3>2
    <2>3. CASE EdgesStay(edges, event') \/ EdgesGo(edges, event') \/ EdgeJoins(edges, event')
      <3>1. Settling(doc, doc') /\ Unaltered(doc, doc')
        <4>1. CASE EdgesStay(edges, event') \/ EdgesGo(edges, event')
          BY <2>1, <2>2, <4>1, GoneSettles
        <4>2. CASE EdgeJoins(edges, event')
          BY <2>1, <2>2, <4>2, JoinSettles
        <4> QED BY <2>3, <4>1, <4>2
      <3>2. Related(doc, doc')
        BY <3>1 DEF Related, Unaltered, Same, OwnAreAlike, Alike
      <3> QED BY <1>1, <2>1, <3>1, <3>2, DiffIsOwn
    <2>4. CASE EdgeAlters(edges, event') /\ doc'.nodes = doc.nodes
      <3>1. Settling(doc, doc') /\ OwnAreAlike(doc, doc')
        BY <2>1, <2>2, <2>4, AlterSettles
      <3>2. ASSUME NEW p \in Own(doc, doc')
            PROVE  {doc.edges[p[1]].source, doc.edges[p[1]].target,
                    doc'.edges[p[2]].source, doc'.edges[p[2]].target}
                      \subseteq DOMAIN doc.nodes \cap DOMAIN doc'.nodes
        BY <2>1, <2>4 DEF EndsKnown, Own
      <3>3. Related(doc, doc')
        BY <3>1, <3>2 DEF Related
      <3> QED BY <1>1, <2>1, <3>1, <3>3, DiffIsOwn
    <2> QED BY <2>2, <2>3, <2>4
  <1>2. IInv /\ IInv' /\ [Next]_vars => [Tells]_vars
    BY <1>1 DEF Own
  <1>3. DiffTellsTheCommand <=> [][Tells]_vars
    BY DEF DiffTellsTheCommand
  <1> QED BY <1>2, <1>3, StepSettled, InitSettled, PTL DEF Spec

-----------------------------------------------------------------------------
(* The diff as a matching, and the union.                                  *)

\* No place is in two of the pairs.
Matching(P, b, a) ==
    /\ P \subseteq (DOMAIN b.edges) \X (DOMAIN a.edges)
    /\ \A p, q \in P : (p[1] = q[1] \/ p[2] = q[2]) => p = q

\* Pairs of places that are open, none with a place of another, can be added ...
LEMMA MatchingGrows ==
    ASSUME NEW b, NEW a, NEW P, NEW Q, Matching(P, b, a),
           Q \subseteq OpenBefore(b, P) \X OpenAfter(a, P),
           \A p, q \in Q : (p[1] = q[1] \/ p[2] = q[2]) => p = q
    PROVE  Matching(P \cup Q, b, a)
  <1>1. \A p \in P, q \in Q : p[1] # q[1] /\ p[2] # q[2]
    BY DEF OpenBefore, OpenAfter
  <1>2. Q \subseteq (DOMAIN b.edges) \X (DOMAIN a.edges)
    BY DEF OpenBefore, OpenAfter
  <1> QED BY <1>1, <1>2 DEF Matching

\* ... and are found by dropping the ambiguous ones.
LEMMA UniquePairsMatch ==
    ASSUME NEW b, NEW a, NEW P, NEW Q, NEW R, Matching(P, b, a),
           Q \subseteq OpenBefore(b, P) \X OpenAfter(a, P), R \subseteq UniquePairs(Q)
    PROVE  Matching(P \cup R, b, a)
  <1>1. R \subseteq Q /\ \A p, q \in R : (p[1] = q[1] \/ p[2] = q[2]) => p = q
    BY DEF UniquePairs
  <1> QED BY <1>1, MatchingGrows

\* The order of the digits tells any two numbers apart.
LEMMA DigitsTellApart ==
    ASSUME NEW k \in Nat, NEW m \in Nat, NEW n \in Nat
    PROVE  /\ ~DigitsBefore(k, k)
           /\ DigitsBefore(k, m) /\ DigitsBefore(m, n) => DigitsBefore(k, n)
           /\ DigitsBefore(k, m) \/ DigitsBefore(m, k) \/ k = m
  <1> DEFINE key(i) == IF i < 10 THEN 11 * i ELSE 11 * (i \div 10) + 1 + (i % 10)
  <1>1. \A i \in Nat : key(i) \in Nat
    OBVIOUS
  <1>2. \A i, j \in Nat : key(i) = key(j) => i = j
    OBVIOUS
  <1>3. \A i, j : DigitsBefore(i, j) <=> key(i) < key(j)
    BY DEF DigitsBefore
  <1> HIDE DEF key
  <1> QED BY <1>1, <1>2, <1>3

\* Two open edges between the same nodes whose ids sort apart have different turns ...
LEMMA TurnsDiffer ==
    ASSUME NEW edges \in Seq(Edge), NEW open \in SUBSET DOMAIN edges,
           NEW i \in open, NEW j \in open, SameEnds(edges[i], edges[j]),
           DigitsBefore(edges[i].id, edges[j].id)
    PROVE  Turn(edges, open, i) # Turn(edges, open, j)
  <1> DEFINE before(k) == {l \in open : SameEnds(edges[k], edges[l])
                                          /\ DigitsBefore(edges[l].id, edges[k].id)}
  <1>1. \A l \in open : edges[l].id \in Nat
    <2>1. \A l \in open : edges[l] \in Edge
      OBVIOUS
    <2> QED BY <2>1 DEF Edge
  <1>2. i \in before(j) /\ i \notin before(i)
    BY <1>1, DigitsTellApart DEF SameEnds
  <1>3. before(i) \subseteq before(j)
    <2> SUFFICES ASSUME NEW l \in before(i)
                 PROVE  l \in before(j)
      OBVIOUS
    <2>1. DigitsBefore(edges[l].id, edges[j].id)
      BY <1>1, DigitsTellApart
    <2> QED BY <2>1 DEF SameEnds
  <1>4. IsFiniteSet(before(j))
    <2>1. IsFiniteSet(1..Len(edges)) /\ DOMAIN edges = 1..Len(edges)
      BY FS_Interval
    <2>2. before(j) \subseteq 1..Len(edges)
      BY <2>1
    <2> QED BY <2>1, <2>2, FS_Subset
  <1>5. Turn(edges, open, i) = Cardinality(before(i)) /\ Turn(edges, open, j) = Cardinality(before(j))
    BY DEF Turn
  <1> HIDE DEF before
  <1>6. Cardinality(before(i)) = Cardinality(before(j)) => before(i) = before(j)
    BY <1>3, <1>4, FS_Subset
  <1> QED BY <1>2, <1>5, <1>6

\* ... so that the pairs of equal turns are a matching too.
LEMMA OrderMatches ==
    ASSUME NEW b, NEW a, IsDocument(b), IsDocument(a), NEW P, Matching(P, b, a)
    PROVE  Matching(PairedInOrder(P, b, a), b, a)
  <1> DEFINE left == OpenBefore(b, P)
             right == OpenAfter(a, P)
             Q == {p \in left \X right :
                     /\ SameEnds(b.edges[p[1]], a.edges[p[2]])
                     /\ Turn(b.edges, left, p[1]) = Turn(a.edges, right, p[2])}
  <1>1. b.edges \in Seq(Edge) /\ a.edges \in Seq(Edge)
    BY DEF IsDocument, HasShape
  <1>2. left \in SUBSET DOMAIN b.edges /\ right \in SUBSET DOMAIN a.edges
    BY DEF OpenBefore, OpenAfter
  <1>3. ASSUME NEW d, IsDocument(d), NEW open \in SUBSET DOMAIN d.edges,
               NEW i \in open, NEW j \in open, SameEnds(d.edges[i], d.edges[j]),
               Turn(d.edges, open, i) = Turn(d.edges, open, j)
        PROVE  i = j
    <2>1. d.edges \in Seq(Edge)
      BY <1>3 DEF IsDocument, HasShape
    <2>2. d.edges[i].id \in Nat /\ d.edges[j].id \in Nat
      <3>1. d.edges[i] \in Edge /\ d.edges[j] \in Edge
        BY <2>1
      <3> QED BY <3>1 DEF Edge
    <2>3. CASE DigitsBefore(d.edges[i].id, d.edges[j].id)
      <3>1. Turn(d.edges, open, i) # Turn(d.edges, open, j)
        BY <1>3, <2>1, <2>3, TurnsDiffer
      <3> QED BY <1>3, <3>1
    <2>4. CASE DigitsBefore(d.edges[j].id, d.edges[i].id)
      <3>1. SameEnds(d.edges[j], d.edges[i])
        BY <1>3 DEF SameEnds
      <3>2. Turn(d.edges, open, j) # Turn(d.edges, open, i)
        BY <2>1, <2>4, <3>1, TurnsDiffer
      <3> QED BY <1>3, <3>2
    <2>5. CASE d.edges[i].id = d.edges[j].id
      BY <1>3, <2>5 DEF IsDocument
    <2> QED BY <2>2, <2>3, <2>4, <2>5, DigitsTellApart
  <1>4. PairedInOrder(P, b, a) = P \cup Q /\ Q \subseteq left \X right
    BY DEF PairedInOrder
  <1>5. ASSUME NEW p \in Q, NEW q \in Q, p[1] = q[1] \/ p[2] = q[2]
        PROVE  p = q
    <2>1. /\ p = <<p[1], p[2]>> /\ q = <<q[1], q[2]>>
          /\ p[1] \in left /\ q[1] \in left /\ p[2] \in right /\ q[2] \in right
          /\ SameEnds(b.edges[p[1]], a.edges[p[2]]) /\ SameEnds(b.edges[q[1]], a.edges[q[2]])
          /\ Turn(b.edges, left, p[1]) = Turn(a.edges, right, p[2])
          /\ Turn(b.edges, left, q[1]) = Turn(a.edges, right, q[2])
      OBVIOUS
    <2> HIDE DEF Q, left, right
    <2>2. CASE p[1] = q[1]
      <3>1. SameEnds(a.edges[p[2]], a.edges[q[2]])
            /\ Turn(a.edges, right, p[2]) = Turn(a.edges, right, q[2])
        BY <2>1, <2>2 DEF SameEnds
      <3>2. p[2] = q[2]
        BY <1>2, <1>3, <2>1, <3>1
      <3> QED BY <2>1, <2>2, <3>2
    <2>3. CASE p[2] = q[2]
      <3>1. SameEnds(b.edges[p[1]], b.edges[q[1]])
            /\ Turn(b.edges, left, p[1]) = Turn(b.edges, left, q[1])
        BY <2>1, <2>3 DEF SameEnds
      <3>2. p[1] = q[1]
        BY <1>2, <1>3, <2>1, <3>1
      <3> QED BY <2>1, <2>3, <3>2
    <2> QED BY <1>5, <2>2, <2>3
  <1> HIDE DEF Q
  <1>6. Matching(P \cup Q, b, a)
    BY <1>4, <1>5, MatchingGrows
  <1> QED BY <1>4, <1>6

\* The diff pairs an edge with one edge at most.
LEMMA MatchesMatch ==
    ASSUME NEW b, NEW a, IsDocument(b), IsDocument(a)
    PROVE  Matching(Matches(b, a), b, a)
  <1> DEFINE ids == SameId(b, a)
             looks == PairedBy(ids, b, a, Look)
             labels == PairedBy(looks, b, a, LabelOf)
             strokes == PairedBy(labels, b, a, StrokeOf)
             ordered == PairedInOrder(strokes, b, a)
             byId == ReconnectedById(ordered, b, a)
  <1>1. Matching(ids, b, a)
    <2>1. ASSUME NEW p \in ids, NEW q \in ids, p[1] = q[1] \/ p[2] = q[2]
          PROVE  p = q
      <3>1. CASE p[1] = q[1]
        <4>1. SameEnds(a.edges[p[2]], a.edges[q[2]])
          BY <3>1 DEF SameId, SameEnds
        <4> QED BY <3>1, <4>1 DEF SameId, Alone
      <3>2. CASE p[2] = q[2]
        <4>1. SameEnds(b.edges[p[1]], b.edges[q[1]])
          BY <3>2 DEF SameId, SameEnds
        <4> QED BY <3>2, <4>1 DEF SameId, Alone
      <3> QED BY <2>1, <3>1, <3>2
    <2>2. ids \subseteq (DOMAIN b.edges) \X (DOMAIN a.edges)
      BY DEF SameId
    <2> QED BY <2>1, <2>2 DEF Matching
  <1> HIDE DEF ids
  <1>2. Matching(looks, b, a)
    <2> DEFINE Q == {p \in OpenBefore(b, ids) \X OpenAfter(a, ids) :
                       /\ SameEnds(b.edges[p[1]], a.edges[p[2]])
                       /\ Look(b.edges[p[1]]) = Look(a.edges[p[2]])}
    <2>1. looks = ids \cup UniquePairs(Q) /\ Q \subseteq OpenBefore(b, ids) \X OpenAfter(a, ids)
      BY DEF PairedBy
    <2> HIDE DEF Q
    <2>2. Matching(ids \cup UniquePairs(Q), b, a)
      BY <1>1, <2>1, UniquePairsMatch
    <2> QED BY <2>1, <2>2
  <1> HIDE DEF looks
  <1>3. Matching(labels, b, a)
    <2> DEFINE Q == {p \in OpenBefore(b, looks) \X OpenAfter(a, looks) :
                       /\ SameEnds(b.edges[p[1]], a.edges[p[2]])
                       /\ LabelOf(b.edges[p[1]]) = LabelOf(a.edges[p[2]])}
    <2>1. labels = looks \cup UniquePairs(Q) /\ Q \subseteq OpenBefore(b, looks) \X OpenAfter(a, looks)
      BY DEF PairedBy
    <2> HIDE DEF Q
    <2>2. Matching(looks \cup UniquePairs(Q), b, a)
      BY <1>2, <2>1, UniquePairsMatch
    <2> QED BY <2>1, <2>2
  <1> HIDE DEF labels
  <1>4. Matching(strokes, b, a)
    <2> DEFINE Q == {p \in OpenBefore(b, labels) \X OpenAfter(a, labels) :
                       /\ SameEnds(b.edges[p[1]], a.edges[p[2]])
                       /\ StrokeOf(b.edges[p[1]]) = StrokeOf(a.edges[p[2]])}
    <2>1. strokes = labels \cup UniquePairs(Q)
          /\ Q \subseteq OpenBefore(b, labels) \X OpenAfter(a, labels)
      BY DEF PairedBy
    <2> HIDE DEF Q
    <2>2. Matching(labels \cup UniquePairs(Q), b, a)
      BY <1>3, <2>1, UniquePairsMatch
    <2> QED BY <2>1, <2>2
  <1> HIDE DEF strokes
  <1>5. Matching(ordered, b, a)
    BY <1>4, OrderMatches
  <1> HIDE DEF ordered
  <1>6. ASSUME NEW P
        PROVE  Reconnectable(P, b, a) \subseteq OpenBefore(b, P) \X OpenAfter(a, P)
    BY DEF Reconnectable
  <1>7. Matching(byId, b, a)
    <2> DEFINE R == {p \in UniquePairs(Reconnectable(ordered, b, a)) :
                       b.edges[p[1]].id = a.edges[p[2]].id}
    <2>1. byId = ordered \cup R /\ R \subseteq UniquePairs(Reconnectable(ordered, b, a))
      BY DEF ReconnectedById
    <2> HIDE DEF R
    <2>2. Matching(ordered \cup R, b, a)
      BY <1>5, <1>6, <2>1, UniquePairsMatch
    <2> QED BY <2>1, <2>2
  <1> HIDE DEF byId
  <1>8. Matching(ReconnectedByLook(byId, b, a), b, a)
    <2> DEFINE Q == {p \in Reconnectable(byId, b, a) :
                       Look(b.edges[p[1]]) = Look(a.edges[p[2]])}
    <2>1. ReconnectedByLook(byId, b, a) = byId \cup UniquePairs(Q)
          /\ Q \subseteq OpenBefore(b, byId) \X OpenAfter(a, byId)
      BY <1>6 DEF ReconnectedByLook
    <2> HIDE DEF Q
    <2>2. Matching(byId \cup UniquePairs(Q), b, a)
      BY <1>7, <2>1, UniquePairsMatch
    <2> QED BY <2>1, <2>2
  <1>9. Matches(b, a) = ReconnectedByLook(byId, b, a)
    BY DEF Matches, ids, looks, labels, strokes, ordered, byId
  <1> QED BY <1>8, <1>9

\* The edges of the union: those of the after document, then the removed ones in order.
LEMMA OriginPlaces ==
    ASSUME NEW b, NEW a, b.edges \in Seq(Edge), a.edges \in Seq(Edge)
    PROVE  LET n == Len(a.edges)
               m == Cardinality(Removed(b, a))
               ghosts == Ghosts(b, a)
               origins == UnionOrigins(b, a)
           IN /\ n \in Nat /\ m \in Nat /\ DOMAIN a.edges = 1..n
              /\ Enumerates(ghosts, m, Removed(b, a))
              /\ DOMAIN origins = 1..(n + m)
              /\ \A k \in 1..n : origins[k] = <<"after", k>>
              /\ \A k \in 1..m : origins[n + k] = <<"before", ghosts[k]>>
  <1> DEFINE n == Len(a.edges)
             m == Cardinality(Removed(b, a))
             ghosts == Ghosts(b, a)
             left == [i \in DOMAIN a.edges |-> <<"after", i>>]
             right == [k \in DOMAIN ghosts |-> <<"before", ghosts[k]>>]
  <1>1. n \in Nat /\ DOMAIN a.edges = 1..n /\ Len(b.edges) \in Nat
    OBVIOUS
  <1>2. Removed(b, a) \in SUBSET (1..Len(b.edges))
    BY DEF Removed, OpenBefore
  <1>3. m \in Nat /\ DOMAIN ghosts = 1..m /\ Enumerates(ghosts, m, Removed(b, a))
    BY <1>1, <1>2, InOrderEnumerates DEF Ghosts
  <1>4. UnionOrigins(b, a) = left \o right
    BY DEF UnionOrigins
  <1>5. ghosts \in [1..m -> Removed(b, a)]
    BY <1>3 DEF Enumerates
  <1>6. left \in Seq({"after", "before"} \X Nat) /\ Len(left) = n
    BY <1>1
  <1>7. right \in Seq({"after", "before"} \X Nat) /\ Len(right) = m
    <2> HIDE DEF ghosts, m
    <2>1. \A k \in 1..m : ghosts[k] \in Nat
      BY <1>2, <1>5
    <2> QED BY <1>3, <2>1
  <1>8. /\ \A k \in 1..n : left[k] = <<"after", k>>
        /\ \A k \in 1..m : right[k] = <<"before", ghosts[k]>>
    BY <1>1, <1>3
  <1> HIDE DEF left, right, n, m, ghosts
  <1>9. /\ DOMAIN (left \o right) = 1..(n + m)
        /\ \A k \in 1..n : (left \o right)[k] = left[k]
        /\ \A k \in 1..m : (left \o right)[n + k] = right[k]
    <2>1. left \o right \in Seq({"after", "before"} \X Nat) /\ Len(left \o right) = n + m
      BY <1>6, <1>7
    <2>2. \A k \in 1..(n + m) : (left \o right)[k] = IF k <= n THEN left[k] ELSE right[k - n]
      BY <1>6, <1>7, ConcatProperties
    <2>3. \A k \in 1..n : k \in 1..(n + m) /\ k <= n
      BY <1>1, <1>3
    <2>4. \A k \in 1..m : n + k \in 1..(n + m) /\ ~(n + k <= n) /\ (n + k) - n = k
      BY <1>1, <1>3
    <2> QED BY <2>1, <2>2, <2>3, <2>4
  <1> QED BY <1>1, <1>3, <1>4, <1>8, <1>9 DEF n, m, ghosts

\* An edge paired with the one at place comes from there.
LEMMA PlaceBeforeFacts ==
    ASSUME NEW b, NEW a, Matching(Matches(b, a), b, a), NEW j, 0 \notin DOMAIN b.edges
    PROVE  /\ \A i \in DOMAIN b.edges : PlaceBefore(b, a, j) = i <=> <<i, j>> \in Matches(b, a)
           /\ PlaceBefore(b, a, j) \in DOMAIN b.edges \cup {0}
  <1> DEFINE found == {p \in Matches(b, a) : p[2] = j}
             it == CHOOSE p \in found : TRUE
  <1>1. PlaceBefore(b, a, j) = IF found = {} THEN 0 ELSE it[1]
    BY DEF PlaceBefore
  <1>2. \A p \in found : p = <<p[1], j>> /\ p[1] \in DOMAIN b.edges /\ p \in Matches(b, a)
    BY DEF Matching
  <1>3. CASE found = {}
    <2>1. \A i : <<i, j>> \notin Matches(b, a)
      BY <1>3
    <2> QED BY <1>1, <1>3, <2>1
  <1>4. CASE found # {}
    <2>1. it \in found
      BY <1>4
    <2> HIDE DEF it
    <2>2. \A i \in DOMAIN b.edges : <<i, j>> \in Matches(b, a) => <<i, j>> = it
      BY <2>1 DEF Matching
    <2>3. it = <<it[1], j>> /\ it[1] \in DOMAIN b.edges /\ it \in Matches(b, a)
      BY <1>2, <2>1
    <2>4. PlaceBefore(b, a, j) = it[1]
      BY <1>1, <1>4 DEF it
    <2> HIDE DEF found
    <2>5. ASSUME NEW i \in DOMAIN b.edges
          PROVE  it[1] = i <=> <<i, j>> \in Matches(b, a)
      <3>1. <<i, j>> \in Matches(b, a) => it[1] = i
        BY <2>2
      <3>2. it[1] = i => <<i, j>> \in Matches(b, a)
        BY <2>3
      <3> QED BY <3>1, <3>2
    <2> QED BY <2>3, <2>4, <2>5
  <1> QED BY <1>3, <1>4

\* What the entries of the union's edges say.
LEMMA EntryPlaces ==
    ASSUME NEW b, NEW a, b.edges \in Seq(Edge), a.edges \in Seq(Edge)
    PROVE  LET n == Len(a.edges)
               m == Cardinality(Removed(b, a))
               entries == UnionEntries(b, a)
           IN /\ DOMAIN entries = 1..(n + m) /\ Len(entries) = n + m
              /\ Len(UnionOf(b, a).edges) = n + m
              /\ \A k \in 1..n : entries[k] = [before |-> PlaceBefore(b, a, k), after |-> k]
              /\ \A k \in 1..m : entries[n + k] = [before |-> Ghosts(b, a)[k], after |-> 0]
  <1> DEFINE n == Len(a.edges)
             m == Cardinality(Removed(b, a))
             origins == UnionOrigins(b, a)
             ghosts == Ghosts(b, a)
             entries == UnionEntries(b, a)
  <1>1. /\ n \in Nat /\ m \in Nat /\ DOMAIN origins = 1..(n + m)
        /\ \A k \in 1..n : origins[k] = <<"after", k>>
        /\ \A k \in 1..m : origins[n + k] = <<"before", ghosts[k]>>
    BY OriginPlaces
  <1>2. /\ DOMAIN entries = DOMAIN origins
        /\ \A k \in DOMAIN origins : entries[k] = EdgeEntry(b, a, origins[k])
    BY DEF UnionEntries
  <1>3. DOMAIN UnionOf(b, a).edges = DOMAIN origins
    BY DEF UnionOf
  <1> HIDE DEF n, m, origins, ghosts, entries
  <1>4. \A k \in 1..n : entries[k] = [before |-> PlaceBefore(b, a, k), after |-> k]
    BY <1>1, <1>2 DEF EdgeEntry
  <1>5. \A k \in 1..m : entries[n + k] = [before |-> ghosts[k], after |-> 0]
    <2>1. \A k \in 1..m : n + k \in 1..(n + m)
      BY <1>1
    <2>2. \A k \in 1..m : entries[n + k] = EdgeEntry(b, a, <<"before", ghosts[k]>>)
      BY <1>1, <1>2, <2>1
    <2> QED BY <2>2 DEF EdgeEntry
  <1>6. n + m \in Nat
    BY <1>1
  <1>7. Len(entries) = n + m /\ Len(UnionOf(b, a).edges) = n + m
    BY <1>1, <1>2, <1>3, <1>6
  <1> QED BY <1>1, <1>2, <1>4, <1>5, <1>7 DEF n, m, entries, ghosts

\* Each edge of either document is behind one edge of the union, those paired together.
LEMMA UnionAccounts ==
    ASSUME NEW b, NEW a, IsDocument(b), IsDocument(a)
    PROVE  LET entries == UnionEntries(b, a)
               pairs == {<<entries[k].before, entries[k].after>> : k \in DOMAIN entries}
           IN /\ Len(entries) = Len(UnionOf(b, a).edges)
              /\ \A i \in DOMAIN b.edges : \E k \in DOMAIN entries :
                    \A l \in DOMAIN entries : entries[l].before = i <=> l = k
              /\ \A j \in DOMAIN a.edges : \E k \in DOMAIN entries :
                    \A l \in DOMAIN entries : entries[l].after = j <=> l = k
              /\ pairs \cap ((DOMAIN b.edges) \X (DOMAIN a.edges)) = Matches(b, a)
  <1> DEFINE n == Len(a.edges)
             m == Cardinality(Removed(b, a))
             ghosts == Ghosts(b, a)
             entries == UnionEntries(b, a)
             pairs == {<<entries[k].before, entries[k].after>> : k \in DOMAIN entries}
             M == Matches(b, a)
  <1>1. b.edges \in Seq(Edge) /\ a.edges \in Seq(Edge)
    BY DEF IsDocument, HasShape
  <1>2. /\ n \in Nat /\ m \in Nat /\ DOMAIN a.edges = 1..n
        /\ Enumerates(ghosts, m, Removed(b, a))
    BY <1>1, OriginPlaces
  <1>3. /\ DOMAIN entries = 1..(n + m)
        /\ Len(entries) = Len(UnionOf(b, a).edges)
        /\ \A k \in 1..n : entries[k] = [before |-> PlaceBefore(b, a, k), after |-> k]
        /\ \A k \in 1..m : entries[n + k] = [before |-> ghosts[k], after |-> 0]
    BY <1>1, EntryPlaces
  <1>4. Matching(M, b, a)
    BY MatchesMatch
  <1>5. 0 \notin DOMAIN b.edges /\ 0 \notin DOMAIN a.edges
    BY <1>1
  <1>6. \A j \in 1..n :
          /\ \A i \in DOMAIN b.edges : PlaceBefore(b, a, j) = i <=> <<i, j>> \in M
          /\ PlaceBefore(b, a, j) \in DOMAIN b.edges \cup {0}
    BY <1>4, <1>5, PlaceBeforeFacts
  <1>7. \A i \in DOMAIN b.edges : i \in Removed(b, a) <=> \A j \in 1..n : <<i, j>> \notin M
    BY <1>2, <1>4 DEF Removed, OpenBefore, Matching
  <1>8. /\ \A k \in 1..m : ghosts[k] \in Removed(b, a)
        /\ \A p, q \in 1..m : ghosts[p] = ghosts[q] => p = q
        /\ \A i \in Removed(b, a) : \E k \in 1..m : ghosts[k] = i
    BY <1>2 DEF Enumerates
  <1>9. Removed(b, a) \subseteq DOMAIN b.edges
    BY DEF Removed, OpenBefore
  <1> HIDE DEF n, m, ghosts, entries, M
  <1>10. \A l \in DOMAIN entries : l \in 1..n \/ \E k \in 1..m : l = n + k
    <2> SUFFICES ASSUME NEW l \in 1..(n + m), l \notin 1..n
                 PROVE  \E k \in 1..m : l = n + k
      BY <1>3
    <2>1. l - n \in 1..m /\ l = n + (l - n)
      BY <1>2
    <2> QED BY <2>1
  <1>11. \A k \in 1..n : k \in DOMAIN entries
    BY <1>2, <1>3
  <1>12. \A k \in 1..m : n + k \in DOMAIN entries /\ n + k \notin 1..n
    BY <1>2, <1>3
  <1>13. \A k, l \in 1..m : n + k = n + l => k = l
    BY <1>2
  <1>14. /\ \A k \in 1..n : entries[k].before = PlaceBefore(b, a, k) /\ entries[k].after = k
         /\ \A k \in 1..m : entries[n + k].before = ghosts[k] /\ entries[n + k].after = 0
    <2>1. ASSUME NEW k \in 1..n
          PROVE  entries[k].before = PlaceBefore(b, a, k) /\ entries[k].after = k
      <3>1. entries[k] = [before |-> PlaceBefore(b, a, k), after |-> k]
        BY <1>3
      <3> QED BY <3>1
    <2>2. ASSUME NEW k \in 1..m
          PROVE  entries[n + k].before = ghosts[k] /\ entries[n + k].after = 0
      <3>1. entries[n + k] = [before |-> ghosts[k], after |-> 0]
        BY <1>3
      <3> QED BY <3>1
    <2> QED BY <2>1, <2>2
  <1>15. ASSUME NEW i \in DOMAIN b.edges
         PROVE  \E k \in DOMAIN entries :
                   \A l \in DOMAIN entries : entries[l].before = i <=> l = k
    <2>1. CASE i \in Removed(b, a)
      <3>1. PICK k \in 1..m : ghosts[k] = i
        BY <1>8, <2>1
      <3>2. \A l \in 1..n : entries[l].before # i
        BY <1>6, <1>7, <1>14, <2>1
      <3>3. \A l \in 1..m : entries[n + l].before = i <=> l = k
        BY <1>8, <1>14, <3>1
      <3>4. ASSUME NEW l \in DOMAIN entries
            PROVE  entries[l].before = i <=> l = n + k
        BY <1>10, <1>12, <1>13, <3>2, <3>3
      <3> QED BY <1>12, <3>4
    <2>2. CASE i \notin Removed(b, a)
      <3>1. PICK j \in 1..n : <<i, j>> \in M
        BY <1>7, <2>2
      <3>2. \A l \in 1..n : entries[l].before = i <=> l = j
        <4>1. \A l \in 1..n : <<i, l>> \in M => l = j
          BY <1>4, <3>1 DEF Matching
        <4>2. \A l \in 1..n : entries[l].before = i <=> <<i, l>> \in M
          BY <1>6, <1>14
        <4> QED BY <3>1, <4>1, <4>2
      <3>3. \A l \in 1..m : entries[n + l].before # i
        BY <1>8, <1>14, <2>2
      <3>4. ASSUME NEW l \in DOMAIN entries
            PROVE  entries[l].before = i <=> l = j
        BY <1>10, <1>12, <3>2, <3>3
      <3> QED BY <1>11, <3>4
    <2> QED BY <2>1, <2>2
  <1>16. ASSUME NEW j \in DOMAIN a.edges
         PROVE  \E k \in DOMAIN entries :
                   \A l \in DOMAIN entries : entries[l].after = j <=> l = k
    <2>1. j \in 1..n /\ j # 0
      BY <1>2, <1>5
    <2>2. ASSUME NEW l \in DOMAIN entries
          PROVE  entries[l].after = j <=> l = j
      BY <1>10, <1>12, <1>14, <2>1
    <2> QED BY <1>11, <2>1, <2>2
  <1>17. ASSUME NEW p \in (DOMAIN b.edges) \X (DOMAIN a.edges)
         PROVE  p \in pairs <=> p \in M
    <2>1. PICK i \in DOMAIN b.edges, j \in DOMAIN a.edges : p = <<i, j>>
      OBVIOUS
    <2>2. j \in 1..n /\ j # 0
      BY <1>2, <1>5
    <2>3. ASSUME NEW k \in DOMAIN entries, p = <<entries[k].before, entries[k].after>>
          PROVE  p \in M
      <3>1. entries[k].before = i /\ entries[k].after = j
        BY <2>1, <2>3
      <3>2. k \in 1..n
        BY <1>10, <1>14, <2>2, <3>1
      <3>3. k = j /\ PlaceBefore(b, a, j) = i
        BY <1>14, <3>1, <3>2
      <3> QED BY <1>6, <2>1, <2>2, <3>3
    <2>4. ASSUME p \in M
          PROVE  \E k \in DOMAIN entries : p = <<entries[k].before, entries[k].after>>
      <3>1. PlaceBefore(b, a, j) = i
        BY <1>6, <2>1, <2>2, <2>4
      <3> QED BY <1>11, <1>14, <2>1, <2>2, <3>1
    <2> QED BY <2>3, <2>4
  <1>18. M \subseteq (DOMAIN b.edges) \X (DOMAIN a.edges)
    BY <1>4 DEF Matching
  <1> HIDE DEF pairs
  <1>19. pairs \cap ((DOMAIN b.edges) \X (DOMAIN a.edges)) = M
    BY <1>17, <1>18
  <1> QED BY <1>3, <1>15, <1>16, <1>19 DEF n, m, ghosts, entries, M, pairs

\* The union of the first and the last document accounts for every edge of either,
\* however both were commanded, viewed and numbered anew.
THEOREM UnionComplete == Spec => []UnionAccountsForEveryEdge
  <1>1. IInv => UnionAccountsForEveryEdge
    <2> SUFFICES ASSUME IInv
                 PROVE  UnionAccountsForEveryEdge
      OBVIOUS
    <2>1. IsDocument(base) /\ IsDocument(doc)
      BY DEF IInv, Settled
    <2> QED BY <2>1, UnionAccounts DEF UnionAccountsForEveryEdge
  <1> QED BY <1>1, InitSettled, StepSettled, PTL DEF Spec

\* A parent, or an intent, that the union keeps is in it ...
LEMMA SurvivingIsKnown ==
    ASSUME NEW b, NEW a, NEW p
    PROVE  Surviving(b, a, p) \in Optional(DOMAIN b.subgraphs \cup DOMAIN a.subgraphs)
  BY DEF Surviving, Optional

\* ... and one that is in it is kept.
LEMMA KnownSurvives ==
    ASSUME NEW b, NEW a, NEW p \in DOMAIN b.subgraphs \cup DOMAIN a.subgraphs
    PROVE  Surviving(b, a, p) = p
  BY DEF Surviving

\* Entries of type T have a parent that can be replaced.
Reparents(T) ==
    \A e \in T, q \in Optional(Subgraphs) :
        [e EXCEPT !.parent = q] \in T /\ [e EXCEPT !.parent = q].parent = q

\* all is after with the entries of before that are gone.
PutBack(all, b, a, before, after, S, T) ==
    /\ IsPartial(all, S, T)
    /\ DOMAIN all = DOMAIN before \cup DOMAIN after
    /\ \A x \in DOMAIN after : all[x] = after[x]
    /\ \A x \in Gone(before, after) : all[x].parent = Surviving(b, a, before[x].parent)

\* Entries of type T by ids of S, with those that are gone put back.
LEMMA WithGhostsFacts ==
    ASSUME NEW b, NEW a, HasShape(b), HasShape(a), NEW S, NEW T, NEW before, NEW after,
           IsPartial(before, S, T), IsPartial(after, S, T),
           Reparents(T)
    PROVE  PutBack(WithGhosts(b, a, before, after), b, a, before, after, S, T)
  <1> DEFINE all == WithGhosts(b, a, before, after)
             ghost(x) == [before[x] EXCEPT !.parent = Surviving(b, a, before[x].parent)]
  <1>1. DOMAIN b.subgraphs \subseteq Subgraphs /\ DOMAIN a.subgraphs \subseteq Subgraphs
    BY DEF HasShape, IsPartial
  <1>2. \A p : Surviving(b, a, p) \in Optional(Subgraphs)
    BY <1>1, SurvivingIsKnown DEF Optional
  <1>3. \A x \in DOMAIN before :
          ghost(x) \in T /\ ghost(x).parent = Surviving(b, a, before[x].parent)
    BY <1>2 DEF IsPartial, Reparents
  <1>4. all = [x \in DOMAIN before \cup DOMAIN after |->
                 IF x \in DOMAIN after THEN after[x] ELSE ghost(x)]
    BY DEF WithGhosts
  <1> HIDE DEF ghost, all
  <1>5. \A x \in DOMAIN all : all[x] \in T
    BY <1>3, <1>4 DEF IsPartial
  <1>6. IsPartial(all, S, T)
    BY <1>4, <1>5 DEF IsPartial
  <1> QED BY <1>3, <1>4, <1>6 DEF all, Gone, PutBack

\* The nodes of the union.
LEMMA UnionNodesBack ==
    ASSUME NEW b, NEW a, HasShape(b), HasShape(a)
    PROVE  PutBack(UnionNodes(b, a), b, a, b.nodes, a.nodes, Nodes, NodeEntry)
  <1>1. IsPartial(b.nodes, Nodes, NodeEntry) /\ IsPartial(a.nodes, Nodes, NodeEntry)
    BY DEF HasShape
  <1>2. Reparents(NodeEntry)
    BY DEF Reparents, NodeEntry
  <1>3. PutBack(WithGhosts(b, a, b.nodes, a.nodes), b, a, b.nodes, a.nodes, Nodes, NodeEntry)
    BY <1>1, <1>2, WithGhostsFacts
  <1> QED BY <1>3 DEF UnionNodes

\* The lists of the union's subgraphs, made from their parents.
Regrouped(subgraphs, all, nodes, b, a) ==
    /\ DOMAIN subgraphs = DOMAIN all
    /\ \A s \in DOMAIN all :
          /\ subgraphs[s].parent = all[s].parent
          /\ subgraphs[s].children = {n \in DOMAIN nodes : nodes[n].parent = s}
          /\ subgraphs[s].regions = {r \in all[s].regions \cup RemovedRegions(b, a, s) :
                                       r \in DOMAIN all /\ all[r].parent = s}

\* The subgraphs of the union.
LEMMA UnionSubgraphsBack ==
    ASSUME NEW b, NEW a, HasShape(b), HasShape(a),
           NEW all, all = WithGhosts(b, a, b.subgraphs, a.subgraphs)
    PROVE  /\ PutBack(all, b, a, b.subgraphs, a.subgraphs, Subgraphs, SubgraphEntry)
           /\ IsPartial(UnionSubgraphs(b, a), Subgraphs, SubgraphEntry)
           /\ Regrouped(UnionSubgraphs(b, a), all, UnionNodes(b, a), b, a)
  <1> DEFINE nodes == UnionNodes(b, a)
             subgraphs == UnionSubgraphs(b, a)
             children(s) == {n \in DOMAIN nodes : nodes[n].parent = s}
             regions(s) == {r \in all[s].regions \cup RemovedRegions(b, a, s) :
                              r \in DOMAIN all /\ all[r].parent = s}
             entry(s) == [all[s] EXCEPT !.children = children(s), !.regions = regions(s)]
  <1>1. /\ IsPartial(b.subgraphs, Subgraphs, SubgraphEntry)
        /\ IsPartial(a.subgraphs, Subgraphs, SubgraphEntry)
    BY DEF HasShape
  <1>2. Reparents(SubgraphEntry)
    BY DEF Reparents, SubgraphEntry
  <1>3. PutBack(all, b, a, b.subgraphs, a.subgraphs, Subgraphs, SubgraphEntry)
    BY <1>1, <1>2, WithGhostsFacts
  <1>4. IsPartial(all, Subgraphs, SubgraphEntry)
    BY <1>3 DEF PutBack
  <1>5. IsPartial(nodes, Nodes, NodeEntry)
    BY UnionNodesBack DEF PutBack
  <1>6. subgraphs = [s \in DOMAIN all |-> entry(s)]
    BY DEF UnionSubgraphs
  <1>7. \A s \in DOMAIN all : children(s) \in SUBSET Nodes /\ regions(s) \in SUBSET Subgraphs
    <2> HIDE DEF nodes
    <2> QED BY <1>4, <1>5 DEF IsPartial
  <1> HIDE DEF entry, children, regions, nodes, subgraphs
  <1>8. \A s \in DOMAIN all :
          /\ subgraphs[s] \in SubgraphEntry
          /\ subgraphs[s].parent = all[s].parent
          /\ subgraphs[s].children = children(s)
          /\ subgraphs[s].regions = regions(s)
    <2> SUFFICES ASSUME NEW s \in DOMAIN all
                 PROVE  /\ subgraphs[s] \in SubgraphEntry
                        /\ subgraphs[s].parent = all[s].parent
                        /\ subgraphs[s].children = children(s)
                        /\ subgraphs[s].regions = regions(s)
      OBVIOUS
    <2>1. subgraphs[s] = [all[s] EXCEPT !.children = children(s), !.regions = regions(s)]
      BY <1>6 DEF entry
    <2>2. all[s] \in SubgraphEntry
      BY <1>4 DEF IsPartial
    <2> QED BY <1>7, <2>1, <2>2 DEF SubgraphEntry
  <1>9. DOMAIN subgraphs = DOMAIN all
    BY <1>6
  <1>10. IsPartial(subgraphs, Subgraphs, SubgraphEntry)
    BY <1>4, <1>6, <1>8, <1>9 DEF IsPartial
  <1>11. Regrouped(subgraphs, all, nodes, b, a)
    BY <1>8, <1>9 DEF Regrouped, children, regions
  <1> QED BY <1>3, <1>10, <1>11 DEF nodes, subgraphs

\* An edge of the union is an edge of the after document ...
LEMMA DrawnAfter ==
    ASSUME NEW b, NEW a, NEW i
    PROVE  Drawn(b, a, <<"after", i>>) = a.edges[i]
  BY DEF Drawn, Origin

\* ... or one of the before document that keeps the intents there are.
LEMMA DrawnBefore ==
    ASSUME NEW b, NEW a, HasShape(b), HasShape(a), NEW i \in DOMAIN b.edges,
           NEW g, g = Drawn(b, a, <<"before", i>>)
    PROVE  /\ g \in Edge /\ SameEnds(g, b.edges[i])
           /\ {g.from, g.to} \subseteq Optional(DOMAIN b.subgraphs \cup DOMAIN a.subgraphs)
  <1> DEFINE e == b.edges[i]
             known == Optional(DOMAIN b.subgraphs \cup DOMAIN a.subgraphs)
  <1>2. PICK from, to : from = Surviving(b, a, e.from) /\ to = Surviving(b, a, e.to)
    OBVIOUS
  <1>3. from \in known /\ to \in known
    BY <1>2, SurvivingIsKnown
  <1>4. known \subseteq Optional(Subgraphs)
    BY DEF HasShape, IsPartial, Optional
  <1>5. e \in Edge
    BY DEF HasShape
  <1>6. g = Ghost(b, a, e)
    BY DEF Drawn, Origin
  <1> DEFINE stroke == IF e.stroke = "invisible" THEN e.stroke ELSE "dotted"
  <1>7. Ghost(b, a, e) = [e EXCEPT !.stroke = stroke, !.from = from, !.to = to]
    BY <1>2, <1>5 DEF Ghost, Edge
  <1>9. stroke \in Strokes
    BY <1>5 DEF Edge, Strokes
  <1> HIDE DEF e, known, stroke
  <1>8. g \in Edge /\ SameEnds(g, e) /\ g.from = from /\ g.to = to
    <2>1. g = [e EXCEPT !.stroke = stroke, !.from = from, !.to = to]
      BY <1>6, <1>7
    <2>2. from \in Optional(Subgraphs) /\ to \in Optional(Subgraphs)
      BY <1>3, <1>4
    <2> QED BY <1>5, <1>9, <2>1, <2>2 DEF Edge, SameEnds
  <1> QED BY <1>3, <1>8 DEF e, known

\* Where an edge of the union comes from.
FromAfter(e, a) ==
    \E i \in DOMAIN a.edges :
        /\ SameEnds(e, a.edges[i])
        /\ e.from = a.edges[i].from /\ e.to = a.edges[i].to
FromBefore(e, b, a) ==
    \E i \in DOMAIN b.edges :
        /\ SameEnds(e, b.edges[i])
        /\ {e.from, e.to} \subseteq Optional(DOMAIN b.subgraphs \cup DOMAIN a.subgraphs)

\* The union's edges, numbered by their places.
LEMMA UnionEdges ==
    ASSUME NEW b, NEW a, HasShape(b), HasShape(a)
    PROVE  LET edges == UnionOf(b, a).edges IN
           /\ edges \in Seq(Edge)
           /\ DOMAIN edges = DOMAIN UnionOrigins(b, a)
           /\ \A k \in DOMAIN edges :
                 edges[k].id = k - 1 /\ (FromAfter(edges[k], a) \/ FromBefore(edges[k], b, a))
  <1> DEFINE n == Len(a.edges)
             m == Cardinality(Removed(b, a))
             ghosts == Ghosts(b, a)
             origins == UnionOrigins(b, a)
             edges == UnionOf(b, a).edges
             drawn(k) == Drawn(b, a, origins[k])
  <1>1. b.edges \in Seq(Edge) /\ a.edges \in Seq(Edge)
    BY DEF HasShape
  <1>2. /\ n \in Nat /\ m \in Nat /\ DOMAIN a.edges = 1..n
        /\ Enumerates(ghosts, m, Removed(b, a))
        /\ DOMAIN origins = 1..(n + m)
        /\ \A k \in 1..n : origins[k] = <<"after", k>>
        /\ \A k \in 1..m : origins[n + k] = <<"before", ghosts[k]>>
    BY <1>1, OriginPlaces
  <1>3. \A k \in 1..m : ghosts[k] \in DOMAIN b.edges
    BY <1>2 DEF Enumerates, Removed, OpenBefore
  <1>4. edges = [k \in DOMAIN origins |-> [drawn(k) EXCEPT !.id = k - 1]]
    BY DEF UnionOf, UnionId
  <1>5. \A i \in DOMAIN a.edges : a.edges[i] \in Edge
    BY <1>1
  <1> HIDE DEF n, m, ghosts, origins, edges, drawn
  <1>6. ASSUME NEW k \in DOMAIN origins
        PROVE  /\ drawn(k) \in Edge
               /\ FromAfter(drawn(k), a) \/ FromBefore(drawn(k), b, a)
    <2>1. CASE k \in 1..n
      <3>1. drawn(k) = a.edges[k]
        <4>1. drawn(k) = Drawn(b, a, <<"after", k>>)
          BY <1>2, <2>1 DEF drawn
        <4> QED BY <4>1, DrawnAfter
      <3>2. FromAfter(a.edges[k], a)
        BY <1>2, <2>1 DEF FromAfter, SameEnds
      <3> QED BY <1>2, <1>5, <2>1, <3>1, <3>2
    <2>2. CASE k \notin 1..n
      <3>1. k - n \in 1..m /\ n + (k - n) = k
        BY <1>2, <2>2
      <3>2. PICK i \in DOMAIN b.edges : drawn(k) = Drawn(b, a, <<"before", i>>)
        <4>1. drawn(k) = Drawn(b, a, <<"before", ghosts[k - n]>>)
          BY <1>2, <3>1 DEF drawn
        <4> QED BY <1>3, <3>1, <4>1
      <3>3. PICK g : g = drawn(k)
        OBVIOUS
      <3>4. /\ g \in Edge /\ SameEnds(g, b.edges[i])
            /\ {g.from, g.to} \subseteq Optional(DOMAIN b.subgraphs \cup DOMAIN a.subgraphs)
        BY <3>2, <3>3, DrawnBefore
      <3>5. FromBefore(g, b, a)
        BY <3>4 DEF FromBefore
      <3> QED BY <3>3, <3>4, <3>5
    <2> QED BY <2>1, <2>2
  <1>7. ASSUME NEW e \in Edge, NEW k \in DOMAIN origins
        PROVE  LET f == [e EXCEPT !.id = k - 1] IN
               /\ f \in Edge /\ f.id = k - 1
               /\ SameEnds(f, e) /\ f.from = e.from /\ f.to = e.to
    <2>1. k - 1 \in Nat
      BY <1>2
    <2> QED BY <2>1 DEF Edge, SameEnds
  <1>8. ASSUME NEW k \in DOMAIN origins
        PROVE  /\ edges[k] \in Edge /\ edges[k].id = k - 1
               /\ FromAfter(edges[k], a) \/ FromBefore(edges[k], b, a)
    <2>1. PICK e, f : e = drawn(k) /\ f = edges[k]
      OBVIOUS
    <2>2. e \in Edge /\ (FromAfter(e, a) \/ FromBefore(e, b, a))
      BY <1>6, <2>1
    <2>3. f = [e EXCEPT !.id = k - 1]
      BY <1>4, <2>1
    <2>4. f \in Edge /\ f.id = k - 1 /\ SameEnds(f, e) /\ f.from = e.from /\ f.to = e.to
      BY <1>7, <2>2, <2>3
    <2>5. FromAfter(f, a) \/ FromBefore(f, b, a)
      BY <2>2, <2>4 DEF FromAfter, FromBefore, SameEnds
    <2> QED BY <2>1, <2>4, <2>5
  <1>9. DOMAIN edges = DOMAIN origins /\ n + m \in Nat
    BY <1>2, <1>4
  <1>10. edges \in Seq(Edge)
    <2>1. edges \in [1..(n + m) -> Edge]
      BY <1>2, <1>4, <1>8, <1>9
    <2> QED BY <1>9, <2>1
  <1> QED BY <1>8, <1>9, <1>10 DEF edges, origins

\* The union has the shape of a document.
LEMMA UnionShape ==
    ASSUME NEW b, NEW a, HasShape(b), HasShape(a)
    PROVE  /\ HasShape(UnionOf(b, a))
           /\ UnionOf(b, a).nodes = UnionNodes(b, a)
           /\ UnionOf(b, a).subgraphs = UnionSubgraphs(b, a)
           /\ UnionOf(b, a).styles.edges =
                {i - 1 : i \in {j \in DOMAIN UnionOf(b, a).edges :
                                  OriginStyled(b, a, UnionOrigins(b, a)[j])}}
  <1> DEFINE u == UnionOf(b, a)
             origins == UnionOrigins(b, a)
             nodeStyles == a.styles.nodes \cup (b.styles.nodes \cap Gone(b.nodes, a.nodes))
             edgeStyles == {i - 1 : i \in {j \in DOMAIN origins : OriginStyled(b, a, origins[j])}}
  <1>1. u.edges \in Seq(Edge) /\ DOMAIN u.edges = DOMAIN origins
    BY UnionEdges
  <1>2. nodeStyles \subseteq Nodes
    BY DEF HasShape
  <1>3. edgeStyles \subseteq Nat
    <2>1. \A j \in DOMAIN origins : j - 1 \in Nat
      <3>1. \A j \in DOMAIN u.edges : j - 1 \in Nat
        <4> HIDE DEF u
        <4> QED BY <1>1
      <3> QED BY <1>1, <3>1
    <2> QED BY <2>1
  <1>4. /\ IsPartial(UnionNodes(b, a), Nodes, NodeEntry)
        /\ IsPartial(UnionSubgraphs(b, a), Subgraphs, SubgraphEntry)
    BY UnionNodesBack, UnionSubgraphsBack DEF PutBack
  <1>5. a.look \in Looks
    BY DEF HasShape
  <1>6. u = [nodes |-> UnionNodes(b, a), subgraphs |-> UnionSubgraphs(b, a),
             edges |-> u.edges, look |-> a.look,
             styles |-> [nodes |-> nodeStyles, edges |-> edgeStyles]]
    BY DEF UnionOf
  <1> HIDE DEF u, nodeStyles, edgeStyles
  <1>7. [nodes |-> nodeStyles, edges |-> edgeStyles] \in [nodes : SUBSET Nodes, edges : SUBSET Nat]
    BY <1>2, <1>3
  <1>8. HasShape(u)
    BY <1>1, <1>4, <1>5, <1>6, <1>7, ShapeFrom
  <1>9. u.nodes = UnionNodes(b, a) /\ u.subgraphs = UnionSubgraphs(b, a)
        /\ u.styles.edges = edgeStyles
    BY <1>6
  <1> QED BY <1>1, <1>8, <1>9 DEF u, edgeStyles

\* The union of two documents that hydrate does: what is gone keeps no parent, end or
\* intent outside it, and the parents make no cycle, for a walk up leaves what is gone
\* for good once it does.
LEMMA UnionHydrates ==
    ASSUME NEW b, NEW a, HasShape(b), HasShape(a), Hydrates(b), Hydrates(a)
    PROVE  Hydrates(UnionOf(b, a))
  <1> DEFINE u == UnionOf(b, a)
             nodes == UnionNodes(b, a)
             subgraphs == UnionSubgraphs(b, a)
             all == WithGhosts(b, a, b.subgraphs, a.subgraphs)
             known == DOMAIN b.subgraphs \cup DOMAIN a.subgraphs
  <1>1. HasShape(u) /\ u.nodes = nodes /\ u.subgraphs = subgraphs
    BY UnionShape
  <1>2. PutBack(nodes, b, a, b.nodes, a.nodes, Nodes, NodeEntry)
    BY UnionNodesBack
  <1>3. /\ DOMAIN subgraphs = known
        /\ \A s \in DOMAIN a.subgraphs : subgraphs[s].parent = a.subgraphs[s].parent
        /\ \A s \in Gone(b.subgraphs, a.subgraphs) :
              subgraphs[s].parent = Surviving(b, a, b.subgraphs[s].parent)
        /\ \A s \in known : subgraphs[s].children \subseteq DOMAIN nodes
    <2>1. /\ PutBack(all, b, a, b.subgraphs, a.subgraphs, Subgraphs, SubgraphEntry)
          /\ Regrouped(subgraphs, all, nodes, b, a)
      BY UnionSubgraphsBack
    <2> HIDE DEF subgraphs, all, nodes
    <2> QED BY <2>1 DEF PutBack, Regrouped, Gone
  <1>4. known \subseteq Subgraphs /\ None \notin known
    BY IdsAreApart DEF HasShape, IsPartial
  <1> HIDE DEF u, nodes, subgraphs, all
  <1>5. ASSUME NEW n \in DOMAIN u.nodes
        PROVE  u.nodes[n].parent \in Optional(DOMAIN u.subgraphs)
    <2>1. CASE n \in DOMAIN a.nodes
      BY <1>1, <1>2, <1>3, <2>1 DEF Hydrates, Optional, PutBack
    <2>2. CASE n \notin DOMAIN a.nodes
      <3>1. nodes[n].parent = Surviving(b, a, b.nodes[n].parent)
        BY <1>1, <1>2, <2>2 DEF Gone, PutBack
      <3>2. Surviving(b, a, b.nodes[n].parent) \in Optional(known)
        BY SurvivingIsKnown
      <3> QED BY <1>1, <1>3, <3>1, <3>2
    <2> QED BY <2>1, <2>2
  <1>6. ASSUME NEW s \in DOMAIN u.subgraphs
        PROVE  /\ u.subgraphs[s].parent \in Optional(DOMAIN u.subgraphs)
               /\ u.subgraphs[s].children \subseteq DOMAIN u.nodes
    <2>1. u.subgraphs[s].children \subseteq DOMAIN u.nodes
      BY <1>1, <1>3
    <2>2. CASE s \in DOMAIN a.subgraphs
      BY <1>1, <1>3, <2>1, <2>2 DEF Hydrates, Optional
    <2>3. CASE s \notin DOMAIN a.subgraphs
      <3>1. subgraphs[s].parent = Surviving(b, a, b.subgraphs[s].parent)
        BY <1>1, <1>3, <2>3 DEF Gone
      <3>2. Surviving(b, a, b.subgraphs[s].parent) \in Optional(known)
        BY SurvivingIsKnown
      <3> QED BY <1>1, <1>3, <2>1, <3>1, <3>2
    <2> QED BY <2>2, <2>3
  <1>7. Rooted(u)
    <2> SUFFICES ASSUME NEW C \in SUBSET DOMAIN u.subgraphs,
                        \A s \in C : u.subgraphs[s].parent \in C
                 PROVE  C = {}
      BY DEF Rooted
    <2>1. C \subseteq known /\ None \notin C /\ \A s \in C : subgraphs[s].parent \in C
      BY <1>1, <1>3, <1>4
    <2>2. C \cap DOMAIN a.subgraphs = {}
      <3>1. \A s \in C \cap DOMAIN a.subgraphs : a.subgraphs[s].parent \in C \cap DOMAIN a.subgraphs
        BY <1>3, <2>1 DEF Hydrates, Optional
      <3> QED BY <3>1 DEF Hydrates, Rooted
    <2>3. \A s \in C : s \in Gone(b.subgraphs, a.subgraphs)
      BY <2>1, <2>2 DEF Gone
    <2>4. \A s \in C : b.subgraphs[s].parent \in C
      <3> SUFFICES ASSUME NEW s \in C
                   PROVE  b.subgraphs[s].parent \in C
        OBVIOUS
      <3>1. Surviving(b, a, b.subgraphs[s].parent) \in C
        BY <1>3, <2>1, <2>3
      <3>2. Surviving(b, a, b.subgraphs[s].parent) \in {b.subgraphs[s].parent, None}
        BY DEF Surviving
      <3> QED BY <2>1, <3>1, <3>2
    <2>5. C \in SUBSET DOMAIN b.subgraphs
      BY <2>3 DEF Gone
    <2> QED BY <2>4, <2>5 DEF Hydrates, Rooted
  <1>8. ASSUME NEW k \in DOMAIN u.edges
        PROVE  /\ {u.edges[k].source, u.edges[k].target} \subseteq DOMAIN u.nodes
               /\ {u.edges[k].from, u.edges[k].to} \subseteq Optional(DOMAIN u.subgraphs)
    <2>1. FromAfter(u.edges[k], a) \/ FromBefore(u.edges[k], b, a)
      BY UnionEdges DEF u
    <2>2. CASE FromAfter(u.edges[k], a)
      <3>1. PICK i \in DOMAIN a.edges : /\ SameEnds(u.edges[k], a.edges[i])
                                        /\ u.edges[k].from = a.edges[i].from
                                        /\ u.edges[k].to = a.edges[i].to
        BY <2>2 DEF FromAfter
      <3>2. /\ {a.edges[i].source, a.edges[i].target} \subseteq DOMAIN a.nodes
            /\ {a.edges[i].from, a.edges[i].to} \subseteq Optional(DOMAIN a.subgraphs)
        BY DEF Hydrates
      <3> QED BY <1>1, <1>2, <1>3, <3>1, <3>2 DEF SameEnds, Optional, PutBack
    <2>3. CASE FromBefore(u.edges[k], b, a)
      <3>1. PICK i \in DOMAIN b.edges : /\ SameEnds(u.edges[k], b.edges[i])
                                        /\ {u.edges[k].from, u.edges[k].to} \subseteq Optional(known)
        BY <2>3 DEF FromBefore
      <3>2. {b.edges[i].source, b.edges[i].target} \subseteq DOMAIN b.nodes
        BY DEF Hydrates
      <3> QED BY <1>1, <1>2, <1>3, <3>1, <3>2 DEF SameEnds, PutBack
    <2> QED BY <2>1, <2>2, <2>3
  <1> QED BY <1>5, <1>6, <1>7, <1>8 DEF Hydrates, u

\* A document whose ids are positions and whose lists are right stays as it is through a
\* relayout, but for styles of nodes that are gone.
LEMMA SettledStays ==
    ASSUME NEW d, HasShape(d), Dense(d), ChildrenListed(d)
    PROVE  /\ Relaid(d).edges = d.edges
           /\ Relaid(d).subgraphs = d.subgraphs
           /\ Relaid(d).styles.edges = d.styles.edges \cap {i - 1 : i \in DOMAIN d.edges}
  <1> DEFINE S == DOMAIN d.edges
  <1>1. d.edges \in Seq(Edge) /\ S = 1..Len(d.edges) /\ Len(d.edges) \in Nat
    BY DEF HasShape
  <1>2. Ordered(d.edges) = d.edges
    BY <1>1, DenseStays DEF Dense
  <1>3. Relaid(d).edges = d.edges
    <2>1. ASSUME NEW e \in Edge, NEW q, e.id = q
          PROVE  [e EXCEPT !.id = q] = e
      BY <2>1 DEF Edge
    <2>2. \A i \in S : d.edges[i] \in Edge /\ d.edges[i].id = i - 1
      BY <1>1 DEF Dense
    <2>3. \A i \in S : [d.edges[i] EXCEPT !.id = i - 1] = d.edges[i]
      BY <2>1, <2>2
    <2>4. Renumbered(d.edges) = [i \in S |-> d.edges[i]]
      BY <2>3 DEF Renumbered
    <2>5. d.edges = [i \in S |-> d.edges[i]]
      BY <1>1
    <2> QED BY <1>2, <2>4, <2>5, RelaidParts
  <1>4. Relaid(d).subgraphs = d.subgraphs
    <2>1. /\ IsPartial(d.subgraphs, Subgraphs, SubgraphEntry)
          /\ DOMAIN d.nodes \subseteq Nodes
      BY DEF HasShape, IsPartial
    <2>2. \A s \in DOMAIN d.subgraphs : d.subgraphs[s] \in SubgraphEntry /\ s \in Subgraphs
      BY <2>1 DEF IsPartial
    <2>3. \A s \in DOMAIN d.subgraphs : d.subgraphs[s].children = DirectChildren(d, s)
      <3> SUFFICES ASSUME NEW s \in DOMAIN d.subgraphs
                   PROVE  d.subgraphs[s].children = DirectChildren(d, s)
        OBVIOUS
      <3>1. s # None
        BY <2>2, IdsAreApart
      <3>2. DirectChildren(d, s) = {n \in DOMAIN d.nodes : d.nodes[n].parent = s}
        BY <2>2, <3>1, SubgraphInUpwards DEF DirectChildren, Members
      <3> QED BY <3>2 DEF ChildrenListed
    <2>4. ASSUME NEW e \in SubgraphEntry, NEW c, e.children = c
          PROVE  [e EXCEPT !.children = c] = e
      BY <2>4 DEF SubgraphEntry
    <2>5. \A s \in DOMAIN d.subgraphs :
             [d.subgraphs[s] EXCEPT !.children = DirectChildren(d, s)] = d.subgraphs[s]
      BY <2>2, <2>3, <2>4
    <2>6. Relaid(d).subgraphs = [s \in DOMAIN d.subgraphs |-> d.subgraphs[s]]
      <3>1. Relaid(d).subgraphs = [s \in DOMAIN d.subgraphs |->
                                     [d.subgraphs[s] EXCEPT !.children = DirectChildren(d, s)]]
        BY DEF HasShape, Relaid
      <3> QED BY <2>5, <3>1
    <2>7. d.subgraphs = [s \in DOMAIN d.subgraphs |-> d.subgraphs[s]]
      BY <2>1 DEF IsPartial
    <2> QED BY <2>6, <2>7
  <1>5. Relaid(d).styles.edges = {i - 1 : i \in {j \in S : d.edges[j].id \in d.styles.edges}}
    <2>1. Relaid(d).styles = [nodes |-> d.styles.nodes \cap DOMAIN d.nodes,
                              edges |-> StyledPlaces(d, Ordered(d.edges))]
      BY RelaidParts
    <2>2. Relaid(d).styles.edges = StyledPlaces(d, d.edges)
      BY <1>2, <2>1
    <2> QED BY <2>2 DEF StyledPlaces
  <1>6. \A i \in S : d.edges[i].id = i - 1
    BY DEF Dense
  <1>7. ASSUME NEW q
        PROVE  q \in Relaid(d).styles.edges <=> q \in d.styles.edges \cap {i - 1 : i \in S}
    BY <1>5, <1>6
  <1> QED BY <1>3, <1>4, <1>7

\* The union laid out is the union.
LEMMA UnionStays ==
    ASSUME NEW b, NEW a, HasShape(b), HasShape(a)
    PROVE  LET u == UnionOf(b, a) IN
           /\ Relaid(u).edges = u.edges
           /\ Relaid(u).subgraphs = u.subgraphs
           /\ Relaid(u).styles.edges = u.styles.edges
  <1> DEFINE u == UnionOf(b, a)
  <1>1. HasShape(u) /\ u.nodes = UnionNodes(b, a) /\ u.subgraphs = UnionSubgraphs(b, a)
    BY UnionShape
  <1>2. Dense(u)
    BY UnionEdges DEF Dense
  <1>3. ChildrenListed(u)
    <2>1. PICK all : Regrouped(UnionSubgraphs(b, a), all, UnionNodes(b, a), b, a)
      BY UnionSubgraphsBack
    <2> HIDE DEF u
    <2> QED BY <1>1, <2>1 DEF ChildrenListed, Regrouped
  <1>4. u.styles.edges \subseteq {i - 1 : i \in DOMAIN u.edges}
    <2>1. u.styles.edges = {i - 1 : i \in {j \in DOMAIN u.edges :
                                            OriginStyled(b, a, UnionOrigins(b, a)[j])}}
      BY UnionShape
    <2> HIDE DEF u
    <2> QED BY <2>1
  <1> HIDE DEF u
  <1>5. /\ Relaid(u).edges = u.edges
        /\ Relaid(u).subgraphs = u.subgraphs
        /\ Relaid(u).styles.edges = u.styles.edges \cap {i - 1 : i \in DOMAIN u.edges}
    BY <1>1, <1>2, <1>3, SettledStays
  <1> QED BY <1>4, <1>5 DEF u

\* A region that is gone with the union's is a region of its parent still.
LEMMA UnionRegions ==
    ASSUME NEW b, NEW a, HasShape(b), HasShape(a), Hydrates(b),
           NEW r \in Gone(b.subgraphs, a.subgraphs), NEW s, s = b.subgraphs[r].parent,
           s # None, r \in b.subgraphs[s].regions
    PROVE  r \in UnionOf(b, a).subgraphs[s].regions
  <1> DEFINE all == WithGhosts(b, a, b.subgraphs, a.subgraphs)
             subgraphs == UnionSubgraphs(b, a)
  <1>1. r \in DOMAIN b.subgraphs
    BY DEF Gone
  <1>2. s \in DOMAIN b.subgraphs
    BY <1>1 DEF Hydrates, Optional
  <1>3. /\ PutBack(all, b, a, b.subgraphs, a.subgraphs, Subgraphs, SubgraphEntry)
        /\ Regrouped(subgraphs, all, UnionNodes(b, a), b, a)
    BY UnionSubgraphsBack
  <1>4. s \in DOMAIN all /\ r \in DOMAIN all /\ all[r].parent = Surviving(b, a, s)
    <2> HIDE DEF all
    <2> QED BY <1>1, <1>2, <1>3 DEF PutBack
  <1>5. r \in RemovedRegions(b, a, s)
    BY <1>2 DEF RemovedRegions
  <1> HIDE DEF all, subgraphs
  <1>6. Surviving(b, a, s) = s
    BY <1>2, KnownSurvives
  <1>7. r \in subgraphs[s].regions
    BY <1>3, <1>4, <1>5, <1>6 DEF Regrouped
  <1>8. UnionOf(b, a).subgraphs = subgraphs
    BY UnionShape DEF subgraphs
  <1> QED BY <1>7, <1>8

\* The union of the first and the last document is a document like any other, and laying
\* it out keeps the numbers that its entries refer to.
THEOREM UnionCorrect == Spec => []UnionIsADocument
  <1>1. IInv => UnionIsADocument
    <2> SUFFICES ASSUME IInv
                 PROVE  UnionIsADocument
      OBVIOUS
    <2>1. HasShape(base) /\ HasShape(doc) /\ Hydrates(base)
      BY DEF IInv, Settled, IsDocument
    <2>2. Hydrates(doc) => Hydrates(UnionOf(base, doc))
      BY <2>1, UnionHydrates
    <2>3. /\ Relaid(UnionOf(base, doc)).edges = UnionOf(base, doc).edges
          /\ Relaid(UnionOf(base, doc)).subgraphs = UnionOf(base, doc).subgraphs
          /\ Relaid(UnionOf(base, doc)).styles.edges = UnionOf(base, doc).styles.edges
      BY <2>1, UnionStays
    <2>4. ASSUME NEW r \in Gone(base.subgraphs, doc.subgraphs),
                 base.subgraphs[r].parent # None,
                 r \in base.subgraphs[base.subgraphs[r].parent].regions
          PROVE  r \in UnionOf(base, doc).subgraphs[base.subgraphs[r].parent].regions
      BY <2>1, <2>4, UnionRegions
    <2> QED BY <2>2, <2>3, <2>4 DEF UnionIsADocument
  <1> QED BY <1>1, InitSettled, StepSettled, PTL DEF Spec

=============================================================================
