---------------------------- MODULE MmdsDocument ----------------------------
(***************************************************************************)
(* MMDS documents (src/src/mmds): what a document is, when it hydrates into *)
(* a graph, and what a relayout makes of it: the graph is laid out and     *)
(* written as a document again. Geometry is left out; one attribute stands *)
(* for the labels, shapes, titles and directions that are only carried.    *)
(*                                                                         *)
(* Nodes and subgraphs are functions from their ids, since a relayout      *)
(* sorts them by id. Edges are a sequence; the id "e7" is the number 7. An *)
(* edge's uid is an auxiliary identity that no operation reads: it lets a  *)
(* property say which edge of one document an edge of another really is.   *)
(***************************************************************************)
EXTENDS Integers, Sequences, FiniteSets

CONSTANTS
    Nodes,        \* the node ids there may be
    Subgraphs,    \* the subgraph ids there may be
    None          \* no parent, no endpoint intent

ASSUME IdsAreApart == Nodes \cap Subgraphs = {} /\ None \notin Nodes \cup Subgraphs

Looks == {"plain", "fancy"}
Labels == {"x", "y"}
Strokes == {"solid", "dotted", "invisible"}

Optional(S) == S \cup {None}

Edge == [id : Nat, uid : Nat, source : Nodes, target : Nodes,
         from : Optional(Subgraphs), to : Optional(Subgraphs),
         label : Labels, stroke : Strokes]

NodeEntry == [parent : Optional(Subgraphs), look : Looks]
SubgraphEntry == [parent : Optional(Subgraphs), look : Looks,
                  children : SUBSET Nodes, regions : SUBSET Subgraphs]

\* A function from some of S to T.
IsPartial(f, S, T) == DOMAIN f \in SUBSET S /\ f \in [DOMAIN f -> T]

\* nodes and subgraphs are partial functions from ids; styles is the node style
\* extension: the nodes and the edge ids it has an entry for.
HasShape(d) ==
    /\ d = [nodes |-> d.nodes, subgraphs |-> d.subgraphs, edges |-> d.edges,
            look |-> d.look, styles |-> d.styles]
    /\ IsPartial(d.nodes, Nodes, NodeEntry)
    /\ IsPartial(d.subgraphs, Subgraphs, SubgraphEntry)
    /\ d.edges \in Seq(Edge)
    /\ d.look \in Looks
    /\ d.styles \in [nodes : SUBSET Nodes, edges : SUBSET Nat]

IsDocument(d) ==
    /\ HasShape(d)
    /\ \A i, j \in DOMAIN d.edges : d.edges[i].id = d.edges[j].id => i = j

(***************************************************************************)
(* Hydration.                                                              *)
(***************************************************************************)

\* C holds the parent of each of its members that has one.
ClosedUp(d, C) ==
    \A s \in C \cap DOMAIN d.subgraphs : d.subgraphs[s].parent \in Optional(C)

\* s, its parent, and so on.
Upwards(d, s) ==
    {t \in Subgraphs : \A C \in SUBSET Subgraphs : s \in C /\ ClosedUp(d, C) => t \in C}

\* No walk from a subgraph to its parent and on goes on for ever.
Rooted(d) ==
    \A C \in SUBSET DOMAIN d.subgraphs :
        (\A s \in C : d.subgraphs[s].parent \in C) => C = {}

Hydrates(d) ==
    /\ \A n \in DOMAIN d.nodes : d.nodes[n].parent \in Optional(DOMAIN d.subgraphs)
    /\ \A s \in DOMAIN d.subgraphs :
          /\ d.subgraphs[s].parent \in Optional(DOMAIN d.subgraphs)
          /\ d.subgraphs[s].children \subseteq DOMAIN d.nodes
    /\ Rooted(d)
    /\ \A i \in DOMAIN d.edges :
          /\ {d.edges[i].source, d.edges[i].target} \subseteq DOMAIN d.nodes
          /\ {d.edges[i].from, d.edges[i].to} \subseteq Optional(DOMAIN d.subgraphs)

(***************************************************************************)
(* Relayout.                                                               *)
(***************************************************************************)

\* The keys of turn, whose turns are 1, 2 and so on, in the order of their turns.
ByTurn(turn) ==
    [p \in 1..Cardinality(DOMAIN turn) |-> CHOOSE i \in DOMAIN turn : turn[i] = p]

\* The edges by number, and in document order where two share one.
Ordered(edges) ==
    LET upTo(i) == {j \in DOMAIN edges : \/ edges[j].id < edges[i].id
                                         \/ edges[j].id = edges[i].id /\ j <= i}
        order == ByTurn([i \in DOMAIN edges |-> Cardinality(upTo(i))])
    IN [p \in DOMAIN order |-> edges[order[p]]]

\* These places, from the first to the last.
InOrder(places) == ByTurn([i \in places |-> Cardinality({j \in places : j <= i})])

\* The edges at these places, in order.
Kept(edges, places) ==
    LET order == InOrder(places) IN [p \in DOMAIN order |-> edges[order[p]]]

\* The nodes a hydrated graph lists under s, nested ones too.
Members(d, s) == {n \in DOMAIN d.nodes : d.nodes[n].parent # None
                                         /\ s \in Upwards(d, d.nodes[n].parent)}
\* mutant: the hydrated list written as it is
AllChildren(d, s) == Members(d, s)

DirectChildren(d, s) == {n \in Members(d, s) : d.nodes[n].parent = s}

\* Edges are numbered anew, and an edge's style moves with it.
Renumbered(edges) == [i \in DOMAIN edges |-> [edges[i] EXCEPT !.id = i - 1]]

\* mutant: styles looked up under the new numbers
StyledNumbers(d, edges) == {i - 1 : i \in {j \in DOMAIN edges : j - 1 \in d.styles.edges}}

StyledPlaces(d, edges) == {i - 1 : i \in {j \in DOMAIN edges : edges[j].id \in d.styles.edges}}

Relaid(d) ==
    LET edges == Ordered(d.edges) IN
    [d EXCEPT
        !.edges = Renumbered(edges),
        !.subgraphs = [s \in DOMAIN d.subgraphs |->
                          [d.subgraphs[s] EXCEPT !.children = DirectChildren(d, s)]],
        !.styles = [nodes |-> d.styles.nodes \cap DOMAIN d.nodes,
                    edges |-> StyledPlaces(d, edges)]]

Dense(d) == \A i \in DOMAIN d.edges : d.edges[i].id = i - 1

Uids(d) == {d.edges[i].uid : i \in DOMAIN d.edges}
=============================================================================
