---------------------------- MODULE MCDocuments ----------------------------
(***************************************************************************)
(* Documents to begin with: what the compilers produce, on three nodes and *)
(* three subgraphs.                                                        *)
(***************************************************************************)
EXTENDS Documents, TLC

NodeIn(parent) == [parent |-> parent, look |-> "plain"]
SubgraphIn(parent, regions) ==
    [parent |-> parent, look |-> "plain", children |-> {}, regions |-> regions]
Plain(i, source, target, label) ==
    [id |-> i - 1, uid |-> i, source |-> source, target |-> target,
     from |-> None, to |-> None, label |-> label, stroke |-> "solid"]
Unstyled == [nodes |-> {}, edges |-> {}]

\* Two edges between the same nodes, told apart by their labels; no subgraph.
Parallel ==
    [nodes |-> [n \in {"A", "B", "C"} |-> NodeIn(None)],
     subgraphs |-> <<>>,
     edges |-> <<Plain(1, "A", "B", "x"), Plain(2, "A", "B", "y"), Plain(3, "C", "B", "x")>>,
     look |-> "plain", styles |-> [nodes |-> {"A"}, edges |-> {1}]]

\* A chain whose middle edge is styled, with a subgraph.
Chain ==
    [nodes |-> ("A" :> NodeIn("S")) @@ ("B" :> NodeIn(None)) @@ ("C" :> NodeIn("S")),
     subgraphs |-> "S" :> SubgraphIn(None, {}),
     edges |-> <<Plain(1, "A", "B", "x"), Plain(2, "B", "C", "x"), Plain(3, "A", "C", "x")>>,
     look |-> "plain", styles |-> [nodes |-> {}, edges |-> {1}]]

\* A composite with a region, an edge that leaves the region as a whole.
Nested ==
    [nodes |-> ("A" :> NodeIn("T")) @@ ("B" :> NodeIn("S")),
     subgraphs |-> ("S" :> SubgraphIn(None, {"T"})) @@ ("T" :> SubgraphIn("S", {})),
     edges |-> <<[Plain(1, "A", "B", "x") EXCEPT !.from = "T"], Plain(2, "B", "A", "x")>>,
     look |-> "plain", styles |-> [nodes |-> {"B"}, edges |-> {0}]]

\* Two edges that nothing but their ids tells apart.
Twins ==
    [nodes |-> [n \in {"A", "B"} |-> NodeIn(None)],
     subgraphs |-> <<>>,
     edges |-> <<Plain(1, "A", "B", "x"), Plain(2, "A", "B", "x")>>,
     look |-> "plain", styles |-> Unstyled]

\* Three levels, edges between them and one with an intent at both ends.
Deep ==
    [nodes |-> ("A" :> NodeIn("U")) @@ ("B" :> NodeIn("T")) @@ ("C" :> NodeIn("S")),
     subgraphs |-> ("S" :> SubgraphIn(None, {})) @@ ("T" :> SubgraphIn("S", {"U"}))
                       @@ ("U" :> SubgraphIn("T", {})),
     edges |-> <<Plain(1, "A", "B", "x"), [Plain(2, "A", "B", "y") EXCEPT !.from = "U", !.to = "T"],
                 Plain(3, "C", "A", "x")>>,
     look |-> "plain", styles |-> [nodes |-> {"A"}, edges |-> {2}]]

ThreeNodes == {"A", "B", "C"}
ThreeSubgraphs == {"S", "T", "U"}
NoId == "none"
Compiled == {Parallel, Chain, Nested, Twins, Deep}
=============================================================================
