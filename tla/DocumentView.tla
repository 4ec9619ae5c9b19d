---------------------------- MODULE DocumentView ----------------------------
(***************************************************************************)
(* Materialized views of a document (src/src/views). A view specification  *)
(* is a list of selectors to include or exclude; including the anchors of  *)
(* any nodes and subgraphs keeps exactly them, so a view is given by what  *)
(* its specification evaluates to: a set of nodes and one of subgraphs.    *)
(***************************************************************************)
EXTENDS MmdsDocument

\* mutant: the subgraphs themselves, without those around them
NamedSubgraphs(d, nodes, subgraphs) ==
    subgraphs \cup ({d.nodes[n].parent : n \in nodes} \ {None})

\* The kept subgraphs and every subgraph around them or around a kept node.
RetainedSubgraphs(d, nodes, subgraphs) ==
    UNION {Upwards(d, s) : s \in subgraphs \cup ({d.nodes[n].parent : n \in nodes} \ {None})}

\* The view of d that keeps these nodes and subgraphs: edges keep their ids, and
\* the style extension is copied whole.
ViewOf(d, nodes, subgraphs) ==
    LET retained == RetainedSubgraphs(d, nodes, subgraphs)
        inside == {i \in DOMAIN d.edges : {d.edges[i].source, d.edges[i].target} \subseteq nodes}
    IN [d EXCEPT
          !.nodes = [n \in nodes |-> d.nodes[n]],
          !.edges = Kept(d.edges, inside),
          !.subgraphs = [s \in retained \cap DOMAIN d.subgraphs |->
                            [d.subgraphs[s] EXCEPT !.children = @ \cap nodes,
                                                   !.regions = @ \cap retained]]]
=============================================================================
