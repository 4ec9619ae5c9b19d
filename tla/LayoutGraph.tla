---------------------------- MODULE LayoutGraph ----------------------------
(***************************************************************************)
(* The part of the layered kernel's LayoutGraph that every phase of the    *)
(* pipeline shares: the nodes, the list of directed edges and the set of   *)
(* positions in that list whose edge is to be read backwards.  Edges are   *)
(* identified by their position, as in the code; nodes are numbered from 1 *)
(* instead of 0.                                                           *)
(***************************************************************************)
EXTENDS Naturals, Sequences

VARIABLES
  nodes,     \* the indices of node_ids: 1..n, to which phases add at the end
  edges,     \* sequence of records with at least the fields from and to
  reversed   \* reversed_edges: positions of edges read backwards

graphVars == <<nodes, edges, reversed>>

Positions == DOMAIN edges

\* effective_edges, read one position at a time.
Source(k) == IF k \in reversed THEN edges[k].to ELSE edges[k].from
Target(k) == IF k \in reversed THEN edges[k].from ELSE edges[k].to
============================================================================
