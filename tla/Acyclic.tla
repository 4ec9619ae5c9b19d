------------------------------ MODULE Acyclic ------------------------------
(***************************************************************************)
(* acyclic::run_with_policy under AcyclicPolicy::DfsOnly: a depth-first    *)
(* search that reverses every edge whose target is still on the search     *)
(* path.  The recursion of dfs_find_back_edges is the sequence stack, whose *)
(* last element is the running call; one step is one iteration of the loop *)
(* over the adjacency list, or the return of a call.                       *)
(*                                                                         *)
(* finish and clock are history variables: they number the calls in the    *)
(* order in which they return.  The code does not keep them, and no guard  *)
(* reads them; they state what the search achieves.                        *)
(***************************************************************************)
EXTENDS LayoutGraph

VARIABLES
  visited,   \* nodes whose call has begun
  stack,     \* the running calls, outermost first; in_stack is its range
  examined,  \* positions of the edges the loops have passed
  finish,    \* finish[v] > 0: the call of v has returned, as finish[v]-th
  clock      \* number of calls that have returned

searchVars == <<visited, stack, examined, finish, clock>>

SearchStart ==
  /\ visited = {}
  /\ stack = <<>>
  /\ examined = {}
  /\ finish = [v \in nodes |-> 0]
  /\ clock = 0

\* Mutants of OnStack: only the caller is looked at; in_stack is never reset.
OnStackCaller(v) == v = stack[Len(stack)] \/ (Len(stack) > 1 /\ v = stack[Len(stack) - 1])
OnStackEver(v) == v \in visited

OnStack(v) == \E i \in DOMAIN stack : stack[i] = v

Running == stack[Len(stack)]

\* The rest of the running call's adjacency list.
Pending == {k \in Positions \ examined : edges[k].from = Running}

Enter(v) == visited' = visited \union {v} /\ stack' = Append(stack, v)

\* The outer loop calls the search on the lowest node not yet visited.
Begin ==
  /\ stack = <<>>
  /\ \E v \in nodes \ visited :
       /\ \A w \in nodes \ visited : v <= w
       /\ Enter(v)
  /\ UNCHANGED <<nodes, edges, reversed, examined, finish, clock>>

\* One iteration of the loop over the adjacency list, in edge order.
Examine(k) ==
  /\ stack # <<>>
  /\ k \in Pending
  /\ \A j \in Pending : k <= j
  /\ examined' = examined \union {k}
  /\ UNCHANGED <<nodes, edges, finish, clock>>

Descend ==
  \E k \in Positions :
    /\ Examine(k)
    /\ edges[k].to \notin visited
    /\ Enter(edges[k].to)
    /\ UNCHANGED reversed

MarkBack ==
  \E k \in Positions :
    /\ Examine(k)
    /\ edges[k].to \in visited
    /\ OnStack(edges[k].to)
    /\ reversed' = reversed \union {k}
    /\ UNCHANGED <<visited, stack>>

Pass ==
  \E k \in Positions :
    /\ Examine(k)
    /\ edges[k].to \in visited
    /\ ~OnStack(edges[k].to)
    /\ UNCHANGED <<reversed, visited, stack>>

Return ==
  /\ stack # <<>>
  /\ Pending = {}
  /\ stack' = SubSeq(stack, 1, Len(stack) - 1)
  /\ clock' = clock + 1
  /\ finish' = [finish EXCEPT ![Running] = clock + 1]
  /\ UNCHANGED <<nodes, edges, reversed, visited, examined>>

AcyclicNext == Begin \/ Descend \/ MarkBack \/ Pass \/ Return

SearchDone == stack = <<>> /\ nodes \subseteq visited
----------------------------------------------------------------------------
(***************************************************************************)
(* Once the search has ended, reading the marked edges backwards leaves a  *)
(* graph without a directed cycle, self edges aside: the order in which    *)
(* the calls returned is a topological order of it, every effective edge   *)
(* leading from a node that finished later to one that finished earlier.   *)
(* It is what the ranking phases rest on: Kahn's algorithm in longest_path *)
(* reaches every node, and the recursion of dagre_longest_path ends.       *)
(***************************************************************************)
EffectiveEdgesDescend ==
  SearchDone =>
    \A k \in Positions :
      edges[k].from # edges[k].to => finish[Target(k)] < finish[Source(k)]

(***************************************************************************)
(* The search marks no more than it must: an edge is marked only if its    *)
(* reversal is forced by a path of the search, that is by a directed cycle *)
(* through it in the graph as written.  (acyclic.rs: "preserves the        *)
(* natural forward flow of the graph".)                                    *)
(***************************************************************************)
Closed(S) == \A k \in Positions : edges[k].from \in S => edges[k].to \in S

LeadsTo(v, w) == \A S \in SUBSET nodes : v \in S /\ Closed(S) => w \in S

ReversedOnlyInCycles ==
  SearchDone => \A k \in reversed : LeadsTo(edges[k].to, edges[k].from)
============================================================================
