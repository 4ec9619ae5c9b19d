--------------------------- MODULE LayeringProofs ---------------------------
(***************************************************************************)
(* Results about the first phases of layout_with_labels, for every         *)
(* graph.                                                                  *)
(*                                                                         *)
(* The depth-first search of the acyclic phase leaves a graph without a    *)
(* directed cycle.  The argument: of the two ends of an edge already       *)
(* examined, read in its effective direction, the target returns first.    *)
(* While the search runs, "returns first" means that the target has        *)
(* returned and the source has not yet, or did so later, or that both      *)
(* calls are running and the target's is the inner one.  And it marks no   *)
(* edge it need not: the running calls are a path in the graph as written. *)
(*                                                                         *)
(* The ranking keeps its ranks feasible and its tree tight.  That the      *)
(* ranking is given a graph takes the phases before it: what they take     *)
(* out, stretch and add leaves a list of edges between nodes, none of them *)
(* a compound.  The steps of the ranking itself are in                     *)
(* NetworkSimplexProofs.                                                   *)
(*                                                                         *)
(* What normalize::run leaves in the place of the edges draws each of      *)
(* them, once and from end to end.  The argument goes over all the phases: *)
(* the edges the frames and titles add are told from those of the graph by *)
(* their ends (Scaffold); what the ranking promises the latter (Steps)     *)
(* outlives the removal of the empty ranks and the edges marked as         *)
(* climbing; and the loop that breaks the long ones keeps chains that are  *)
(* complete, disjoint and on the ranks between the ends (ChainsInv).       *)
(*                                                                         *)
(* And the frames of the compounds hold their nodes. Feasible ranks keep   *)
(* them between the borders by the frames' own edges (FramesLink), and     *)
(* this outlives the removal of empty ranks, the clean-up and the titles   *)
(* (FramesHold). A chain stands on the ranks between its ends              *)
(* (ChainsStand), so parent_dummy_chains, which compares ranks on the way  *)
(* from one end to the other, puts each of its nodes into frames that      *)
(* reach to its rank. What an edge leaves a frame for is kept below it in  *)
(* the same way (ExitsLink, ExitsHold); that no path leads back is said by *)
(* a set the edges do not leave (AwayFrom). The same facts type the        *)
(* pipeline, with one about the growth of the tree: every round adds a     *)
(* node, so it ends before its limit (TreeGrows).                          *)
(***************************************************************************)
EXTENDS Layering, NetworkSimplexProofs

\* Edges join nodes.
EdgesInGraph == \A k \in Positions : edges[k].from \in nodes /\ edges[k].to \in nodes

AcyclicTypeOK ==
  /\ EdgesInGraph
  /\ visited \subseteq nodes
  /\ stack \in Seq(nodes)
  /\ examined \subseteq Positions
  /\ reversed \subseteq examined
  /\ finish \in [nodes -> Nat]
  /\ clock \in Nat

\* The running calls are distinct, begun and not returned.
StackRuns ==
  /\ \A i \in 1..Len(stack) : stack[i] \in visited /\ finish[stack[i]] = 0
  /\ \A i, j \in 1..Len(stack) : stack[i] = stack[j] => i = j

\* Every call begun has returned or is running.
CallsAccounted ==
  \A v \in nodes :
    /\ finish[v] <= clock
    /\ v \notin visited => finish[v] = 0
    /\ v \in visited /\ finish[v] = 0 => OnStack(v)

\* A call returns when its adjacency list is exhausted.
ListsExhausted ==
  \A k \in Positions : finish[edges[k].from] > 0 => k \in examined

InnerCall(t, u) ==
  \E i, j \in 1..Len(stack) : i < j /\ stack[i] = u /\ stack[j] = t

ReturnsFirst(t, u) ==
  \/ finish[t] > 0 /\ (finish[u] > 0 => finish[t] < finish[u])
  \/ InnerCall(t, u)

ExaminedDescend ==
  \A k \in examined :
    edges[k].from # edges[k].to => ReturnsFirst(Target(k), Source(k))

SearchInv ==
  AcyclicTypeOK /\ StackRuns /\ CallsAccounted /\ ListsExhausted /\ ExaminedDescend

\* Each running call was reached from the outer ones, and every edge marked so far
\* closes a cycle.
StackIsPath ==
  \A i, j \in 1..Len(stack) : i <= j => LeadsTo(stack[i], stack[j])

MarksCloseCycles == \A k \in reversed : LeadsTo(edges[k].to, edges[k].from)

PathInv == StackIsPath /\ MarksCloseCycles
----------------------------------------------------------------------------
(* Sequences as stacks.                                                    *)

\* What Append does to a stack of calls (dfs_find_back_edges, the call).
LEMMA PushFacts ==
  ASSUME NEW S, NEW s \in Seq(S), NEW v \in S
  PROVE  /\ Append(s, v) \in Seq(S)
         /\ Len(Append(s, v)) = Len(s) + 1
         /\ \A i \in 1..Len(s) : Append(s, v)[i] = s[i]
         /\ Append(s, v)[Len(s) + 1] = v
  OBVIOUS

\* What dropping the last element does (dfs_find_back_edges, the return).
LEMMA PopFacts ==
  ASSUME NEW S, NEW s \in Seq(S), s # <<>>
  PROVE  /\ Len(s) \in Nat \ {0}
         /\ s[Len(s)] \in S
         /\ SubSeq(s, 1, Len(s) - 1) \in Seq(S)
         /\ Len(SubSeq(s, 1, Len(s) - 1)) = Len(s) - 1
         /\ \A i \in 1..(Len(s) - 1) : SubSeq(s, 1, Len(s) - 1)[i] = s[i]
  <1>1. Len(s) \in Nat \ {0}
    BY EmptySeq
  <1>2. \A i \in 1..Len(s) : s[i] \in S
    BY ElementOfSeq
  <1> DEFINE n == Len(s) - 1
  <1>3. n \in Nat /\ \A i \in 1..n : s[i] \in S
    BY <1>1, <1>2
  <1>4. /\ SubSeq(s, 1, n) \in Seq(S)
        /\ Len(SubSeq(s, 1, n)) = IF 1 <= n THEN n - 1 + 1 ELSE 0
        /\ \A i \in 1..(n - 1 + 1) : SubSeq(s, 1, n)[i] = s[1 + i - 1]
    <2> HIDE DEF n
    <2> QED BY <1>3, SubSeqProperties
  <1>5. \A i \in 1..n : SubSeq(s, 1, n)[i] = s[i]
    <2> HIDE DEF n
    <2> QED BY <1>3, <1>4
  <1>6. Len(SubSeq(s, 1, n)) = n
    <2> HIDE DEF n
    <2> QED BY <1>3, <1>4
  <1>7. s[Len(s)] \in S
    BY <1>1, <1>2
  <1> QED BY <1>1, <1>4, <1>5, <1>6, <1>7

\* The ends of an edge are nodes, whichever way it is read.
LEMMA EndsAreNodes ==
  ASSUME EdgesInGraph, NEW k \in Positions
  PROVE  /\ edges[k].from \in nodes /\ edges[k].to \in nodes
         /\ Source(k) \in nodes /\ Target(k) \in nodes
  BY DEF EdgesInGraph, Positions, Source, Target

\* OnStack speaks of the positions 1..Len(stack).
LEMMA OnStackFacts ==
  ASSUME stack \in Seq(nodes), NEW v
  PROVE  OnStack(v) <=> \E i \in 1..Len(stack) : stack[i] = v
  BY DEF OnStack
----------------------------------------------------------------------------
(* One lemma for each kind of step of the stack.                           *)

\* Beginning a call keeps the order of returns.
LEMMA EnterKeeps ==
  ASSUME AcyclicTypeOK, NEW v \in nodes, Enter(v), nodes' = nodes, finish' = finish,
         NEW t \in nodes, NEW u \in nodes, ReturnsFirst(t, u)
  PROVE  ReturnsFirst(t, u)'
  <1>1. CASE finish[t] > 0 /\ (finish[u] > 0 => finish[t] < finish[u])
    BY <1>1 DEF ReturnsFirst
  <1>2. CASE InnerCall(t, u)
    <2>1. PICK i, j \in 1..Len(stack) : i < j /\ stack[i] = u /\ stack[j] = t
      BY <1>2 DEF InnerCall
    <2>2. /\ Len(stack') = Len(stack) + 1
          /\ stack'[i] = u /\ stack'[j] = t
      BY <2>1, PushFacts DEF AcyclicTypeOK, Enter
    <2>3. i \in 1..Len(stack') /\ j \in 1..Len(stack')
      BY <2>1, <2>2 DEF AcyclicTypeOK
    <2> QED BY <2>1, <2>2, <2>3 DEF ReturnsFirst, InnerCall
  <1> QED BY <1>1, <1>2 DEF ReturnsFirst

\* A call that begins joins the running ones.
LEMMA EnterAccounts ==
  ASSUME AcyclicTypeOK, StackRuns, CallsAccounted,
         NEW v \in nodes \ visited, Enter(v), UNCHANGED <<nodes, finish, clock>>
  PROVE  /\ visited' \subseteq nodes /\ stack' \in Seq(nodes)
         /\ StackRuns'
         /\ CallsAccounted'
  <1>1. /\ visited' = visited \union {v}
        /\ stack' \in Seq(nodes)
        /\ Len(stack') = Len(stack) + 1
        /\ \A i \in 1..Len(stack) : stack'[i] = stack[i]
        /\ stack'[Len(stack) + 1] = v
    BY PushFacts DEF AcyclicTypeOK, Enter
  <1>2. finish[v] = 0
    BY DEF CallsAccounted
  <1>3. \A i \in 1..Len(stack') : i \in 1..Len(stack) \/ i = Len(stack) + 1
    BY <1>1 DEF AcyclicTypeOK
  <1>4. \A i \in 1..Len(stack) : stack[i] # v
    BY DEF StackRuns
  <1>5. StackRuns'
    <2>1. ASSUME NEW i \in 1..Len(stack')
          PROVE  stack'[i] \in visited' /\ finish'[stack'[i]] = 0
      BY <1>1, <1>2, <1>3 DEF StackRuns
    <2>2. ASSUME NEW i \in 1..Len(stack'), NEW j \in 1..Len(stack'), stack'[i] = stack'[j]
          PROVE  i = j
      BY <1>1, <1>3, <1>4, <2>2 DEF StackRuns
    <2> QED BY <2>1, <2>2 DEF StackRuns
  <1>6. ASSUME NEW w \in nodes, w \in visited', finish'[w] = 0
        PROVE  \E i \in 1..Len(stack') : stack'[i] = w
    <2>1. CASE w = v
      BY <2>1, <1>1 DEF AcyclicTypeOK
    <2>2. CASE w # v
      <3>1. PICK i \in 1..Len(stack) : stack[i] = w
        BY <1>1, <1>6, <2>2, OnStackFacts DEF CallsAccounted, AcyclicTypeOK
      <3> QED BY <3>1, <1>1 DEF AcyclicTypeOK
    <2> QED BY <2>1, <2>2
  <1>7. \A w \in nodes : w \in visited' /\ finish'[w] = 0 => OnStack(w)'
    BY <1>1, <1>6 DEF OnStack
  <1> QED BY <1>1, <1>5, <1>7 DEF CallsAccounted, AcyclicTypeOK

\* An effective edge that was examined before stays as it is.
LEMMA ExaminedKeep ==
  ASSUME AcyclicTypeOK, ExaminedDescend, nodes' = nodes, edges' = edges,
         \A k \in examined : k \in reversed' <=> k \in reversed,
         \A t, u \in nodes : ReturnsFirst(t, u) => ReturnsFirst(t, u)',
         NEW k \in examined, edges[k].from # edges[k].to
  PROVE  ReturnsFirst(Target(k), Source(k))'
  <1>1. Target(k)' = Target(k) /\ Source(k)' = Source(k)
    BY DEF Target, Source
  <1>2. Target(k) \in nodes /\ Source(k) \in nodes
    BY EndsAreNodes DEF AcyclicTypeOK
  <1>3. ReturnsFirst(Target(k), Source(k))
    BY DEF ExaminedDescend
  <1>4. PICK t, u \in nodes : t = Target(k) /\ u = Source(k)
    BY <1>2
  <1>5. ReturnsFirst(t, u)'
    BY <1>3, <1>4
  <1> QED BY <1>1, <1>4, <1>5 DEF ReturnsFirst, InnerCall

\* A return keeps the order of returns, and the call that returns comes after
\* every call that has returned.
LEMMA ReturnKeeps ==
  ASSUME AcyclicTypeOK, StackRuns, CallsAccounted, Return,
         NEW t \in nodes, NEW u \in nodes, ReturnsFirst(t, u)
  PROVE  ReturnsFirst(t, u)'
  <1> DEFINE n == Len(stack)
  <1>1. /\ n \in Nat \ {0} /\ stack[n] \in nodes
        /\ Len(stack') = n - 1
        /\ \A i \in 1..(n - 1) : stack'[i] = stack[i]
    BY PopFacts DEF AcyclicTypeOK, Return
  <1>2. /\ finish' = [finish EXCEPT ![stack[n]] = clock + 1]
        /\ finish[stack[n]] = 0
        /\ clock \in Nat
    BY <1>1 DEF Return, Running, StackRuns, AcyclicTypeOK
  <1>3. \A v \in nodes : finish[v] \in Nat /\ finish[v] <= clock
    BY DEF AcyclicTypeOK, CallsAccounted
  <1>4. /\ \A v \in nodes : v # stack[n] => finish'[v] = finish[v]
        /\ finish'[stack[n]] = clock + 1
    BY <1>1, <1>2 DEF AcyclicTypeOK
  <1>5. CASE finish[t] > 0 /\ (finish[u] > 0 => finish[t] < finish[u])
    <2>1. finish'[t] = finish[t] /\ finish[t] < clock + 1
      BY <1>2, <1>3, <1>4, <1>5
    <2>2. finish'[u] > 0 => finish'[t] < finish'[u]
      BY <1>1, <1>4, <1>5, <2>1
    <2> QED BY <1>5, <2>1, <2>2 DEF ReturnsFirst
  <1>6. CASE InnerCall(t, u)
    <2>1. PICK i, j \in 1..n : i < j /\ stack[i] = u /\ stack[j] = t
      BY <1>6 DEF InnerCall
    <2>2. CASE j = n
      <3>1. u # stack[n] /\ finish[u] = 0
        BY <1>1, <2>1, <2>2 DEF StackRuns
      <3>2. finish'[u] = 0 /\ finish'[t] = clock + 1
        BY <1>4, <2>1, <2>2, <3>1
      <3> QED BY <1>2, <3>2 DEF ReturnsFirst
    <2>3. CASE j # n
      <3>1. i \in 1..(n - 1) /\ j \in 1..(n - 1)
        <4>1. n \in Nat /\ i \in 1..n /\ j \in 1..n /\ i < j
          BY <1>1, <2>1
        <4> HIDE DEF n
        <4> QED  BY <2>3, <4>1
      <3>2. /\ i \in 1..Len(stack') /\ j \in 1..Len(stack')
            /\ stack'[i] = u /\ stack'[j] = t
        BY <1>1, <2>1, <3>1
      <3> QED BY <2>1, <3>2 DEF ReturnsFirst, InnerCall
    <2> QED BY <2>2, <2>3
  <1> QED BY <1>5, <1>6 DEF ReturnsFirst

\* A return leaves every call accounted for.
LEMMA ReturnAccounts ==
  ASSUME AcyclicTypeOK, StackRuns, CallsAccounted, ListsExhausted, Return
  PROVE  AcyclicTypeOK' /\ StackRuns' /\ CallsAccounted' /\ ListsExhausted'
  <1> DEFINE n == Len(stack)
  <1>1. /\ n \in Nat \ {0} /\ stack[n] \in nodes
        /\ stack' \in Seq(nodes)
        /\ Len(stack') = n - 1
        /\ \A i \in 1..(n - 1) : stack'[i] = stack[i]
    BY PopFacts DEF AcyclicTypeOK, Return
  <1>2. /\ finish' = [finish EXCEPT ![stack[n]] = clock + 1]
        /\ clock' = clock + 1 /\ clock \in Nat
        /\ UNCHANGED <<nodes, edges, reversed, visited, examined>>
        /\ Pending = {}
    BY DEF Return, Running, AcyclicTypeOK
  <1>3. /\ \A v \in nodes : v # stack[n] => finish'[v] = finish[v]
        /\ finish'[stack[n]] = clock + 1
        /\ finish' \in [nodes -> Nat]
    BY <1>1, <1>2 DEF AcyclicTypeOK
  <1>4. AcyclicTypeOK'
    BY <1>1, <1>2, <1>3 DEF AcyclicTypeOK, EdgesInGraph, Positions
  <1>5. \A i \in 1..(n - 1) : i \in 1..n /\ stack[i] # stack[n]
    BY <1>1 DEF StackRuns
  <1>6. StackRuns'
    <2>1. \A i \in 1..(n - 1) : stack[i] \in nodes
      BY <1>1, ElementOfSeq DEF AcyclicTypeOK
    <2>2. ASSUME NEW i \in 1..(n - 1)
          PROVE  stack'[i] \in visited' /\ finish'[stack'[i]] = 0
      <3>1. stack[i] \in visited /\ finish[stack[i]] = 0
        BY <1>5 DEF StackRuns
      <3>2. finish'[stack[i]] = finish[stack[i]]
        BY <1>3, <1>5, <2>1
      <3> QED BY <1>1, <1>2, <3>1, <3>2
    <2>3. ASSUME NEW i \in 1..(n - 1), NEW j \in 1..(n - 1), stack'[i] = stack'[j]
          PROVE  i = j
      <3>1. stack[i] = stack[j]
        BY <1>1, <2>3
      <3> QED BY <1>5, <3>1 DEF StackRuns
    <2>4. 1..Len(stack') = 1..(n - 1)
      BY <1>1
    <2> QED BY <2>2, <2>3, <2>4 DEF StackRuns
  <1>7. CallsAccounted'
    <2> SUFFICES ASSUME NEW v \in nodes
                 PROVE  /\ finish'[v] <= clock'
                        /\ v \notin visited' => finish'[v] = 0
                        /\ v \in visited' /\ finish'[v] = 0 => OnStack(v)'
      BY <1>2 DEF CallsAccounted
    <2>1. finish'[v] <= clock'
      BY <1>1, <1>2, <1>3 DEF CallsAccounted, AcyclicTypeOK
    <2>2. v \notin visited' => finish'[v] = 0
      <3>1. stack[n] \in visited
        BY <1>1 DEF StackRuns
      <3> QED BY <1>2, <1>3, <3>1 DEF CallsAccounted
    <2>3. ASSUME v \in visited', finish'[v] = 0
          PROVE  \E i \in 1..Len(stack') : stack'[i] = v
      <3>1. v # stack[n] /\ finish[v] = 0
        BY <1>2, <1>3, <2>3
      <3>2. PICK i \in 1..n : stack[i] = v
        BY <1>2, <2>3, <3>1, OnStackFacts DEF CallsAccounted, AcyclicTypeOK
      <3>3. i \in 1..(n - 1)
        BY <1>1, <3>1, <3>2
      <3> QED BY <1>1, <3>2, <3>3
    <2>4. v \in visited' /\ finish'[v] = 0 => OnStack(v)'
      BY <1>1, <2>3 DEF OnStack
    <2> QED BY <2>1, <2>2, <2>4
  <1>8. ListsExhausted'
    <2> SUFFICES ASSUME NEW k \in Positions, finish'[edges[k].from] > 0
                 PROVE  k \in examined
      BY <1>2 DEF ListsExhausted, Positions
    <2>1. CASE edges[k].from = stack[n]
      BY <1>2, <2>1 DEF Pending, Running
    <2>2. CASE edges[k].from # stack[n]
      BY <1>3, <2>2, EndsAreNodes DEF ListsExhausted, AcyclicTypeOK
    <2> QED BY <2>1, <2>2
  <1> QED BY <1>4, <1>6, <1>7, <1>8
----------------------------------------------------------------------------
(* The steps of the search.                                                *)

\* When the search starts, nothing has been called.
LEMMA SearchStarts == SearchStart /\ reversed = {} /\ EdgesInGraph => SearchInv /\ PathInv
  <1> SUFFICES ASSUME SearchStart, reversed = {}, EdgesInGraph PROVE SearchInv /\ PathInv
    OBVIOUS
  <1>1. stack \in Seq(nodes) /\ Len(stack) = 0
    BY EmptySeq DEF SearchStart
  <1>2. AcyclicTypeOK
    BY <1>1 DEF SearchStart, AcyclicTypeOK
  <1>3. StackRuns /\ ExaminedDescend
    BY <1>1 DEF SearchStart, StackRuns, ExaminedDescend
  <1>4. CallsAccounted
    <2>1. clock = 0 /\ visited = {} /\ \A v \in nodes : finish[v] = 0
      BY DEF SearchStart
    <2>2. ASSUME NEW v \in nodes PROVE finish[v] <= clock
      <3>1. finish[v] = 0 /\ clock = 0
        BY <2>1
      <3> QED BY <3>1
    <2> QED BY <2>1, <2>2 DEF CallsAccounted
  <1>5. ListsExhausted
    <2>1. \A k \in Positions : edges[k].from \in nodes
      BY <1>2, EndsAreNodes DEF AcyclicTypeOK
    <2> QED BY <2>1 DEF SearchStart, ListsExhausted
  <1>6. PathInv
    BY <1>1 DEF PathInv, StackIsPath, MarksCloseCycles
  <1> QED BY <1>2, <1>3, <1>4, <1>5, <1>6 DEF SearchInv

\* The edge the loop examines starts at the running call.
LEMMA ExamineFacts ==
  ASSUME SearchInv, NEW k \in Positions, Examine(k)
  PROVE  /\ k \notin examined
         /\ Len(stack) \in Nat \ {0}
         /\ edges[k].from = stack[Len(stack)]
         /\ edges[k].to \in nodes
         /\ edges[k].from \in visited
         /\ finish[edges[k].from] = 0
         /\ examined' = examined \union {k}
         /\ UNCHANGED <<nodes, edges, finish, clock>>
  <1>1. Len(stack) \in Nat \ {0}
    BY PopFacts DEF SearchInv, AcyclicTypeOK, Examine
  <1>2. k \notin examined /\ edges[k].from = stack[Len(stack)]
    BY DEF Examine, Pending, Running
  <1>3. edges[k].from \in visited /\ finish[edges[k].from] = 0
    BY <1>1, <1>2 DEF SearchInv, StackRuns
  <1>4. edges[k].to \in nodes
    BY EndsAreNodes DEF SearchInv, AcyclicTypeOK
  <1> QED BY <1>1, <1>2, <1>3, <1>4 DEF Examine

\* The outer loop begins a call.
LEMMA BeginKeeps == SearchInv /\ Begin => SearchInv'
  <1> SUFFICES ASSUME SearchInv, Begin PROVE SearchInv'
    OBVIOUS
  <1>1. PICK v \in nodes \ visited : Enter(v)
    BY DEF Begin
  <1>2. UNCHANGED <<nodes, edges, reversed, examined, finish, clock>>
    BY DEF Begin
  <1>3. /\ visited' \subseteq nodes /\ stack' \in Seq(nodes)
        /\ StackRuns' /\ CallsAccounted'
    BY <1>1, <1>2, EnterAccounts DEF SearchInv
  <1>4. AcyclicTypeOK'
    BY <1>2, <1>3 DEF SearchInv, AcyclicTypeOK, EdgesInGraph, Positions
  <1>5. ListsExhausted'
    BY <1>2 DEF SearchInv, ListsExhausted, Positions
  <1>6. \A t, u \in nodes : ReturnsFirst(t, u) => ReturnsFirst(t, u)'
    BY <1>1, <1>2, EnterKeeps DEF SearchInv
  <1>7. ASSUME NEW k \in examined, edges[k].from # edges[k].to
        PROVE  ReturnsFirst(Target(k), Source(k))'
    BY <1>2, <1>6, <1>7, ExaminedKeep DEF SearchInv
  <1>8. ExaminedDescend'
    BY <1>2, <1>7 DEF ExaminedDescend
  <1> QED BY <1>3, <1>4, <1>5, <1>8 DEF SearchInv

\* The loop over the adjacency list calls the search on a new node.
LEMMA DescendKeeps == SearchInv /\ Descend => SearchInv'
  <1> SUFFICES ASSUME SearchInv, Descend PROVE SearchInv'
    OBVIOUS
  <1>1. PICK k \in Positions :
          /\ Examine(k)
          /\ edges[k].to \notin visited
          /\ Enter(edges[k].to)
          /\ UNCHANGED reversed
    BY DEF Descend
  <1> DEFINE n == Len(stack)
             v == edges[k].to
  <1>2. /\ k \notin examined /\ n \in Nat \ {0}
        /\ edges[k].from = stack[n] /\ v \in nodes
        /\ finish[edges[k].from] = 0
        /\ examined' = examined \union {k}
        /\ UNCHANGED <<nodes, edges, finish, clock, reversed>>
    BY <1>1, ExamineFacts
  <1>3. /\ visited' \subseteq nodes /\ stack' \in Seq(nodes)
        /\ StackRuns' /\ CallsAccounted'
    BY <1>1, <1>2, EnterAccounts DEF SearchInv
  <1>4. AcyclicTypeOK'
    BY <1>2, <1>3 DEF SearchInv, AcyclicTypeOK, EdgesInGraph, Positions
  <1>5. ListsExhausted'
    BY <1>2 DEF SearchInv, ListsExhausted, Positions
  <1>6. \A t, u \in nodes : ReturnsFirst(t, u) => ReturnsFirst(t, u)'
    BY <1>1, <1>2, EnterKeeps DEF SearchInv
  <1>7. ASSUME NEW j \in examined, edges[j].from # edges[j].to
        PROVE  ReturnsFirst(Target(j), Source(j))'
    BY <1>2, <1>6, <1>7, ExaminedKeep DEF SearchInv
  <1>8. ReturnsFirst(Target(k), Source(k))'
    <2>1. Target(k)' = v /\ Source(k)' = stack[n]
      BY <1>2 DEF Target, Source, SearchInv, AcyclicTypeOK
    <2>2. Len(stack') = n + 1 /\ stack'[n] = stack[n] /\ stack'[n + 1] = v
      BY <1>1, <1>2, PushFacts DEF Enter, SearchInv, AcyclicTypeOK
    <2>3. n \in 1..Len(stack') /\ n + 1 \in 1..Len(stack') /\ n < n + 1
      BY <1>2, <2>2
    <2>4. \E i, j \in 1..Len(stack') :
            i < j /\ stack'[i] = Source(k)' /\ stack'[j] = Target(k)'
      BY <2>1, <2>2, <2>3
    <2>5. InnerCall(Target(k), Source(k))'
      BY <2>4 DEF InnerCall
    <2> QED BY <2>5 DEF ReturnsFirst
  <1>9. ExaminedDescend'
    BY <1>2, <1>7, <1>8 DEF ExaminedDescend
  <1> QED BY <1>3, <1>4, <1>5, <1>9 DEF SearchInv

\* The loop finds a node whose call is running, and marks the edge.
LEMMA MarkBackKeeps == SearchInv /\ MarkBack => SearchInv'
  <1> SUFFICES ASSUME SearchInv, MarkBack PROVE SearchInv'
    OBVIOUS
  <1>1. PICK k \in Positions :
          /\ Examine(k)
          /\ OnStack(edges[k].to)
          /\ reversed' = reversed \union {k}
          /\ UNCHANGED <<visited, stack>>
    BY DEF MarkBack
  <1> DEFINE n == Len(stack)
  <1>2. /\ k \notin examined /\ n \in Nat \ {0}
        /\ edges[k].from = stack[n]
        /\ examined' = examined \union {k}
        /\ UNCHANGED <<nodes, edges, finish, clock, visited, stack>>
    BY <1>1, ExamineFacts
  <1>3. AcyclicTypeOK'
    BY <1>1, <1>2 DEF SearchInv, AcyclicTypeOK, EdgesInGraph, Positions
  <1>4. StackRuns' /\ CallsAccounted'
    BY <1>2 DEF SearchInv, StackRuns, CallsAccounted, OnStack
  <1>5. ListsExhausted'
    BY <1>2 DEF SearchInv, ListsExhausted, Positions
  <1>6. \A t, u \in nodes : ReturnsFirst(t, u) => ReturnsFirst(t, u)'
    BY <1>2 DEF ReturnsFirst, InnerCall
  <1>7. ASSUME NEW j \in examined, edges[j].from # edges[j].to
        PROVE  ReturnsFirst(Target(j), Source(j))'
    <2>1. \A i \in examined : i \in reversed' <=> i \in reversed
      BY <1>1, <1>2
    <2> QED BY <1>2, <1>6, <1>7, <2>1, ExaminedKeep DEF SearchInv
  <1>8. ASSUME edges[k].from # edges[k].to
        PROVE  ReturnsFirst(Target(k), Source(k))'
    <2>1. Target(k)' = stack[n] /\ Source(k)' = edges[k].to
      BY <1>1, <1>2 DEF Target, Source
    <2>2. PICK i \in 1..n : stack[i] = edges[k].to
      BY <1>1, OnStackFacts DEF SearchInv, AcyclicTypeOK
    <2>3. i < n /\ n \in 1..n
      BY <1>2, <1>8, <2>2
    <2>4. \E h, j \in 1..Len(stack') :
            h < j /\ stack'[h] = Source(k)' /\ stack'[j] = Target(k)'
      BY <1>2, <2>1, <2>2, <2>3
    <2>5. InnerCall(Target(k), Source(k))'
      BY <2>4 DEF InnerCall
    <2> QED BY <2>5 DEF ReturnsFirst
  <1>9. ExaminedDescend'
    BY <1>2, <1>7, <1>8 DEF ExaminedDescend
  <1> QED BY <1>3, <1>4, <1>5, <1>9 DEF SearchInv

\* The loop finds a node whose call has returned.
LEMMA PassKeeps == SearchInv /\ Pass => SearchInv'
  <1> SUFFICES ASSUME SearchInv, Pass PROVE SearchInv'
    OBVIOUS
  <1>1. PICK k \in Positions :
          /\ Examine(k)
          /\ edges[k].to \in visited
          /\ ~OnStack(edges[k].to)
          /\ UNCHANGED <<reversed, visited, stack>>
    BY DEF Pass
  <1>2. /\ k \notin examined
        /\ edges[k].to \in nodes
        /\ finish[edges[k].from] = 0
        /\ examined' = examined \union {k}
        /\ UNCHANGED <<nodes, edges, finish, clock, reversed, visited, stack>>
    BY <1>1, ExamineFacts
  <1>3. AcyclicTypeOK'
    BY <1>2 DEF SearchInv, AcyclicTypeOK, EdgesInGraph, Positions
  <1>4. StackRuns' /\ CallsAccounted'
    BY <1>2 DEF SearchInv, StackRuns, CallsAccounted, OnStack
  <1>5. ListsExhausted'
    BY <1>2 DEF SearchInv, ListsExhausted, Positions
  <1>6. \A t, u \in nodes : ReturnsFirst(t, u) => ReturnsFirst(t, u)'
    BY <1>2 DEF ReturnsFirst, InnerCall
  <1>7. ASSUME NEW j \in examined, edges[j].from # edges[j].to
        PROVE  ReturnsFirst(Target(j), Source(j))'
    BY <1>2, <1>6, <1>7, ExaminedKeep DEF SearchInv
  <1>8. ReturnsFirst(Target(k), Source(k))'
    <2>1. Target(k)' = edges[k].to /\ Source(k)' = edges[k].from
      BY <1>2 DEF Target, Source, SearchInv, AcyclicTypeOK
    <2>2. finish[edges[k].to] # 0 /\ finish[edges[k].to] \in Nat
      BY <1>1, <1>2 DEF SearchInv, CallsAccounted, AcyclicTypeOK
    <2>3. finish'[edges[k].to] > 0 /\ ~(finish'[edges[k].from] > 0)
      BY <1>2, <2>2
    <2> QED BY <2>1, <2>3 DEF ReturnsFirst
  <1>9. ExaminedDescend'
    BY <1>2, <1>7, <1>8 DEF ExaminedDescend
  <1> QED BY <1>3, <1>4, <1>5, <1>9 DEF SearchInv

\* A call returns.
LEMMA ReturnStepKeeps == SearchInv /\ Return => SearchInv'
  <1> SUFFICES ASSUME SearchInv, Return PROVE SearchInv'
    OBVIOUS
  <1>1. UNCHANGED <<nodes, edges, reversed, examined>>
    BY DEF Return
  <1>2. AcyclicTypeOK' /\ StackRuns' /\ CallsAccounted' /\ ListsExhausted'
    BY ReturnAccounts DEF SearchInv
  <1>3. \A t, u \in nodes : ReturnsFirst(t, u) => ReturnsFirst(t, u)'
    BY ReturnKeeps DEF SearchInv
  <1>4. ASSUME NEW j \in examined, edges[j].from # edges[j].to
        PROVE  ReturnsFirst(Target(j), Source(j))'
    BY <1>1, <1>3, <1>4, ExaminedKeep DEF SearchInv
  <1>5. ExaminedDescend'
    BY <1>1, <1>4 DEF ExaminedDescend
  <1> QED BY <1>2, <1>5 DEF SearchInv
----------------------------------------------------------------------------
(* The theorems.                                                           *)

\* A step of the search keeps the invariant.
LEMMA SearchKeeps == SearchInv /\ AcyclicNext => SearchInv'
  BY BeginKeeps, DescendKeeps, MarkBackKeeps, PassKeeps, ReturnStepKeeps DEF AcyclicNext

\* When every call has returned, all edges have been examined, and what returned
\* first has the smaller number: the effective graph has a topological order.
LEMMA SearchDescends == SearchInv => EffectiveEdgesDescend
  <1> SUFFICES ASSUME SearchInv, SearchDone, NEW k \in Positions,
                      edges[k].from # edges[k].to
               PROVE  finish[Target(k)] < finish[Source(k)]
    BY DEF EffectiveEdgesDescend
  <1>1. Len(stack) = 0
    BY EmptySeq DEF SearchDone
  <1>2. \A v \in nodes : finish[v] > 0
    <2>1. \A v \in nodes : ~OnStack(v)
      BY <1>1, OnStackFacts DEF SearchInv, AcyclicTypeOK
    <2>2. ASSUME NEW v \in nodes PROVE finish[v] > 0
      <3>1. finish[v] # 0
        BY <2>1 DEF SearchInv, CallsAccounted, SearchDone
      <3>2. finish[v] \in Nat
        BY DEF SearchInv, AcyclicTypeOK
      <3> QED BY <3>1, <3>2
    <2> QED BY <2>2
  <1>3. Source(k) \in nodes /\ Target(k) \in nodes /\ edges[k].from \in nodes
    BY EndsAreNodes DEF SearchInv, AcyclicTypeOK
  <1>4. ReturnsFirst(Target(k), Source(k))
    BY <1>2, <1>3 DEF SearchInv, ListsExhausted, ExaminedDescend
  <1>5. ~InnerCall(Target(k), Source(k))
    BY <1>1 DEF InnerCall
  <1> QED BY <1>2, <1>3, <1>4, <1>5 DEF ReturnsFirst
----------------------------------------------------------------------------
(* The search marks no edge outside a cycle.                               *)

\* A path goes on over an edge.
LEMMA LeadsOn ==
  ASSUME NEW v, NEW k \in Positions, LeadsTo(v, edges[k].from)
  PROVE  LeadsTo(v, edges[k].to)
  BY DEF LeadsTo, Closed

\* Paths speak of the graph alone, which no step of the search changes.
LEMMA LeadsToKept ==
  ASSUME UNCHANGED <<nodes, edges>>
  PROVE  \A v, w : LeadsTo(v, w) => LeadsTo(v, w)'
  BY DEF LeadsTo, Closed, Positions

\* A call that begins with an edge of the running call, or with none running,
\* extends the path.
LEMMA EnterExtendsPath ==
  ASSUME AcyclicTypeOK, StackIsPath, UNCHANGED <<nodes, edges>>,
         NEW v \in nodes, Enter(v),
         stack = <<>> \/ \E k \in Positions : edges[k].from = Running /\ edges[k].to = v
  PROVE  StackIsPath'
  <1> DEFINE n == Len(stack)
  <1>1. /\ n \in Nat /\ Len(stack') = n + 1
        /\ \A i \in 1..n : stack'[i] = stack[i]
        /\ stack'[n + 1] = v
    BY PushFacts DEF AcyclicTypeOK, Enter
  <1>2. LeadsTo(v, v)
    BY DEF LeadsTo
  <1>3. ASSUME NEW i \in 1..n PROVE LeadsTo(stack[i], v)
    <2>1. n \in 1..n /\ i <= n
      BY <1>1
    <2>2. stack # <<>>
      BY <1>1, <2>1, EmptySeq
    <2>3. PICK k \in Positions : edges[k].from = stack[n] /\ edges[k].to = v
      BY <2>2 DEF Running
    <2>4. LeadsTo(stack[i], edges[k].from)
      BY <2>1, <2>3 DEF StackIsPath
    <2> QED BY <2>3, <2>4, LeadsOn
  <1>4. ASSUME NEW i \in 1..(n + 1), NEW j \in 1..(n + 1), i <= j
        PROVE  LeadsTo(stack'[i], stack'[j])
    <2>1. CASE j \in 1..n
      <3>1. i \in 1..n
        BY <1>1, <1>4, <2>1
      <3> QED BY <1>1, <1>4, <2>1, <3>1 DEF StackIsPath
    <2>2. CASE j = n + 1 /\ i \in 1..n
      BY <1>1, <1>3, <2>2
    <2>3. CASE j = n + 1 /\ i = n + 1
      BY <1>1, <1>2, <2>3
    <2> QED BY <1>1, <1>4, <2>1, <2>2, <2>3
  <1> QED BY <1>1, <1>4, LeadsToKept DEF StackIsPath

\* Each call is reached from the calls around it, so that an edge marked closes a cycle.
LEMMA NextKeepsPaths == SearchInv /\ PathInv /\ AcyclicNext => PathInv'
  <1> SUFFICES ASSUME SearchInv, PathInv, AcyclicNext PROVE PathInv'
    OBVIOUS
  <1>1. UNCHANGED <<nodes, edges>>
    BY DEF AcyclicNext, Begin, Descend, MarkBack, Pass, Return, Examine
  <1>2. \A v, w : LeadsTo(v, w) => LeadsTo(v, w)'
    BY <1>1, LeadsToKept
  <1>3. ASSUME reversed' = reversed PROVE MarksCloseCycles'
    BY <1>1, <1>2, <1>3 DEF PathInv, MarksCloseCycles
  <1>4. ASSUME stack' = stack PROVE StackIsPath'
    BY <1>2, <1>4 DEF PathInv, StackIsPath
  <1>5. CASE Begin
    <2>1. PICK v \in nodes : Enter(v)
      BY <1>5 DEF Begin
    <2>2. StackIsPath'
      BY <1>1, <1>5, <2>1, EnterExtendsPath DEF Begin, SearchInv, PathInv
    <2> QED BY <1>3, <1>5, <2>2 DEF Begin, PathInv
  <1>6. CASE Descend
    <2>1. PICK k \in Positions : Examine(k) /\ Enter(edges[k].to) /\ UNCHANGED reversed
      BY <1>6 DEF Descend
    <2>2. edges[k].to \in nodes /\ edges[k].from = Running
      BY <2>1, ExamineFacts DEF Running
    <2>3. StackIsPath'
      BY <1>1, <2>1, <2>2, EnterExtendsPath DEF SearchInv, PathInv
    <2> QED BY <1>3, <2>1, <2>3 DEF PathInv
  <1>7. CASE MarkBack
    <2>1. PICK k \in Positions :
            /\ Examine(k)
            /\ OnStack(edges[k].to)
            /\ reversed' = reversed \union {k}
            /\ UNCHANGED <<visited, stack>>
      BY <1>7 DEF MarkBack
    <2>2. Len(stack) \in Nat \ {0} /\ edges[k].from = stack[Len(stack)]
      BY <2>1, ExamineFacts
    <2>3. PICK i \in 1..Len(stack) : stack[i] = edges[k].to
      BY <2>1, OnStackFacts DEF SearchInv, AcyclicTypeOK
    <2>4. LeadsTo(edges[k].to, edges[k].from)
      BY <2>2, <2>3 DEF PathInv, StackIsPath
    <2>5. MarksCloseCycles'
      BY <1>1, <1>2, <2>1, <2>4 DEF PathInv, MarksCloseCycles
    <2> QED BY <1>4, <2>1, <2>5 DEF PathInv
  <1>8. CASE Pass
    BY <1>3, <1>4, <1>8 DEF Pass, PathInv
  <1>9. CASE Return
    <2>1. /\ Len(stack) \in Nat \ {0}
          /\ Len(stack') = Len(stack) - 1
          /\ \A i \in 1..(Len(stack) - 1) : stack'[i] = stack[i]
      BY <1>9, PopFacts DEF Return, SearchInv, AcyclicTypeOK
    <2>2. StackIsPath'
      BY <1>2, <2>1 DEF PathInv, StackIsPath
    <2> QED BY <1>3, <1>9, <2>2 DEF Return, PathInv
  <1> QED BY <1>5, <1>6, <1>7, <1>8, <1>9 DEF AcyclicNext
-----------------------------------------------------------------------------
(* What the ranking is given.                                              *)

\* Sequences of members, one after the other: members, and none is lost.
LEMMA FlattenFacts ==
  ASSUME NEW R, NEW n \in Nat, NEW rows \in [1..n -> Seq(R)]
  PROVE  /\ FlattenSeq(rows) \in Seq(R)
         /\ \A j \in 1..n : \A x \in DOMAIN rows[j] :
              \E y \in DOMAIN FlattenSeq(rows) : FlattenSeq(rows)[y] = rows[j][x]
<1>1. Len(rows) = n /\ rows \in Seq(Seq(R)) /\ DOMAIN rows = 1..n
  OBVIOUS
<1>2. CASE n = 0
  <2>1. rows = <<>>
    BY <1>1, <1>2
  <2> QED  BY <1>1, <1>2, <2>1 DEF FlattenSeq
<1>3. CASE n # 0
  <2> DEFINE B(f) == f = [i \in 1..Len(rows) |-> IF i = 1 THEN rows[i] ELSE f[i - 1] \o rows[i]]
             V == Nat \X Seq(R)
             base == <<0, <<>>>>
             step == [s \in V |-> <<s[1] + 1, s[2] \o IF s[1] < n THEN rows[s[1] + 1] ELSE <<>>>>]
  <2>1. step \in [V -> V] /\ base \in V
    <3>1. ASSUME NEW m \in Nat, NEW t \in Seq(R)
          PROVE  t \o (IF m < n THEN rows[m + 1] ELSE <<>>) \in Seq(R)
      <4>1. CASE m < n
        <5>1. rows[m + 1] \in Seq(R)
          BY <1>1, <4>1
        <5> QED  BY <4>1, <5>1
      <4>2. CASE ~(m < n)
        BY <4>2
      <4> QED  BY <4>1, <4>2
    <3>2. ASSUME NEW s \in V
          PROVE  <<s[1] + 1, s[2] \o IF s[1] < n THEN rows[s[1] + 1] ELSE <<>>>> \in V
      <4>1. PICK m \in Nat, t \in Seq(R) : s = <<m, t>>
        OBVIOUS
      <4>2. t \o (IF m < n THEN rows[m + 1] ELSE <<>>) \in Seq(R)
        BY <3>1
      <4>3. s[1] = m /\ s[2] = t
        BY <4>1
      <4> DEFINE longer == t \o (IF m < n THEN rows[m + 1] ELSE <<>>)
      <4>4. <<s[1] + 1, s[2] \o IF s[1] < n THEN rows[s[1] + 1] ELSE <<>>>> = <<m + 1, longer>>
        BY <4>3
      <4>5. longer \in Seq(R) /\ m + 1 \in Nat
        BY <4>2
      <4> HIDE DEF longer
      <4>6. <<m + 1, longer>> \in V
        BY <4>5
      <4> HIDE DEF V
      <4> QED  BY <4>4, <4>6
    <3>3. base \in V
      <4>1. \A t \in Seq(R) : <<0, t>> \in V
        OBVIOUS
      <4>2. <<>> \in Seq(R)
        OBVIOUS
      <4> HIDE DEF V
      <4> QED  BY <4>1, <4>2
    <3> HIDE DEF V, base
    <3> QED  BY <3>2, <3>3
  <2>2. PICK g : Iterates(g, V, base, step)
    <3> HIDE DEF V, step, base
    <3> QED  BY <2>1, IterationExists
  <2>3. g \in [Nat -> V] /\ g[0] = base
    BY <2>2 DEF Iterates
  <2>4. ASSUME NEW i \in Nat
        PROVE  /\ g[i + 1][1] = g[i][1] + 1
               /\ g[i + 1][2] = g[i][2] \o (IF g[i][1] < n THEN rows[g[i][1] + 1] ELSE <<>>)
    <3>1. g[i + 1] = step[g[i]]
      BY <2>2 DEF Iterates
    <3>2. g[i] \in V
      <4> HIDE DEF V
      <4> QED  BY <2>3
    <3>3. PICK s : s = g[i]
      OBVIOUS
    <3>4. s \in V
      <4> HIDE DEF V
      <4> QED  BY <3>2, <3>3
    <3>5. step[s] = <<s[1] + 1, s[2] \o IF s[1] < n THEN rows[s[1] + 1] ELSE <<>>>>
      <4> HIDE DEF V
      <4> QED  BY <3>4
    <3> HIDE DEF V, step
    <3>6. g[i + 1] = <<s[1] + 1, s[2] \o IF s[1] < n THEN rows[s[1] + 1] ELSE <<>>>>
      BY <3>1, <3>3, <3>5
    <3> DEFINE longer == s[2] \o IF s[1] < n THEN rows[s[1] + 1] ELSE <<>>
    <3>7. g[i + 1] = <<s[1] + 1, longer>>
      BY <3>6
    <3> HIDE DEF longer
    <3>8. g[i + 1][1] = s[1] + 1 /\ g[i + 1][2] = longer
      BY <3>7
    <3>9. /\ g[i + 1][1] = s[1] + 1
          /\ g[i + 1][2] = s[2] \o IF s[1] < n THEN rows[s[1] + 1] ELSE <<>>
      BY <3>8 DEF longer
    <3> QED  BY <3>3, <3>9
  <2> DEFINE counts == {i \in Nat : g[i][1] = i}
  <2>5. Nat \subseteq counts
    <3>1. 0 \in counts
      <4>1. g[0][1] = 0
        BY <2>3
      <4> QED  BY <4>1
    <3>2. ASSUME NEW i \in Nat, i \in counts PROVE i + 1 \in counts
      <4>1. g[i][1] = i
        BY <3>2
      <4>2. g[i + 1][1] = i + 1
        BY <2>4, <4>1
      <4> QED  BY <4>2
    <3> HIDE DEF counts
    <3> QED  BY <3>1, <3>2, Inductive
  <2> DEFINE h == [i \in 1..n |-> g[i][2]]
  <2>6. ASSUME NEW i \in 1..n PROVE h[i] = IF i = 1 THEN rows[i] ELSE h[i - 1] \o rows[i]
    <3>1. i - 1 \in Nat /\ (i - 1) + 1 = i /\ i - 1 < n
      OBVIOUS
    <3>2. g[i - 1][1] = i - 1
      BY <2>5, <3>1
    <3>3. g[i][2] = g[i - 1][2] \o rows[i]
      <4>1. g[(i - 1) + 1][2] = g[i - 1][2] \o rows[(i - 1) + 1]
        BY <2>4, <3>1, <3>2
      <4> QED  BY <3>1, <4>1
    <3>4. CASE i = 1
      <4>1. g[i - 1][2] = <<>> /\ rows[i] \in Seq(R)
        BY <2>3, <3>4
      <4> QED  BY <3>3, <3>4, <4>1
    <3>5. CASE i # 1
      <4>1. h[i - 1] = g[i - 1][2]
        BY <3>1, <3>5
      <4> QED  BY <3>3, <3>5, <4>1
    <3> QED  BY <3>4, <3>5
  <2>7. B(h)
    <3>1. h = [i \in 1..n |-> h[i]]
      OBVIOUS
    <3> HIDE DEF h
    <3> QED  BY <1>1, <2>6, <3>1
  <2> DEFINE f == CHOOSE f : B(f)
  <2>8. B(f)
    <3> HIDE DEF B
    <3> QED  BY <2>7
  <2>9. FlattenSeq(rows) = f[n]
    BY <1>1, <1>3 DEF FlattenSeq
  <2> HIDE DEF f
  <2> DEFINE complete(i) ==
               \A j \in 1..i : \A x \in DOMAIN rows[j] : \E y \in DOMAIN f[i] : f[i][y] = rows[j][x]
             good == {i \in Nat : i + 1 <= n => f[i + 1] \in Seq(R) /\ complete(i + 1)}
  <2>10. 0 \in good
    <3>1. f[1] = rows[1] /\ rows[1] \in Seq(R)
      BY <1>1, <1>3, <2>8
    <3>2. complete(1)
      BY <3>1
    <3> HIDE DEF complete
    <3> QED  BY <3>1, <3>2
  <2>11. ASSUME NEW i \in Nat, i \in good PROVE i + 1 \in good
    <3> SUFFICES ASSUME (i + 1) + 1 <= n
                 PROVE  f[(i + 1) + 1] \in Seq(R) /\ complete((i + 1) + 1)
      OBVIOUS
    <3>1. f[i + 1] \in Seq(R) /\ complete(i + 1)
      <4> HIDE DEF complete
      <4> QED  BY <2>11
    <3>2. PICK j, k : j = (i + 1) + 1 /\ k = i + 1
      OBVIOUS
    <3>3. j \in 1..n /\ j # 1 /\ j - 1 = k /\ 1..j = (1..k) \union {j}
      BY <3>2
    <3>4. f[j] = f[k] \o rows[j]
      BY <1>1, <2>8, <3>3
    <3>5. rows[j] \in Seq(R) /\ f[k] \in Seq(R) /\ complete(k)
      <4> HIDE DEF complete
      <4> QED  BY <3>1, <3>2, <3>3
    <3>6. PICK s, t, u : s = f[k] /\ t = rows[j] /\ u = f[j]
      OBVIOUS
    <3>7. /\ u \in Seq(R) /\ Len(u) = Len(s) + Len(t)
          /\ \A y \in 1..Len(s) : u[y] = s[y]
          /\ \A x \in 1..Len(t) : u[Len(s) + x] = t[x]
      <4> HIDE DEF complete
      <4>1. s \in Seq(R) /\ t \in Seq(R) /\ u = s \o t
        BY <3>4, <3>5, <3>6
      <4> QED  BY <4>1, Concatenated
    <3>8. /\ Len(s) \in Nat /\ Len(t) \in Nat /\ DOMAIN s = 1..Len(s) /\ DOMAIN t = 1..Len(t)
          /\ DOMAIN u = 1..Len(u)
      <4> HIDE DEF complete
      <4>1. s \in Seq(R) /\ t \in Seq(R) /\ u \in Seq(R)
        BY <3>5, <3>6, <3>7
      <4> QED  BY <4>1
    <3>9. ASSUME NEW m \in 1..j, NEW x \in DOMAIN rows[m]
          PROVE  \E y \in DOMAIN f[j] : f[j][y] = rows[m][x]
      <4>1. CASE m \in 1..k
        <5>1. PICK y \in DOMAIN s : s[y] = rows[m][x]
          BY <3>5, <3>6, <3>9, <4>1
        <5>2. y \in DOMAIN u /\ u[y] = rows[m][x]
          BY <3>7, <3>8, <5>1
        <5> QED  BY <3>6, <5>2
      <4>2. CASE m = j
        <5>1. x \in 1..Len(t) /\ t[x] = rows[m][x]
          BY <3>6, <3>8, <3>9, <4>2
        <5>2. Len(s) + x \in DOMAIN u /\ u[Len(s) + x] = t[x]
          BY <3>7, <3>8, <5>1
        <5> QED  BY <3>6, <5>1, <5>2
      <4> QED  BY <3>3, <4>1, <4>2
    <3>10. complete(j)
      BY <3>9
    <3> HIDE DEF complete
    <3> QED  BY <3>2, <3>6, <3>7, <3>10
  <2> HIDE DEF complete
  <2>12. Nat \subseteq good
    <3> HIDE DEF good
    <3> QED  BY <2>10, <2>11, Inductive
  <2>13. PICK m \in Nat : m + 1 = n
    <3>1. n - 1 \in Nat /\ (n - 1) + 1 = n
      BY <1>3
    <3> QED  BY <3>1
  <2>14. f[m + 1] \in Seq(R) /\ complete(m + 1)
    BY <2>12, <2>13
  <2>15. f[n] \in Seq(R) /\ complete(n)
    BY <2>13, <2>14
  <2> QED  BY <2>9, <2>15 DEF complete
<1> QED  BY <1>2, <1>3

\* The graph as the phases before the ranking hand it on.
GraphOK ==
  /\ NetworkOK
  /\ unplaced = {}
  /\ nodes = 1..NodeCount
  /\ parents \in [nodes -> nodes \union {0}]

\* The graph is of the kind GraphOK says for as long as nobody writes it.
LEMMA GraphStays ==
  ASSUME GraphOK, UNCHANGED <<nodes, edges, parents, unplaced, minlen>>
  PROVE  GraphOK' /\ Compounds' = Compounds
<1>1. Positions' = Positions /\ Compounds' = Compounds /\ NodeCount' = NodeCount
  BY DEF Positions, Compounds, NodeCount
<1>2. NetworkOK'
  BY <1>1, Zenon DEF GraphOK, NetworkOK
<1> QED  BY <1>1, <1>2 DEF GraphOK

\* Compounds are nodes.
LEMMA CompoundsFacts ==
  ASSUME GraphOK
  PROVE  /\ Compounds \in SUBSET nodes /\ Compounds \in SUBSET Nat /\ IsFiniteSet(Compounds)
         /\ Cardinality(Compounds) \in Nat /\ NodeCount \in Nat /\ IsFiniteSet(nodes)
         /\ \A v \in nodes : parents[v] # 0 => parents[v] \in Compounds
<1>1. IsFiniteSet(nodes) /\ DOMAIN parents = nodes /\ nodes \in SUBSET Nat
  BY DEF GraphOK, NetworkOK
<1>2. Compounds \in SUBSET nodes
  BY DEF GraphOK, Compounds
<1>3. IsFiniteSet(Compounds)
  BY <1>1, <1>2, FS_Subset
<1>4. Cardinality(Compounds) \in Nat /\ NodeCount \in Nat
  BY <1>1, <1>3, FS_CardinalityType DEF NodeCount
<1> QED  BY <1>1, <1>2, <1>3, <1>4 DEF Compounds

\* What is given is such a graph.
LEMMA InitIsGraph ==
  ASSUME LayeringInit
  PROVE  GraphOK /\ phase = "initial" /\ stage = "self_edges"
<1>1. PICK input \in Inputs :
        /\ nodes = input.nodes
        /\ edges = [k \in DOMAIN input.edges |->
                      [from |-> input.edges[k].from, to |-> input.edges[k].to, orig |-> k]]
        /\ minlen = [k \in DOMAIN input.edges |-> input.edges[k].minlen]
        /\ parents = input.parents
  BY DEF LayeringInit
<1> DEFINE given == input.edges
           compounds == {input.parents[v] : v \in input.nodes} \ {0}
           ends == input.nodes \ compounds
           E == [from : ends, to : ends, minlen : Int, weight : Int, label : BOOLEAN]
<1>2. /\ IsFiniteSet(nodes) /\ nodes = 1..Cardinality(nodes)
      /\ parents \in [nodes -> nodes \union {0}]
      /\ given \in Seq(E)
  BY <1>1, InputsAreGraphs
<1>3. Compounds = compounds
  BY <1>1, <1>2 DEF Compounds
<1>4. DOMAIN given = 1..Len(given) /\ Len(given) \in Nat
  BY <1>2
<1>5. ASSUME NEW k \in DOMAIN given
      PROVE  k \in Int /\ given[k].from \in ends /\ given[k].to \in ends /\ given[k].minlen \in Int
  <2>1. k \in Nat /\ given[k] \in E
    <3> HIDE DEF E, given
    <3> QED  BY <1>2, <1>5, EntryOf
  <2> HIDE DEF ends, given
  <2> QED  BY <2>1
<1>6. ends = nodes \ Compounds
  BY <1>1, <1>3
<1>7. edges \in Seq([from : nodes \ Compounds, to : nodes \ Compounds, orig : Int])
  <2> HIDE DEF given, ends, compounds
  <2>1. edges = [k \in 1..Len(given) |-> [from |-> given[k].from, to |-> given[k].to, orig |-> k]]
    BY <1>1, <1>4 DEF given
  <2>2. \A k \in 1..Len(given) : [from |-> given[k].from, to |-> given[k].to, orig |-> k]
                                   \in [from : ends, to : ends, orig : Int]
    BY <1>4, <1>5
  <2>3. edges \in [1..Len(given) -> [from : ends, to : ends, orig : Int]]
    BY <2>1, <2>2
  <2>4. edges \in Seq([from : ends, to : ends, orig : Int])
    <3> DEFINE T == [from : ends, to : ends, orig : Int]
    <3> SUFFICES edges \in Seq(T)
      OBVIOUS
    <3>1. edges \in [1..Len(given) -> T] /\ Len(given) \in Nat
      BY <1>4, <2>3
    <3> HIDE DEF T
    <3> QED  BY <3>1
  <2> QED  BY <1>6, <2>4
<1>8. minlen \in [Positions -> Int]
  <2>1. Positions = DOMAIN given
    BY <1>1 DEF Positions
  <2> HIDE DEF ends, E
  <2> QED  BY <1>1, <1>5, <2>1
<1>9. nodes \in SUBSET (Nat \ {0})
  <2>1. \A n \in Nat : 1..n \in SUBSET (Nat \ {0})
    OBVIOUS
  <2>2. Cardinality(nodes) \in Nat
    BY <1>2, FS_CardinalityType
  <2> QED  BY <1>2, <2>1, <2>2
<1>10. unplaced = {} /\ phase = "initial" /\ stage = "self_edges"
  BY DEF LayeringInit, RankingStart
<1> QED  BY <1>2, <1>7, <1>8, <1>9, <1>10 DEF GraphOK, NetworkOK, NodeCount

\* extract_self_edges.
LEMMA ExtractKeeps ==
  ASSUME GraphOK, ExtractSelfEdges
  PROVE  GraphOK'
<1> DEFINE K == {k \in Positions : edges[k].from # edges[k].to}
           E == [from : nodes \ Compounds, to : nodes \ Compounds, orig : Int]
<1>1. /\ nodes' = nodes /\ parents' = parents /\ unplaced' = unplaced
      /\ edges' = [i \in DOMAIN InOrder(K) |-> edges[InOrder(K)[i]]]
      /\ minlen' = [i \in DOMAIN InOrder(K) |-> minlen[InOrder(K)[i]]]
  BY DEF ExtractSelfEdges, compoundVars
<1>2. K \in SUBSET Int /\ IsFiniteSet(K)
  <2>1. IsFiniteSet(Positions) /\ Positions \in SUBSET Nat
    BY NumbersOfNodes DEF GraphOK
  <2>2. K \in SUBSET Positions
    OBVIOUS
  <2> HIDE DEF K
  <2>3. IsFiniteSet(K)
    BY <2>1, <2>2, FS_Subset, Zenon
  <2> QED  BY <2>1, <2>2, <2>3
<1>3. PICK n \in Nat : InOrder(K) \in [1..n -> K]
  <2> HIDE DEF K
  <2> QED  BY <1>2, InOrderFacts
<1>4. Compounds' = Compounds /\ NodeCount' = NodeCount
  BY <1>1 DEF Compounds, NodeCount
<1>5. \A k \in K : edges[k] \in E /\ minlen[k] \in Int
  <2> SUFFICES ASSUME NEW k \in Positions PROVE edges[k] \in E /\ minlen[k] \in Int
    OBVIOUS
  <2>1. edges \in Seq(E) /\ minlen \in [Positions -> Int] /\ k \in DOMAIN edges
    BY DEF GraphOK, NetworkOK, Positions
  <2> HIDE DEF E
  <2>2. edges[k] \in E
    BY <2>1, EntryOf, Zenon
  <2> QED  BY <2>1, <2>2
<1> HIDE DEF K, E
<1>6. edges' \in [1..n -> E] /\ minlen' \in [1..n -> Int]
  BY <1>1, <1>3, <1>5
<1>7. edges' \in Seq(E) /\ Positions' = 1..n
  BY <1>6 DEF Positions
<1>8. edges' \in Seq([from : nodes' \ Compounds', to : nodes' \ Compounds', orig : Int])
  BY <1>1, <1>4, <1>7 DEF E
<1> QED  BY <1>1, <1>4, <1>6, <1>7, <1>8 DEF GraphOK, NetworkOK

\* make_space_for_labeled_edges.
LEMMA MakeSpaceKeeps ==
  ASSUME GraphOK, MakeSpace
  PROVE  GraphOK' /\ Compounds' = Compounds /\ stage' = IF Compounds = {} THEN "rank" ELSE "nest"
<1>1. /\ nodes' = nodes /\ edges' = edges /\ parents' = parents /\ unplaced' = unplaced
      /\ minlen' = [k \in Positions |-> Roomy(k)]
      /\ stage' = IF Compounds = {} THEN "rank" ELSE "nest"
  BY DEF MakeSpace, compoundVars, graphVars
<1>2. ASSUME NEW k \in Positions PROVE Roomy(k) \in Int
  <2>1. minlen[k] \in Int
    BY <1>2 DEF GraphOK, NetworkOK
  <2>2. Max({minlen[k], 2}) \in Int
    <3>1. IsFiniteSet({minlen[k], 2})
      <4>1. {minlen[k], 2} = {minlen[k]} \union {2}
        OBVIOUS
      <4>2. IsFiniteSet({minlen[k]})
        BY FS_Singleton, Zenon
      <4> QED  BY <4>1, <4>2, FS_AddElement, Zenon
    <3> QED  BY <2>1, <3>1, GreatestInteger
  <2> QED  BY <2>1, <2>2 DEF Roomy
<1>3. Compounds' = Compounds /\ NodeCount' = NodeCount /\ Positions' = Positions
  BY <1>1 DEF Compounds, NodeCount, Positions
<1>4. minlen' \in [Positions' -> Int]
  BY <1>1, <1>2, <1>3
<1> QED  BY <1>1, <1>3, <1>4 DEF GraphOK, NetworkOK
-----------------------------------------------------------------------------
(* nesting::run_with_policy.                                               *)

\* How deep compounds lie in each other is a number.
LEMMA HeightIsNumber ==
  ASSUME GraphOK
  PROVE  /\ \A v \in nodes : Depth(v) \in Nat \ {0}
         /\ nodes # {} => Height \in Nat
<1>1. IsFiniteSet(nodes) /\ IsFiniteSet(Compounds)
  BY CompoundsFacts
<1>2. ASSUME NEW v \in nodes PROVE Depth(v) \in Nat \ {0}
  <2>1. Around(v) \in SUBSET Compounds
    BY DEF Around
  <2>2. Cardinality(Around(v)) \in Nat
    BY <1>1, <2>1, FS_Subset, FS_CardinalityType
  <2> QED  BY <2>2 DEF Depth
<1>3. ASSUME nodes # {} PROVE Height \in Nat
  <2> DEFINE depth == [v \in nodes |-> Depth(v)]
             S == {depth[v] : v \in nodes}
  <2>1. S = {Depth(v) : v \in nodes}
    OBVIOUS
  <2>2. IsFiniteSet(S)
    <3>1. DOMAIN depth = nodes
      OBVIOUS
    <3> HIDE DEF depth
    <3> QED  BY <1>1, <3>1, FiniteImage
  <2>3. S \in SUBSET Int /\ S # {}
    BY <1>2, <1>3
  <2>4. Max(S) \in Nat \ {0}
    <3>1. Max(S) \in S
      <4> HIDE DEF S
      <4> QED  BY <2>2, <2>3, GreatestInteger
    <3>2. S \in SUBSET (Nat \ {0})
      BY <1>2
    <3> HIDE DEF S
    <3> QED  BY <3>1, <3>2
  <2> HIDE DEF S
  <2> QED  BY <2>1, <2>4 DEF Height
<1> QED  BY <1>2, <1>3

\* Links between the nodes P, at least one of which is new.
LinksIn(P) ==
  {l \in [from : P, to : P, minlen : Int, weight : Int] : l.from > NodeCount \/ l.to > NodeCount}

\* A link between such nodes is one of these.
LEMMA LinkTyped ==
  ASSUME NEW P, NEW v \in P, NEW w \in P, v > NodeCount \/ w > NodeCount,
         NEW len \in Int, NEW wt \in Int
  PROVE  Link(v, w, len, wt) \in LinksIn(P)
  BY DEF Link, LinksIn

\* The links between a compound and what it holds, as the list F has them.
FrameLinks(F, frames, c, v) ==
  LET len == IF v \in Compounds THEN 1 ELSE Height - Depth(c) + 1
  IN  \E x, y \in DOMAIN F :
        /\ F[x].from = frames[c][1] /\ F[x].minlen = len
        /\ F[x].to = IF v \in Compounds THEN frames[v][1] ELSE v
        /\ F[y].from = IF v \in Compounds THEN frames[v][2] ELSE v
        /\ F[y].to = frames[c][2] /\ F[y].minlen = len

\* The frame of a compound joins nodes that are no compounds.
LEMMA FrameTyped ==
  ASSUME GraphOK, NEW P, nodes \ Compounds \subseteq P, NEW frames, NEW c \in Compounds,
         \A d \in Compounds : /\ frames[d][1] \in P /\ frames[d][1] > NodeCount
                              /\ frames[d][2] \in P /\ frames[d][2] > NodeCount
  PROVE  /\ Frame(frames, c) \in Seq(LinksIn(P))
         /\ \A v \in Children(c) : FrameLinks(Frame(frames, c), frames, c, v)
<1> DEFINE heavy == 2 * NodeCount
           top(v) == IF v \in Compounds THEN frames[v][1] ELSE v
           bottom(v) == IF v \in Compounds THEN frames[v][2] ELSE v
           len(v) == IF v \in Compounds THEN 1 ELSE Height - Depth(c) + 1
           w(v) == IF v \in Compounds THEN heavy ELSE 2 * heavy
           held(v) == <<Link(frames[c][1], top(v), len(v), w(v)),
                        Link(bottom(v), frames[c][2], len(v), w(v))>>
           rows == [i \in DOMAIN InOrder(Children(c)) |-> held(InOrder(Children(c))[i])]
<1>1. Frame(frames, c) = FlattenSeq(rows)
  BY DEF Frame
<1>2. c \in nodes /\ NodeCount \in Nat /\ IsFiniteSet(nodes) /\ nodes \in SUBSET Int
  BY CompoundsFacts DEF GraphOK, NetworkOK
<1>3. Height \in Int /\ Depth(c) \in Int
  BY <1>2, HeightIsNumber
<1>4. ASSUME NEW v \in nodes PROVE held(v) \in Seq(LinksIn(P))
  <2>1. top(v) \in P /\ bottom(v) \in P
    BY <1>4
  <2>2. len(v) \in Int /\ w(v) \in Int
    BY <1>2, <1>3
  <2> HIDE DEF top, bottom, len, w
  <2>3. /\ Link(frames[c][1], top(v), len(v), w(v)) \in LinksIn(P)
        /\ Link(bottom(v), frames[c][2], len(v), w(v)) \in LinksIn(P)
    BY <2>1, <2>2, LinkTyped
  <2> QED  BY <2>3
<1>5. Children(c) \in SUBSET nodes
  BY DEF Children
<1>6. Children(c) \in SUBSET Int /\ IsFiniteSet(Children(c))
  <2>1. IsFiniteSet(Children(c))
    BY <1>2, <1>5, FS_Subset, Zenon
  <2> QED  BY <1>2, <1>5, <2>1, Zenon
<1>7. PICK n \in Nat : /\ InOrder(Children(c)) \in [1..n -> Children(c)]
                       /\ \A v \in Children(c) : \E i \in 1..n : InOrder(Children(c))[i] = v
  BY <1>6, InOrderFacts
<1>8. rows \in [1..n -> Seq(LinksIn(P))]
  <2> HIDE DEF held
  <2> QED  BY <1>4, <1>5, <1>7
<1>9. \A i \in 1..n : rows[i] = held(InOrder(Children(c))[i])
  <2> HIDE DEF held
  <2> QED  BY <1>7
<1> DEFINE F == Frame(frames, c)
           R == LinksIn(P)
<1> HIDE DEF rows, F, R
<1>10. /\ F \in Seq(R)
       /\ \A i \in 1..n : \A x \in DOMAIN rows[i] : \E y \in DOMAIN F : F[y] = rows[i][x]
  <2>1. rows \in [1..n -> Seq(R)]
    BY <1>8 DEF R
  <2>2. /\ FlattenSeq(rows) \in Seq(R)
        /\ \A j \in 1..n : \A x \in DOMAIN rows[j] :
             \E y \in DOMAIN FlattenSeq(rows) : FlattenSeq(rows)[y] = rows[j][x]
    <3>1. n \in Nat
      BY <1>7
    <3> QED  BY ONLY <2>1, <3>1, FlattenFacts
  <2> QED  BY <1>1, <2>2 DEF F
<1>11. ASSUME NEW v \in Children(c) PROVE FrameLinks(F, frames, c, v)
  <2>1. PICK i \in 1..n : InOrder(Children(c))[i] = v
    BY <1>7
  <2>2. rows[i] = held(v)
    BY <1>9, <2>1
  <2>3. DOMAIN held(v) = {1, 2}
    OBVIOUS
  <2>4. PICK x, y \in DOMAIN F : F[x] = held(v)[1] /\ F[y] = held(v)[2]
    <3>1. PICK h : h = held(v)
      OBVIOUS
    <3>2. h = rows[i] /\ DOMAIN h = {1, 2}
      BY <2>2, <2>3, <3>1
    <3>3. \E x, y \in DOMAIN F : F[x] = h[1] /\ F[y] = h[2]
      BY <1>10, <3>2
    <3> QED  BY <3>1, <3>3
  <2>5. /\ F[x] = Link(frames[c][1], top(v), len(v), w(v))
        /\ F[y] = Link(bottom(v), frames[c][2], len(v), w(v))
    BY <2>4
  <2>6. /\ F[x].from = frames[c][1] /\ F[x].to = top(v) /\ F[x].minlen = len(v)
        /\ F[y].from = bottom(v) /\ F[y].to = frames[c][2] /\ F[y].minlen = len(v)
    BY <2>5 DEF Link
  <2> QED  BY <2>6 DEF FrameLinks
<1> QED  BY <1>10, <1>11 DEF F, R

\* The borders of the compounds are the nodes that follow those of the graph, in pairs.
LEMMA FramesFacts ==
  ASSUME GraphOK
  PROVE  LET last == NodeCount + 2 * Cardinality(Compounds)
         IN  /\ \A d \in Compounds : /\ FrameOf[d][1] \in (NodeCount + 1)..last
                                     /\ FrameOf[d][2] \in (NodeCount + 1)..last
             /\ \A v \in (NodeCount + 1)..last :
                  \E d \in Compounds : v \in {FrameOf[d][1], FrameOf[d][2]}
<1> DEFINE N == NodeCount
           C == Cardinality(Compounds)
           F == FrameOf
<1>1. N \in Nat /\ C \in Nat /\ Compounds \in SUBSET Int /\ IsFiniteSet(Compounds)
  BY CompoundsFacts
<1>2. /\ \A v \in Compounds : Turn(Compounds, v) \in 0..(C - 1)
      /\ \A n \in 0..(C - 1) : \E v \in Compounds : Turn(Compounds, v) = n
  BY <1>1, TurnsOf
<1>3. ASSUME NEW d \in Compounds
      PROVE  /\ F[d][1] = N + 2 * Turn(Compounds, d) + 1
             /\ F[d][2] = N + 2 * Turn(Compounds, d) + 2
  BY DEF FrameOf, Turn
<1> HIDE DEF N, C, F
<1>4. ASSUME NEW d \in Compounds
      PROVE  F[d][1] \in (N + 1)..(N + 2 * C) /\ F[d][2] \in (N + 1)..(N + 2 * C)
  BY <1>1, <1>2, <1>3
<1>5. ASSUME NEW v \in (N + 1)..(N + 2 * C)
      PROVE  \E d \in Compounds : v \in {F[d][1], F[d][2]}
  <2>1. PICK n \in 0..(C - 1) : v = N + 2 * n + 1 \/ v = N + 2 * n + 2
    <3> DEFINE n == (v - N - 1) \div 2
    <3>1. n \in 0..(C - 1) /\ (v = N + 2 * n + 1 \/ v = N + 2 * n + 2)
      BY <1>1
    <3> QED  BY <3>1
  <2>2. PICK d \in Compounds : Turn(Compounds, d) = n
    BY <1>2
  <2> QED  BY <1>3, <2>1, <2>2
<1> QED  BY <1>4, <1>5 DEF N, C, F

Root == NodeCount + 2 * Cardinality(Compounds) + 1

\* The edges that nesting adds.
ExitLinks ==
  LET exits == InOrder(Exits)
  IN  [i \in DOMAIN exits |->
         Link(FrameOf[parents[edges[exits[i]].from]][2], edges[exits[i]].to, 1, 0)]

AllFrames ==
  LET inOrder == InOrder(Compounds)
  IN  FlattenSeq([i \in DOMAIN inOrder |-> Frame(FrameOf, inOrder[i])])

AddedLinks == AllFrames \o ExitLinks \o RootLinks(FrameOf, Root)

\* The ends of these edges: no compounds, but borders and the root.
FrameEnds == (1..Root) \ Compounds

\* The borders and the root are new nodes.
LEMMA FrameEndsFacts ==
  ASSUME GraphOK
  PROVE  /\ nodes \ Compounds \subseteq FrameEnds
         /\ Root \in Nat /\ Root \in FrameEnds /\ nodes \subseteq 1..Root
         /\ NodeCount < Root
         /\ \A d \in Compounds : /\ FrameOf[d][1] \in FrameEnds /\ FrameOf[d][1] > NodeCount
                                 /\ FrameOf[d][2] \in FrameEnds /\ FrameOf[d][2] > NodeCount
                                 /\ FrameOf[d][1] < Root /\ FrameOf[d][2] < Root
<1>1. /\ NodeCount \in Nat /\ Cardinality(Compounds) \in Nat
      /\ Compounds \in SUBSET (1..NodeCount) /\ nodes = 1..NodeCount
  BY CompoundsFacts DEF GraphOK
<1>2. Root \in Nat /\ NodeCount < Root /\ Root = NodeCount + 2 * Cardinality(Compounds) + 1
  BY <1>1 DEF Root
<1>3. nodes \subseteq 1..Root
  BY <1>1, <1>2
<1>4. \A v \in 1..Root : v > NodeCount => v \in FrameEnds
  BY <1>1, <1>2 DEF FrameEnds
<1>5. ASSUME NEW d \in Compounds
      PROVE  /\ FrameOf[d][1] \in FrameEnds /\ FrameOf[d][1] > NodeCount
             /\ FrameOf[d][2] \in FrameEnds /\ FrameOf[d][2] > NodeCount
             /\ FrameOf[d][1] < Root /\ FrameOf[d][2] < Root
  <2> DEFINE last == NodeCount + 2 * Cardinality(Compounds)
  <2>1. FrameOf[d][1] \in (NodeCount + 1)..last /\ FrameOf[d][2] \in (NodeCount + 1)..last
    BY FramesFacts
  <2>2. \A v \in (NodeCount + 1)..last : v \in 1..Root /\ v > NodeCount /\ v < Root
    BY <1>1, <1>2
  <2> HIDE DEF last
  <2> QED  BY <1>4, <2>1, <2>2
<1>6. nodes \ Compounds \subseteq FrameEnds
  BY <1>3 DEF FrameEnds
<1>7. Root \in FrameEnds
  BY <1>1, <1>2, <1>4
<1> QED  BY <1>2, <1>3, <1>5, <1>6, <1>7

\* The frames join such nodes.
LEMMA AllFramesTyped ==
  ASSUME GraphOK
  PROVE  /\ AllFrames \in Seq(LinksIn(FrameEnds))
         /\ \A c \in Compounds : \A v \in Children(c) : FrameLinks(AllFrames, FrameOf, c, v)
<1> DEFINE inOrder == InOrder(Compounds)
           rows == [i \in DOMAIN inOrder |-> Frame(FrameOf, inOrder[i])]
<1>1. PICK n \in Nat : /\ inOrder \in [1..n -> Compounds]
                       /\ \A c \in Compounds : \E i \in 1..n : inOrder[i] = c
  <2>1. Compounds \in SUBSET Int /\ IsFiniteSet(Compounds)
    BY CompoundsFacts
  <2> QED  BY <2>1, InOrderFacts
<1>2. \A c \in Compounds : /\ Frame(FrameOf, c) \in Seq(LinksIn(FrameEnds))
                           /\ \A v \in Children(c) : FrameLinks(Frame(FrameOf, c), FrameOf, c, v)
  BY FrameEndsFacts, FrameTyped
<1> HIDE DEF inOrder
<1>3. rows \in [1..n -> Seq(LinksIn(FrameEnds))]
  BY <1>1, <1>2
<1>4. AllFrames = FlattenSeq(rows)
  BY DEF AllFrames, inOrder
<1>5. \A i \in 1..n : rows[i] = Frame(FrameOf, inOrder[i])
  BY <1>1
<1> HIDE DEF rows
<1>6. /\ AllFrames \in Seq(LinksIn(FrameEnds))
      /\ \A i \in 1..n : \A x \in DOMAIN rows[i] : \E y \in DOMAIN AllFrames : AllFrames[y] = rows[i][x]
  <2> DEFINE R == LinksIn(FrameEnds)
  <2>1. rows \in [1..n -> Seq(R)]
    BY <1>3
  <2> HIDE DEF R
  <2>2. /\ FlattenSeq(rows) \in Seq(R)
        /\ \A i \in 1..n : \A x \in DOMAIN rows[i] :
             \E y \in DOMAIN FlattenSeq(rows) : FlattenSeq(rows)[y] = rows[i][x]
    BY <2>1, FlattenFacts
  <2> QED  BY <1>4, <2>2 DEF R
<1>7. ASSUME NEW c \in Compounds, NEW v \in Children(c) PROVE FrameLinks(AllFrames, FrameOf, c, v)
  <2>1. PICK i \in 1..n : rows[i] = Frame(FrameOf, c)
    BY <1>1, <1>5
  <2>2. FrameLinks(rows[i], FrameOf, c, v)
    BY <1>2, <2>1
  <2> QED  BY <1>6, <2>2 DEF FrameLinks
<1> QED  BY <1>6, <1>7

\* What goes below a frame is joined to its bottom border.
LEMMA ExitLinksTyped ==
  ASSUME GraphOK
  PROVE  ExitLinks \in Seq(LinksIn(FrameEnds))
<1> DEFINE exits == InOrder(Exits)
<1>1. Exits \in SUBSET Positions
  BY DEF Exits
<1>2. IsFiniteSet(Positions) /\ Positions \in SUBSET Nat /\ NetworkOK
  BY NumbersOfNodes DEF GraphOK
<1>3. Exits \in SUBSET Int /\ IsFiniteSet(Exits)
  <2>1. IsFiniteSet(Exits)
    BY <1>1, <1>2, FS_Subset, Zenon
  <2> QED  BY <1>1, <1>2, <2>1
<1>4. PICK n \in Nat : exits \in [1..n -> Exits]
  BY <1>3, InOrderFacts
<1>5. ASSUME NEW k \in Exits
      PROVE  Link(FrameOf[parents[edges[k].from]][2], edges[k].to, 1, 0) \in LinksIn(FrameEnds)
  <2>1. edges[k].from \in nodes /\ edges[k].to \in nodes \ Compounds
    BY <1>1, <1>2, EdgesJoinNodes
  <2>2. parents[edges[k].from] # 0
    BY DEF Exits, Leaves
  <2>3. parents[edges[k].from] \in Compounds
    BY <2>1, <2>2, CompoundsFacts
  <2>4. /\ FrameOf[parents[edges[k].from]][2] \in FrameEnds /\ edges[k].to \in FrameEnds
        /\ FrameOf[parents[edges[k].from]][2] > NodeCount
    BY <2>1, <2>3, FrameEndsFacts
  <2> QED  BY <2>4, LinkTyped
<1>6. ExitLinks = [i \in DOMAIN exits |->
                     Link(FrameOf[parents[edges[exits[i]].from]][2], edges[exits[i]].to, 1, 0)]
  BY DEF ExitLinks
<1> HIDE DEF exits
<1>7. ExitLinks \in [1..n -> LinksIn(FrameEnds)]
  BY <1>4, <1>5, <1>6
<1> QED  BY <1>7

\* The root is joined to what is in no compound.
LEMMA RootLinksTyped ==
  ASSUME GraphOK, nodes # {}
  PROVE  RootLinks(FrameOf, Root) \in Seq(LinksIn(FrameEnds))
<1> DEFINE top == {v \in nodes : parents[v] = 0}
           leaves == InOrder(top \ Compounds)
           compounds == InOrder(top \intersect Compounds)
           toLeaves == [i \in DOMAIN leaves |-> Link(Root, leaves[i], 2 * Height + 1, 0)]
           toCompounds ==
             [i \in DOMAIN compounds |-> Link(Root, FrameOf[compounds[i]][1], Height + 1, 0)]
<1>1. IsFiniteSet(nodes) /\ nodes \in SUBSET Int /\ Height \in Int
  BY HeightIsNumber, CompoundsFacts DEF GraphOK, NetworkOK
<1>2. /\ top \ Compounds \in SUBSET nodes /\ top \intersect Compounds \in SUBSET nodes
      /\ top \ Compounds \in SUBSET Int /\ top \intersect Compounds \in SUBSET Int
  BY <1>1
<1>3. IsFiniteSet(top \ Compounds) /\ IsFiniteSet(top \intersect Compounds)
  <2> HIDE DEF top
  <2> QED  BY <1>1, <1>2, FS_Subset
<1>4. PICK m \in Nat : leaves \in [1..m -> top \ Compounds]
  <2> HIDE DEF top
  <2> QED  BY <1>2, <1>3, InOrderFacts
<1>5. PICK n \in Nat : compounds \in [1..n -> top \intersect Compounds]
  <2> HIDE DEF top
  <2> QED  BY <1>2, <1>3, InOrderFacts
<1>6. RootLinks(FrameOf, Root) = toLeaves \o toCompounds
  BY DEF RootLinks
<1>7. Root \in FrameEnds /\ Root > NodeCount /\ 2 * Height + 1 \in Int /\ Height + 1 \in Int
  BY <1>1, FrameEndsFacts
<1>8. \A v \in top \ Compounds : Link(Root, v, 2 * Height + 1, 0) \in LinksIn(FrameEnds)
  <2> TAKE v \in top \ Compounds
  <2>1. v \in FrameEnds
    BY FrameEndsFacts
  <2> QED  BY <1>7, <2>1, LinkTyped
<1>9. \A c \in Compounds : Link(Root, FrameOf[c][1], Height + 1, 0) \in LinksIn(FrameEnds)
  <2> TAKE c \in Compounds
  <2>1. FrameOf[c][1] \in FrameEnds
    BY FrameEndsFacts
  <2> QED  BY <1>7, <2>1, LinkTyped
<1> HIDE DEF leaves, compounds
<1>10. toLeaves \in [1..m -> LinksIn(FrameEnds)]
  BY <1>4, <1>8
<1>11. toCompounds \in [1..n -> LinksIn(FrameEnds)]
  BY <1>5, <1>9
<1> HIDE DEF toLeaves, toCompounds
<1>12. toLeaves \in Seq(LinksIn(FrameEnds)) /\ toCompounds \in Seq(LinksIn(FrameEnds))
  BY <1>10, <1>11
<1> QED  BY <1>6, <1>12

\* nesting::run_with_policy.
LEMMA NestKeeps ==
  ASSUME GraphOK, Compounds # {}, Nest
  PROVE  /\ GraphOK' /\ phase' = phase /\ Compounds' = Compounds /\ NodeCount' = Root
         /\ Len(AddedLinks) \in Nat /\ Positions' = 1..(Len(edges) + Len(AddedLinks))
         /\ \A k \in Positions : edges'[k] = edges[k] /\ minlen'[k] = minlen[k] * (2 * Height + 1)
         /\ \A k \in Positions' \ Positions :
              edges'[k].from > NodeCount \/ edges'[k].to > NodeCount
         /\ weight \in [Positions -> Int] => weight' \in [Positions' -> Int]
         /\ \A i \in 1..Len(AddedLinks) :
              LET k == Len(edges) + i
              IN  /\ k \in Positions' \ Positions
                  /\ edges'[k].from = AddedLinks[i].from /\ edges'[k].to = AddedLinks[i].to
                  /\ minlen'[k] = AddedLinks[i].minlen
         /\ nodes' = 1..Root
         /\ \A v \in nodes : parents'[v] = parents[v]
         /\ \A v \in nodes' \ nodes :
              IF v = Root THEN parents'[v] = 0
              ELSE /\ parents'[v] \in Compounds
                   /\ v \in {FrameOf[parents'[v]][1], FrameOf[parents'[v]][2]}
<1> DEFINE N == NodeCount
           E == [from : FrameEnds, to : FrameEnds, orig : Int]
           A == AddedLinks
           more == [i \in DOMAIN A |-> [from |-> A[i].from, to |-> A[i].to, orig |-> EdgeCount + i]]
           stretched == [k \in Positions |-> minlen[k] * (2 * Height + 1)]
           lengths == [i \in DOMAIN A |-> A[i].minlen]
           weights == [i \in DOMAIN A |-> A[i].weight]
           framed(v) == CHOOSE c \in Compounds : v \in {FrameOf[c][1], FrameOf[c][2]}
<1>1. /\ nodes' = 1..Root
      /\ parents' = [v \in 1..Root |-> IF v \in nodes THEN parents[v]
                                       ELSE IF v = Root THEN 0 ELSE framed(v)]
      /\ edges' = edges \o more
      /\ minlen' = stretched \o lengths
      /\ weight' = weight \o weights
      /\ unplaced' = unplaced /\ phase' = phase
  BY DEF Nest, Root, AddedLinks, AllFrames, ExitLinks
<1>2. /\ N \in Nat /\ Cardinality(Compounds) \in Nat /\ Compounds \in SUBSET nodes
      /\ nodes = 1..N /\ nodes # {} /\ DOMAIN parents = nodes
      /\ Compounds = {parents[v] : v \in nodes} \ {0}
  BY CompoundsFacts DEF GraphOK, Compounds
<1>3. /\ Root \in Nat /\ N < Root /\ nodes \subseteq 1..Root
      /\ Root = N + 2 * Cardinality(Compounds) + 1
      /\ nodes \ Compounds \subseteq FrameEnds
  BY FrameEndsFacts DEF Root
<1>4. ASSUME NEW v \in 1..Root, v \notin nodes, v # Root 
      PROVE  framed(v) \in Compounds /\ v \in {FrameOf[framed(v)][1], FrameOf[framed(v)][2]}
  <2> DEFINE last == NodeCount + 2 * Cardinality(Compounds)
  <2>1. v \in (NodeCount + 1)..last
    BY <1>2, <1>3, <1>4
  <2>2. \E d \in Compounds : v \in {FrameOf[d][1], FrameOf[d][2]}
    BY <2>1, FramesFacts
  <2> QED  BY <2>2
<1>5. /\ DOMAIN parents' = 1..Root
      /\ \A v \in nodes : parents'[v] = parents[v]
      /\ \A v \in 1..Root : v \notin nodes => parents'[v] \in Compounds \union {0}
  <2> HIDE DEF framed
  <2> QED  BY <1>1, <1>3, <1>4
<1>6. Compounds' = Compounds
  <2>1. Compounds' = {parents'[v] : v \in 1..Root} \ {0}
    BY <1>5 DEF Compounds
  <2>2. ASSUME NEW c \in Compounds' PROVE c \in Compounds
    BY <1>2, <1>5, <2>1
  <2>3. ASSUME NEW c \in Compounds PROVE c \in Compounds'
    BY <1>2, <1>3, <1>5, <2>1
  <2> QED  BY <2>2, <2>3
<1>7. parents' \in [nodes' -> nodes' \union {0}]
  <2>1. \A v \in 1..Root : parents'[v] \in (1..Root) \union {0}
    BY <1>2, <1>3, <1>5 DEF GraphOK
  <2>2. parents' = [v \in 1..Root |-> parents'[v]]
    BY <1>1
  <2> QED  BY <1>1, <2>1, <2>2
<1>8. /\ IsFiniteSet(nodes') /\ NodeCount' = Root /\ nodes' = 1..NodeCount'
      /\ nodes' \in SUBSET (Nat \ {0})
  <2>1. IsFiniteSet(1..Root) /\ Cardinality(1..Root) = Root
    BY <1>3, FS_Interval
  <2>2. 1..Root \in SUBSET (Nat \ {0})
    BY <1>3
  <2> QED  BY <1>1, <2>1, <2>2 DEF NodeCount
<1>9. A \in Seq(LinksIn(FrameEnds))
  <2>1. /\ AllFrames \in Seq(LinksIn(FrameEnds)) /\ ExitLinks \in Seq(LinksIn(FrameEnds))
        /\ RootLinks(FrameOf, Root) \in Seq(LinksIn(FrameEnds))
    BY <1>2, AllFramesTyped, ExitLinksTyped, RootLinksTyped
  <2> QED  BY <2>1 DEF AddedLinks
<1>10. Len(A) \in Nat /\ DOMAIN A = 1..Len(A)
  BY <1>9
<1>11. Len(edges) \in Nat /\ Positions = 1..Len(edges) /\ EdgeCount \in Nat
  BY DEF GraphOK, NetworkOK, Positions, EdgeCount
<1>12. ASSUME NEW i \in DOMAIN A
       PROVE  /\ A[i].from \in FrameEnds /\ A[i].to \in FrameEnds
              /\ A[i].minlen \in Int /\ A[i].weight \in Int /\ i \in Nat
              /\ A[i].from > NodeCount \/ A[i].to > NodeCount
  <2>1. A[i] \in LinksIn(FrameEnds) /\ i \in Nat
    <3> HIDE DEF A
    <3> QED  BY <1>9, <1>12, EntryOf, Zenon
  <2> HIDE DEF A
  <2> QED  BY <2>1 DEF LinksIn
<1> HIDE DEF A
<1>13. more \in [1..Len(A) -> E]
  BY <1>10, <1>11, <1>12
<1>14. edges \in Seq(E)
  <2> DEFINE D == [from : nodes \ Compounds, to : nodes \ Compounds, orig : Int]
  <2>1. edges \in Seq(D)
    BY DEF GraphOK, NetworkOK
  <2>2. D \subseteq E
    BY <1>3
  <2> HIDE DEF D, E
  <2> QED  BY <2>1, <2>2
<1>15. E = [from : nodes' \ Compounds', to : nodes' \ Compounds', orig : Int]
  BY <1>1, <1>6 DEF FrameEnds
<1>16. /\ edges' \in Seq(E) /\ Len(edges') = Len(edges) + Len(A)
       /\ \A k \in 1..Len(edges) : edges'[k] = edges[k]
       /\ \A i \in 1..Len(A) : edges'[Len(edges) + i] = more[i]
  <2>1. more \in Seq(E) /\ Len(more) = Len(A)
    <3> HIDE DEF E, more
    <3> QED  BY <1>10, <1>13
  <2> HIDE DEF E, more
  <2>2. PICK list : list = edges'
    OBVIOUS
  <2>3. PICK s, t : s = edges /\ t = more
    OBVIOUS
  <2>4. s \in Seq(E) /\ t \in Seq(E) /\ list = s \o t
    BY <1>1, <1>14, <2>1, <2>2, <2>3
  <2>5. /\ list \in Seq(E) /\ Len(list) = Len(s) + Len(t)
        /\ \A k \in 1..Len(s) : list[k] = s[k]
        /\ \A i \in 1..Len(t) : list[Len(s) + i] = t[i]
    BY <2>4, Concatenated
  <2> QED  BY <2>1, <2>2, <2>3, <2>5
<1>17. /\ minlen' \in [Positions' -> Int]
       /\ \A k \in Positions : minlen'[k] = minlen[k] * (2 * Height + 1)
       /\ \A i \in 1..Len(A) : minlen'[Len(edges) + i] = A[i].minlen
  <2>1. Height \in Int /\ minlen \in [Positions -> Int]
    BY <1>2, HeightIsNumber DEF GraphOK, NetworkOK
  <2>2. stretched \in [1..Len(edges) -> Int]
    <3>1. \A k \in Positions : minlen[k] * (2 * Height + 1) \in Int
      BY <2>1
    <3> QED  BY <1>11, <3>1
  <2>3. lengths \in [1..Len(A) -> Int]
    BY <1>10, <1>12
  <2> HIDE DEF stretched, lengths
  <2>4. stretched \in Seq(Int) /\ Len(stretched) = Len(edges)
    BY <1>11, <2>2
  <2>5. lengths \in Seq(Int) /\ Len(lengths) = Len(A)
    BY <1>10, <2>3
  <2>6. /\ minlen' \in Seq(Int) /\ Len(minlen') = Len(edges) + Len(A)
        /\ \A k \in 1..Len(edges) : minlen'[k] = stretched[k]
        /\ \A i \in 1..Len(A) : minlen'[Len(edges) + i] = lengths[i]
    <3>1. PICK list, s, t : list = minlen' /\ s = stretched /\ t = lengths
      OBVIOUS
    <3>2. s \in Seq(Int) /\ t \in Seq(Int) /\ list = s \o t
      BY <1>1, <2>4, <2>5, <3>1
    <3>3. /\ list \in Seq(Int) /\ Len(list) = Len(s) + Len(t)
          /\ \A k \in 1..Len(s) : list[k] = s[k]
          /\ \A i \in 1..Len(t) : list[Len(s) + i] = t[i]
      BY <3>2, Concatenated
    <3> QED  BY <2>4, <2>5, <3>1, <3>3
  <2>7. Positions' = 1..(Len(edges) + Len(A))
    <3> HIDE DEF E
    <3> QED  BY <1>16 DEF Positions
  <2>8. \A k \in 1..Len(edges) : stretched[k] = minlen[k] * (2 * Height + 1)
    BY <1>11 DEF stretched
  <2>9. \A i \in 1..Len(A) : lengths[i] = A[i].minlen
    BY <1>10 DEF lengths
  <2> QED  BY <1>11, <2>6, <2>7, <2>8, <2>9
<1>18. Positions' = 1..(Len(edges) + Len(A))
  <2> HIDE DEF E
  <2> QED  BY <1>16 DEF Positions
<1>19. ASSUME NEW k \in Positions', k \notin Positions
       PROVE  edges'[k].from > NodeCount \/ edges'[k].to > NodeCount
  <2>1. PICK i \in 1..Len(A) : k = Len(edges) + i
    <3>1. k - Len(edges) \in 1..Len(A) /\ k = Len(edges) + (k - Len(edges))
      BY <1>10, <1>11, <1>18, <1>19
    <3> QED  BY <3>1
  <2>2. edges'[k] = more[i]
    BY <1>16, <2>1
  <2>3. more[i].from = A[i].from /\ more[i].to = A[i].to
    BY <1>10
  <2> HIDE DEF more
  <2> QED  BY <1>10, <1>12, <2>2, <2>3
<1>20. ASSUME weight \in [Positions -> Int]
       PROVE  weight' \in [Positions' -> Int]
  <2>1. weights \in [1..Len(A) -> Int]
    BY <1>10, <1>12
  <2> HIDE DEF weights
  <2>2. weights \in Seq(Int) /\ Len(weights) = Len(A)
    BY <1>10, <2>1
  <2>3. weight \in Seq(Int) /\ Len(weight) = Len(edges)
    BY <1>11, <1>20
  <2>4. PICK list : list = weight'
    OBVIOUS
  <2>5. list \in Seq(Int) /\ Len(list) = Len(weight) + Len(weights)
    <3>1. list = weight \o weights
      BY <1>1, <2>4
    <3>2. weight \o weights \in Seq(Int) /\ Len(weight \o weights) = Len(weight) + Len(weights)
      BY <2>2, <2>3, Concatenated, Zenon
    <3> QED  BY <3>1, <3>2, Zenon
  <2> QED  BY <1>18, <2>2, <2>3, <2>4, <2>5
<1> HIDE DEF E
<1>21. NetworkOK'
  BY <1>1, <1>8, <1>15, <1>16, <1>17, Zenon DEF NetworkOK
<1>22. unplaced' = {}
  BY <1>1 DEF GraphOK
<1>23. GraphOK'
  BY <1>1, <1>7, <1>8, <1>21, <1>22 DEF GraphOK
<1>24. \A k \in Positions : edges'[k] = edges[k]
  BY <1>11, <1>16
<1>25. ASSUME NEW i \in 1..Len(A)
       PROVE  /\ Len(edges) + i \in Positions' \ Positions
              /\ edges'[Len(edges) + i].from = A[i].from /\ edges'[Len(edges) + i].to = A[i].to
              /\ minlen'[Len(edges) + i] = A[i].minlen
  <2>1. Len(edges) + i \in Positions' \ Positions
    BY <1>10, <1>11, <1>18
  <2>2. edges'[Len(edges) + i] = more[i]
    BY <1>16
  <2>3. more[i].from = A[i].from /\ more[i].to = A[i].to
    BY <1>10
  <2> HIDE DEF more
  <2> QED  BY <1>17, <2>1, <2>2, <2>3
<1>26. \A v \in nodes' \ nodes :
         IF v = Root THEN parents'[v] = 0
         ELSE /\ parents'[v] \in Compounds
              /\ v \in {FrameOf[parents'[v]][1], FrameOf[parents'[v]][2]}
  <2> HIDE DEF framed
  <2> QED  BY <1>1, <1>3, <1>4
<1> QED  BY <1>1, <1>5, <1>6, <1>8, <1>10, <1>17, <1>18, <1>19, <1>20, <1>23, <1>24, <1>25, <1>26 DEF A
-----------------------------------------------------------------------------
(* The ranking in the pipeline.                                            *)

BeforeRanking == {"self_edges", "acyclic", "feedback", "nest"}
AfterRanking == {"clean_up", "titles", "climbing", "chains", "parents", "order"}

\* The inductive invariant of the pipeline, as far as the ranking goes.
RankingIInv ==
  /\ stage \in BeforeRanking \union {"rank"} \union AfterRanking
  /\ stage \in BeforeRanking => GraphOK /\ phase = "initial"
  /\ stage = "nest" => Compounds # {}
  /\ stage = "rank" =>
       /\ GraphOK
       /\ phase \in {"initial", "grow", "pivot", "ranked"}
       /\ phase # "initial" => RanksInv
       /\ phase = "grow" => EdgeCount > 0
  /\ stage \in AfterRanking => phase = "ranked"

\* A step of the ranking.
LEMMA RankKeeps ==
  ASSUME RankingIInv, Rank
  PROVE  RankingIInv'
<1>1. /\ stage = "rank" /\ stage' = "rank" /\ RankingNext /\ GraphOK
      /\ phase # "initial" => RanksInv
      /\ phase = "grow" => EdgeCount > 0
  BY DEF Rank, RankingIInv
<1>2. UNCHANGED <<graphVars, compoundVars, minlen>>
  BY <1>1 DEF RankingNext, InitialRanks, GrowTree, ShiftTree, FinishTree, Pivot, FinishRanks
<1>3. GraphOK' /\ EdgeCount' = EdgeCount
  BY <1>1, <1>2, GraphStays DEF graphVars, compoundVars, EdgeCount
<1>4. NetworkOK /\ unplaced = {}
  BY <1>1 DEF GraphOK
<1>5. /\ RanksInv'
      /\ phase' \in {"grow", "pivot", "ranked"}
      /\ phase' = "grow" => EdgeCount > 0
  <2>1. CASE InitialRanks
    <3>1. RanksInv' /\ phase' \in {"ranked", "grow"}
      BY <1>4, <2>1, InitialRanksKeep
    <3>2. phase' = "grow" => EdgeCount > 0
      BY <2>1 DEF InitialRanks
    <3> QED  BY <3>1, <3>2
  <2>2. CASE GrowTree
    <3>1. phase = "grow"
      BY <2>2 DEF GrowTree
    <3> QED  BY <1>1, <1>4, <2>2, <3>1, GrowTreeKeeps
  <2>3. CASE ShiftTree
    <3>1. phase = "grow"
      BY <2>3 DEF ShiftTree
    <3> QED  BY <1>1, <1>4, <2>3, <3>1, ShiftTreeKeeps
  <2>4. CASE FinishTree
    <3>1. phase = "grow"
      BY <2>4 DEF FinishTree
    <3> QED  BY <1>1, <1>4, <2>4, <3>1, FinishTreeKeeps
  <2>5. CASE Pivot
    <3>1. phase = "pivot"
      BY <2>5 DEF Pivot
    <3> QED  BY <1>1, <1>4, <2>5, <3>1, PivotKeeps
  <2>6. CASE FinishRanks
    <3>1. phase = "pivot"
      BY <2>6 DEF FinishRanks
    <3> QED  BY <1>1, <1>4, <2>6, <3>1, FinishRanksKeeps
  <2> QED  BY <1>1, <2>1, <2>2, <2>3, <2>4, <2>5, <2>6 DEF RankingNext
<1>6. "rank" \notin BeforeRanking \union AfterRanking
  BY DEF BeforeRanking, AfterRanking
<1>7. phase' # "initial" /\ (phase' = "grow" => EdgeCount' > 0)
  BY <1>3, <1>5
<1>8. stage' # "nest"
  BY <1>1
<1> QED  BY <1>1, <1>3, <1>5, <1>6, <1>7, <1>8 DEF RankingIInv

\* A step of a phase before the ranking.
LEMMA BeforeRankingKeeps ==
  ASSUME RankingIInv, ExtractSelfEdges \/ Search \/ EndSearch \/ CompoundFeedback \/ MakeSpace
                      \/ FrameCompounds
  PROVE  RankingIInv'
<1>1. stage \in BeforeRanking
  BY DEF ExtractSelfEdges, Search, EndSearch, CompoundFeedback, MakeSpace, FrameCompounds,
         BeforeRanking
<1>2. GraphOK /\ phase = "initial"
  BY <1>1 DEF RankingIInv
<1>3. GraphOK' /\ phase' = "initial"
  <2>1. CASE ExtractSelfEdges
    <3>1. phase' = phase
      BY <2>1 DEF ExtractSelfEdges
    <3> QED  BY <1>2, <2>1, <3>1, ExtractKeeps
  <2>2. CASE Search \/ EndSearch \/ CompoundFeedback
    <3>1. UNCHANGED <<nodes, edges, parents, unplaced, minlen, phase>>
      BY <2>2 DEF Search, EndSearch, CompoundFeedback, AcyclicNext, Begin, Descend, MarkBack, Pass,
                  Return, Examine, ReverseFeedback, graphVars, compoundVars, simplexVars
    <3> QED  BY <1>2, <3>1, GraphStays
  <2>3. CASE MakeSpace
    <3>1. phase' = phase
      BY <2>3 DEF MakeSpace
    <3> QED  BY <1>2, <2>3, <3>1, MakeSpaceKeeps
  <2>4. CASE FrameCompounds
    <3>1. Nest /\ Compounds # {}
      BY <2>4 DEF FrameCompounds, RankingIInv
    <3> QED  BY <1>2, <3>1, NestKeeps
  <2> QED  BY <2>1, <2>2, <2>3, <2>4
<1>4. /\ stage' \in BeforeRanking \union {"rank"}
      /\ stage' = "nest" => Compounds' # {}
  <2>1. CASE ExtractSelfEdges \/ Search \/ EndSearch \/ CompoundFeedback
    <3>1. stage' \in {"acyclic", "feedback"}
      BY <2>1 DEF ExtractSelfEdges, Search, EndSearch, CompoundFeedback
    <3> QED  BY <3>1 DEF BeforeRanking
  <2>2. CASE MakeSpace
    BY <1>2, <2>2, MakeSpaceKeeps DEF BeforeRanking
  <2>3. CASE FrameCompounds
    BY <2>3 DEF FrameCompounds
  <2> QED  BY <2>1, <2>2, <2>3
<1>5. stage' \notin AfterRanking
  BY <1>4 DEF BeforeRanking, AfterRanking
<1> QED  BY <1>3, <1>4, <1>5 DEF RankingIInv

\* A step of a phase after the ranking.
LEMMA AfterRankingKeeps ==
  ASSUME RankingIInv, NormalizeRanks \/ Unframe \/ KeepEdge \/ BreakEdge \/ Rebuild \/ AssignParents
  PROVE  RankingIInv'
<1>1. phase = "ranked" /\ phase' = phase
  <2>1. CASE NormalizeRanks
    BY <2>1 DEF NormalizeRanks
  <2>2. CASE Unframe
    BY <2>2 DEF Unframe, RemoveEmptyRanks, CleanUp, InsertTitles, MarkClimbing, simplexVars,
                RankingIInv, AfterRanking
  <2>3. CASE KeepEdge \/ BreakEdge \/ Rebuild \/ AssignParents
    BY <2>3 DEF KeepEdge, BreakEdge, Rebuild, AssignParents, simplexVars, RankingIInv, AfterRanking
  <2> QED  BY <2>1, <2>2, <2>3
<1>2. stage' \in AfterRanking
  BY DEF NormalizeRanks, Unframe, KeepEdge, BreakEdge, Rebuild, AssignParents, AfterRanking
<1>3. stage' \notin BeforeRanking /\ stage' # "rank" /\ stage' # "nest"
  BY <1>2 DEF AfterRanking, BeforeRanking
<1> QED  BY <1>1, <1>2, <1>3 DEF RankingIInv

\* Nothing happens.
LEMMA RanksStay ==
  ASSUME RanksInv, UNCHANGED <<graphVars, compoundVars, simplexVars>>
  PROVE  RanksInv'
<1>1. /\ NetworkUnchanged
      /\ UNCHANGED <<rank, phase, inTree, parent, via, cuts, work, missed>>
  BY DEF simplexVars, NetworkUnchanged
<1>2. /\ Positions' = Positions /\ RankNodes' = RankNodes /\ First' = First /\ nodes' = nodes
      /\ edges' = edges /\ minlen' = minlen /\ EdgeCount' = EdgeCount
      /\ \A k : Source(k)' = Source(k) /\ Target(k)' = Target(k)
      /\ \A k, v, w : Joins(k, v, w)' = Joins(k, v, w)
  BY <1>1, NetworkStays
<1>3. \A k : Slack(k)' = Slack(k)
  BY <1>1, <1>2 DEF Slack
<1>4. Feasible => Feasible'
  BY <1>2, <1>3 DEF Feasible
<1>5. Tree' = Tree
  BY <1>1, <1>2 DEF Tree
<1>6. \A v : HangsTight(v) => HangsTight(v)'
  BY <1>1, <1>2, <1>3, <1>5 DEF HangsTight
<1>7. Rooted => Rooted'
  BY <1>1, <1>2, <1>5 DEF Rooted, DownClosed
<1>8. TreeInv => TreeInv'
  BY <1>1, <1>2, <1>5, <1>6, <1>7 DEF TreeInv
<1>9. GrowInv => GrowInv'
  BY <1>1, <1>5, <1>8 DEF GrowInv
<1>10. PivotInv => PivotInv'
  BY <1>1, <1>2, <1>5, <1>8 DEF PivotInv
<1> QED  BY <1>1, <1>2, <1>4, <1>9, <1>10 DEF RanksInv

\* The invariant is inductive.
LEMMA RankingInductive == RankingIInv /\ [LayeringNext \/ LayeringDone]_layeringVars => RankingIInv'
<1> SUFFICES ASSUME RankingIInv, [LayeringNext \/ LayeringDone]_layeringVars PROVE RankingIInv'
  OBVIOUS
<1>1. CASE LayeringNext
  BY <1>1, RankKeeps, BeforeRankingKeeps, AfterRankingKeeps DEF LayeringNext
<1>2. CASE LayeringDone \/ UNCHANGED layeringVars
  <2>1. UNCHANGED <<graphVars, compoundVars, simplexVars, stage>>
    BY <1>2 DEF LayeringDone, layeringVars
  <2>2. UNCHANGED <<nodes, edges, parents, unplaced, minlen, phase, stage>>
    BY <2>1 DEF graphVars, compoundVars, simplexVars
  <2>3. GraphOK => GraphOK'
    BY <2>2, GraphStays
  <2>4. RanksInv => RanksInv'
    BY <2>1, RanksStay
  <2>5. Compounds' = Compounds /\ EdgeCount' = EdgeCount
    BY <2>2 DEF Compounds, EdgeCount
  <2> QED  BY <2>2, <2>3, <2>4, <2>5 DEF RankingIInv
<1> QED  BY <1>1, <1>2

\* It says what TightTreeSpansFeasibleRanks says.
LEMMA RankingIInvSuffices ==
  ASSUME RankingIInv
  PROVE  TightTreeSpansFeasibleRanks
<1>1. ASSUME stage = "rank", phase # "initial", missed = {}
      PROVE  \A k \in Positions : Slack(k) >= 0
  BY <1>1 DEF RankingIInv, RanksInv, Feasible
<1>2. ASSUME phase \in {"grow", "pivot"}, NEW v \in nodes, parent[v] # 0
      PROVE  /\ Joins(via[v], v, parent[v])
             /\ Slack(via[v]) = 0
             /\ v \in Below(First)
  <2>1. stage = "rank"
    BY <1>2 DEF RankingIInv
  <2>2. NetworkOK /\ RanksInv
    BY <1>2, <2>1 DEF RankingIInv, GraphOK
  <2>3. TreeInv
    BY <1>2, <2>2 DEF RanksInv, GrowInv, PivotInv
  <2>4. First \in nodes
    BY <2>2, <2>3, RankNodesFacts DEF TreeInv
  <2>5. Tree \subseteq Below(First)
    BY <2>2, <2>3, <2>4, BelowFacts DEF TreeInv, Rooted
  <2>6. v \in Tree
    BY <1>2 DEF Tree
  <2> QED  BY <1>2, <2>3, <2>5, <2>6 DEF TreeInv, HangsTight
<1> QED  BY <1>1, <1>2 DEF TightTreeSpansFeasibleRanks

\* It holds when the pipeline starts.
LEMMA InitIsRanked ==
  ASSUME LayeringInit
  PROVE  RankingIInv
<1>1. GraphOK /\ phase = "initial" /\ stage = "self_edges"
  BY InitIsGraph
<1> QED  BY <1>1 DEF RankingIInv, BeforeRanking, AfterRanking

\* Through the whole pipeline, for every graph: the ranks of network_simplex.rs keep every
\* minimal length, and its spanning tree is tight and hangs together.
THEOREM RankingCorrect == LayeringSpec => []TightTreeSpansFeasibleRanks
  BY InitIsRanked, RankingInductive, RankingIInvSuffices, PTL DEF LayeringSpec
-----------------------------------------------------------------------------
(* The search in the pipeline.                                             *)

\* Where the search stands while the pipeline goes on: not begun, under way, or over and
\* forgotten.  A search that is over says nothing about a graph without nodes.
SearchStaged ==
  /\ stage = "self_edges" => SearchStart /\ reversed = {}
  /\ stage = "acyclic" => SearchInv /\ PathInv
  /\ stage \notin {"self_edges", "acyclic"} => visited = {}
  /\ stage \in AfterRanking /\ nodes = {} => edges = <<>>
  /\ stage \in {"clean_up", "titles"} => IsFiniteSet(nodes)
  /\ IsFiniteSet(titled)

\* In such a graph edges join nodes; where there are no nodes there are no edges.
LEMMA GraphIsInGraph ==
  GraphOK => EdgesInGraph /\ IsFiniteSet(nodes) /\ (nodes = {} => edges = <<>>)
<1> SUFFICES ASSUME GraphOK
             PROVE  EdgesInGraph /\ IsFiniteSet(nodes) /\ (nodes = {} => edges = <<>>)
  OBVIOUS
<1>1. EdgesInGraph
  BY EdgesJoinNodes DEF GraphOK, EdgesInGraph
<1>2. ASSUME nodes = {} PROVE edges = <<>>
  <2>1. Positions = {}
    BY <1>1, <1>2 DEF EdgesInGraph
  <2>2. DOMAIN edges = 1..Len(edges) /\ Len(edges) \in Nat
    BY DEF GraphOK, NetworkOK
  <2>3. Len(edges) = 0
    BY <2>1, <2>2 DEF Positions
  <2>4. edges \in Seq([from : nodes \ Compounds, to : nodes \ Compounds, orig : Int])
    BY DEF GraphOK, NetworkOK
  <2> QED  BY <2>3, <2>4, EmptySeq
<1> QED  BY <1>1, <1>2 DEF GraphOK, NetworkOK

\* The pipeline starts before the search.
LEMMA InitIsStaged ==
  ASSUME LayeringInit
  PROVE  SearchStaged
<1>1. stage = "self_edges" /\ SearchStart /\ reversed = {}
  BY DEF LayeringInit
<1>2. IsFiniteSet(titled)
  <2>1. PICK input \in Inputs : titled = input.titled
    BY DEF LayeringInit
  <2>2. IsFiniteSet(input.nodes) /\ input.titled \in SUBSET input.nodes
    BY InputsAreGraphs
  <2> QED  BY <2>1, <2>2, FS_Subset, Zenon
<1> QED  BY <1>1, <1>2 DEF SearchStaged, AfterRanking

\* A step of the pipeline is a step of the search, or leaves it alone, or ends it.
LEMMA SearchStagedInductive ==
  RankingIInv /\ RankingIInv' /\ SearchStaged /\ [LayeringNext \/ LayeringDone]_layeringVars
    => SearchStaged'
<1> SUFFICES ASSUME RankingIInv, RankingIInv', SearchStaged,
                    [LayeringNext \/ LayeringDone]_layeringVars
             PROVE  SearchStaged'
  OBVIOUS
<1>1. CASE ExtractSelfEdges
  <2>1. /\ stage' = "acyclic" /\ nodes' = nodes /\ titled' = titled
        /\ reversed' = reversed /\ SearchStart /\ reversed = {}
        /\ UNCHANGED <<visited, stack, examined, finish, clock>>
    BY <1>1 DEF ExtractSelfEdges, SearchStaged, searchVars, compoundVars
  <2>2. GraphOK /\ ExtractSelfEdges
    BY <1>1 DEF RankingIInv, ExtractSelfEdges, BeforeRanking
  <2>3. GraphOK'
    BY <2>2, ExtractKeeps
  <2>4. EdgesInGraph'
    BY <2>3, GraphIsInGraph, PTL
  <2>5. (SearchStart /\ reversed = {})'
    BY <2>1 DEF SearchStart
  <2>6. SearchInv' /\ PathInv'
    BY <2>4, <2>5, SearchStarts, PTL
  <2> QED  BY <2>1, <2>6 DEF SearchStaged, AfterRanking
<1>2. CASE Search
  <2>1. /\ stage = "acyclic" /\ stage' = "acyclic" /\ titled' = titled /\ AcyclicNext
        /\ SearchInv /\ PathInv
    BY <1>2 DEF Search, SearchStaged, compoundVars
  <2>2. SearchInv' /\ PathInv'
    BY <2>1, SearchKeeps, NextKeepsPaths
  <2> QED  BY <2>1, <2>2 DEF SearchStaged, AfterRanking
<1>3. CASE EndSearch
  <2>1. stage' = "feedback" /\ visited' = {} /\ titled' = titled
    BY <1>3 DEF EndSearch, compoundVars
  <2> QED  BY <2>1 DEF SearchStaged, AfterRanking
<1>4. CASE CompoundFeedback \/ MakeSpace \/ FrameCompounds \/ Rank
  <2>1. /\ stage \in {"feedback", "nest", "rank"} /\ stage' \in {"feedback", "nest", "rank"}
        /\ titled' = titled /\ visited' = visited
    <3>1. CASE CompoundFeedback
      BY <3>1 DEF CompoundFeedback, searchVars, compoundVars
    <3>2. CASE MakeSpace
      BY <3>2 DEF MakeSpace, searchVars, compoundVars
    <3>3. CASE FrameCompounds
      BY <3>3 DEF FrameCompounds, Nest, searchVars, compoundVars
    <3>4. CASE Rank
      BY <3>4 DEF Rank, RankingNext, InitialRanks, GrowTree, ShiftTree, FinishTree, Pivot,
                  FinishRanks, searchVars, compoundVars
    <3> QED  BY <1>4, <3>1, <3>2, <3>3, <3>4
  <2> QED  BY <2>1 DEF SearchStaged, AfterRanking
<1>5. CASE NormalizeRanks \/ Unframe \/ KeepEdge \/ BreakEdge \/ Rebuild \/ AssignParents
  <2>1. stage' \in AfterRanking /\ stage \in AfterRanking \union {"rank"}
    BY <1>5 DEF NormalizeRanks, Unframe, KeepEdge, BreakEdge, Rebuild, AssignParents, AfterRanking
  <2>2. stage \notin {"self_edges", "acyclic"} /\ stage' \notin {"self_edges", "acyclic"}
    BY <2>1 DEF AfterRanking
  <2>3. visited = {} /\ visited' = visited /\ titled' = titled
    BY <1>5, <2>2 DEF SearchStaged, NormalizeRanks, Unframe, RemoveEmptyRanks, CleanUp, InsertTitles,
           MarkClimbing, KeepEdge, BreakEdge, Rebuild, AssignParents, searchVars, compoundVars
  <2>4. /\ nodes = {} => edges = <<>>
        /\ stage \in {"rank", "clean_up", "titles"} => IsFiniteSet(nodes)
    <3>1. CASE stage = "rank"
      BY <3>1, GraphIsInGraph DEF RankingIInv
    <3>2. CASE stage \in AfterRanking
      <4>1. stage # "rank"
        BY <3>2 DEF AfterRanking
      <4> QED  BY <3>2, <4>1 DEF SearchStaged
    <3> QED  BY <2>1, <3>1, <3>2
  <2>5. /\ nodes' = {} => edges' = <<>>
        /\ stage' \in {"clean_up", "titles"} => IsFiniteSet(nodes')
    <3>1. CASE /\ nodes' = nodes /\ edges' = edges
               /\ stage' \in {"clean_up", "titles"} => stage \in {"rank", "clean_up"}
      BY <2>4, <3>1
    <3>2. CASE InsertTitles /\ stage = "titles" /\ stage' = "climbing"
      <4> DEFINE count == Cardinality(titled)
                 more == [i \in 1..count |->
                            [from |-> NodeCount + i, to |-> borders[InOrder(titled)[i]][1],
                             orig |-> EdgeCount + i]]
      <4>1. IsFiniteSet(nodes) /\ stage' \notin {"clean_up", "titles"}
        BY <2>4, <3>2
      <4>2. count \in Nat /\ NodeCount \in Nat
        BY <4>1, FS_CardinalityType DEF SearchStaged, NodeCount
      <4>3. Len(InOrder(titled)) = count
        BY <4>2 DEF InOrder
      <4>4. nodes' = 1..(NodeCount + count) /\ edges' = edges \o more
        BY <3>2, <4>3 DEF InsertTitles
      <4>5. ASSUME nodes' = {} PROVE edges' = <<>>
        <5>1. NodeCount = 0 /\ count = 0
          <6>1. \A m \in Nat : 1..m = {} => m = 0
            OBVIOUS
          <6> HIDE DEF count
          <6>2. NodeCount + count \in Nat /\ 1..(NodeCount + count) = {}
            BY <4>2, <4>4, <4>5
          <6>3. NodeCount + count = 0
            BY <6>1, <6>2
          <6> QED  BY <4>2, <6>3
        <5>2. nodes = {}
          BY <4>1, <5>1, FS_EmptySet DEF NodeCount
        <5>3. edges = <<>>
          BY <2>4, <5>2
        <5>4. more = <<>>
          BY <5>1
        <5> HIDE DEF more
        <5> QED  BY <4>4, <5>3, <5>4
      <4> QED  BY <4>1, <4>5
    <3>3. CASE BreakEdge
      <4>1. nodes \subseteq nodes' /\ edges' = edges /\ stage' = "chains"
        BY <3>3 DEF BreakEdge
      <4>2. nodes' = {} => nodes = {}
        BY <4>1
      <4> QED  BY <2>4, <4>1, <4>2
    <3>4. CASE NormalizeRanks \/ KeepEdge \/ Rebuild \/ AssignParents
      <4>1. nodes' = nodes /\ edges' = edges /\ stage' \notin {"clean_up", "titles"}
        BY <3>4 DEF NormalizeRanks, KeepEdge, Rebuild, AssignParents, graphVars
      <4> QED  BY <2>4, <4>1
    <3>5. CASE Unframe
      <4>1. CASE stage = "titles"
        <5>1. InsertTitles /\ stage' = "climbing"
          BY <3>5, <4>1 DEF Unframe
        <5> QED  BY <3>2, <4>1, <5>1
      <4>2. CASE stage # "titles"
        <5>1. /\ nodes' = nodes /\ edges' = edges
              /\ stage' \in {"clean_up", "titles"} => stage \in {"rank", "clean_up"}
          BY <3>5, <4>2 DEF Unframe, RemoveEmptyRanks, CleanUp, MarkClimbing, graphVars
        <5> QED  BY <3>1, <5>1
      <4> QED  BY <4>1, <4>2
    <3> QED  BY <1>5, <3>3, <3>4, <3>5
  <2>6. IsFiniteSet(titled')
    BY <2>3 DEF SearchStaged
  <2> QED  BY <2>2, <2>3, <2>5, <2>6 DEF SearchStaged
<1>6. CASE LayeringDone \/ UNCHANGED layeringVars
  <2>1. /\ UNCHANGED <<nodes, edges, reversed, visited, stack, examined, finish, clock, stage>>
        /\ titled' = titled
    BY <1>6 DEF LayeringDone, layeringVars, graphVars, compoundVars
  <2>2. SearchStart => SearchStart'
    BY <2>1 DEF SearchStart
  <2>3. SearchInv => SearchInv'
    <3> SUFFICES ASSUME SearchInv PROVE SearchInv'
      OBVIOUS
    <3>1. AcyclicTypeOK' /\ StackRuns' /\ CallsAccounted' /\ ListsExhausted'
      BY <2>1 DEF SearchInv, AcyclicTypeOK, EdgesInGraph, StackRuns, CallsAccounted, ListsExhausted,
                  OnStack, Positions
    <3>2. ExaminedDescend'
      BY <2>1 DEF SearchInv, ExaminedDescend, ReturnsFirst, InnerCall, Source, Target
    <3> QED  BY <3>1, <3>2 DEF SearchInv
  <2>4. PathInv => PathInv'
    <3>1. \A v, w : LeadsTo(v, w) => LeadsTo(v, w)'
      BY <2>1, LeadsToKept
    <3> QED  BY <2>1, <3>1 DEF PathInv, StackIsPath, MarksCloseCycles
  <2> QED  BY <2>1, <2>2, <2>3, <2>4 DEF SearchStaged
<1> QED  BY <1>1, <1>2, <1>3, <1>4, <1>5, <1>6 DEF LayeringNext

\* What the search of the pipeline has achieved.
LEMMA StagedSearchDescends ==
  ASSUME RankingIInv, SearchStaged
  PROVE  EffectiveEdgesDescend /\ ReversedOnlyInCycles
<1>1. CASE stage = "acyclic"
  BY <1>1, SearchDescends DEF SearchStaged, PathInv, MarksCloseCycles, ReversedOnlyInCycles
<1>2. CASE stage # "acyclic"
  <2> SUFFICES ASSUME SearchDone
               PROVE  EffectiveEdgesDescend /\ ReversedOnlyInCycles
    BY DEF EffectiveEdgesDescend, ReversedOnlyInCycles
  <2>1. nodes = {}
    BY <1>2 DEF SearchDone, SearchStaged, SearchStart
  <2>2. edges = <<>>
    <3>1. CASE stage \in AfterRanking
      BY <2>1, <3>1 DEF SearchStaged
    <3>2. CASE stage \notin AfterRanking
      BY <2>1, <3>2, GraphIsInGraph DEF RankingIInv
    <3> QED  BY <3>1, <3>2
  <2>3. EffectiveEdgesDescend
    BY <2>2 DEF EffectiveEdgesDescend, Positions
  <2>4. ReversedOnlyInCycles
    BY <2>1 DEF ReversedOnlyInCycles, LeadsTo
  <2> QED  BY <2>3, <2>4
<1> QED  BY <1>1, <1>2

\* Once the search of the pipeline has ended, what returned first has the smaller number:
\* the effective graph has a topological order.
THEOREM Acyclicity == LayeringSpec => []EffectiveEdgesDescend
<1>1. LayeringInit => RankingIInv /\ SearchStaged
  BY InitIsRanked, InitIsStaged
<1> QED  BY <1>1, RankingInductive, SearchStagedInductive, StagedSearchDescends, PTL DEF LayeringSpec

\* Every edge the search marks leads back to a node from which the graph as written
\* leads to its source: the reversal was forced.
THEOREM MarksNoMoreThanItMust == LayeringSpec => []ReversedOnlyInCycles
<1>1. LayeringInit => RankingIInv /\ SearchStaged
  BY InitIsRanked, InitIsStaged
<1> QED  BY <1>1, RankingInductive, SearchStagedInductive, StagedSearchDescends, PTL DEF LayeringSpec
-----------------------------------------------------------------------------
(* The chains: what the phases leave to normalize::run.                    *)

\* How many ranks an edge leads down.
Span(k) == rank[Target(k)] - rank[Source(k)]

FrameUp == Compounds # {} /\ stage \in {"rank", "clean_up"}

\* The nodes that frames and titles brought; while a frame stands, its root is the last node.
Scaffold == Added \union (IF FrameUp THEN {NodeCount} ELSE {})

\* The edges of the graph.
Given == {k \in Positions : edges[k].from \notin Scaffold /\ edges[k].to \notin Scaffold}

BordersKept ==
  /\ Scaffold \in SUBSET nodes
  /\ \A c \in DOMAIN borders : borders[c][1] \in Scaffold /\ borders[c][2] \in Scaffold

\* The graph in every phase.
Shape ==
  /\ NodeCount \in Nat /\ nodes = 1..NodeCount
  /\ edges \in Seq([from : nodes, to : nodes, orig : Int])
  /\ minlen \in [Positions -> Int] /\ weight \in [Positions -> Int]
  /\ rank \in [nodes -> Int]
  /\ parents \in [nodes -> Int]
  /\ reversed \in SUBSET Positions
  /\ factor \in Nat \ {0}
  /\ BordersKept

\* An edge of the graph is known by its original index.
OrigsDiffer == \A j, k \in Given : edges[j].orig = edges[k].orig => j = k

\* While a frame stands: borders are no compounds, and neither they nor compounds the root.
FramesStand ==
  /\ unplaced = {}
  /\ NodeCount \in nodes \ Compounds
  /\ DOMAIN borders = Compounds
  /\ \A c \in Compounds : /\ borders[c][1] \in nodes \ (Compounds \union {NodeCount})
                          /\ borders[c][2] \in nodes \ (Compounds \union {NodeCount})

\* The edges of frames are going to be excluded, or are excluded, or lead over one rank.
ScaffoldKept ==
  /\ stage \in BeforeRanking \union {"rank", "clean_up"} =>
       excluded = {} /\ nesting = Positions \ Given
  /\ stage \in {"titles", "climbing", "chains"} =>
       /\ excluded \in SUBSET (Positions \ Given)
       /\ \A k \in (Positions \ Given) \ excluded : Span(k) = 1

\* Labels were given room, if by the right positions.
RoomGiven ==
  (\A k \in Given : edges[k].orig = k) \/ ~config.perLabel =>
    \A k \in Given : edges[k].orig \in labels /\ minlen[k] > 0 => minlen[k] >= 2 * factor

\* Edges of the graph lead down, and those with room for a label over two ranks.
Steps ==
  missed = {} =>
    \A k \in Given :
      /\ minlen[k] >= 0 => Span(k) >= 0
      /\ minlen[k] > 0 => Span(k) >= 1
      /\ minlen[k] >= 2 * factor => Span(k) >= 2

\* The nodes of chains are on no edge and in no frame.
DummiesApart ==
  /\ Dummies \in SUBSET (nodes \ Scaffold)
  /\ \A k \in Positions : edges[k].from \notin Dummies /\ edges[k].to \notin Dummies

Passed == {k \in 1..chained : Long(k)}

\* A link of the chain of k.
OnChain(s, k) ==
  /\ s.orig = edges[k].orig
  /\ s.reversed = (k \in reversed)
  /\ s.from \in nodes /\ s.to \in nodes
  /\ rank[s.to] = rank[s.from] + 1
  /\ rank[Source(k)] <= rank[s.from] /\ rank[s.to] <= rank[Target(k)]
  /\ s.from = Source(k) \/ s.from \in Dummies
  /\ s.to = Target(k) \/ s.to \in Dummies

\* Every link is on the chain of an edge passed.
LinksOnChains == \A i \in DOMAIN segments : \E k \in Passed : OnChain(segments[i], k)

\* The link of k that leads down from a rank.
DownFrom(i, k, r) ==
  /\ segments[i].orig = edges[k].orig /\ rank[segments[i].from] = r
  /\ r = rank[Source(k)] => segments[i].from = Source(k)
  /\ r + 1 = rank[Target(k)] => segments[i].to = Target(k)

\* Chains are complete: there is one such link for each rank between their ends.
ChainsComplete ==
  /\ \A k \in Passed : \A r \in rank[Source(k)]..(rank[Target(k)] - 1) :
       \E i \in DOMAIN segments : DownFrom(i, k, r)
  /\ \A i, j \in DOMAIN segments :
       segments[i].orig = segments[j].orig /\ rank[segments[i].from] = rank[segments[j].from]
         => i = j

\* One link leads to a dummy node and one leads on.
DummiesPassedOnce ==
  \A v \in Dummies :
    \E i, j \in DOMAIN segments :
      /\ segments[i].to = v /\ segments[j].from = v /\ segments[i].orig = segments[j].orig
      /\ \A m \in DOMAIN segments :
           (segments[m].to = v => m = i) /\ (segments[m].from = v => m = j)

LabelsPlaced == \A k \in Passed : edges[k].orig \in labels => HasLabelDummy(edges[k].orig)

\* Dummy chains through nodes of N.
ChainsOver(N) ==
  [orig : Int, from : N, to : N, reversed : BOOLEAN, dummies : Seq(N), label : Int]

\* The loop of normalize::run.
ChainsInv ==
  /\ chained \in 0..EdgeCount
  /\ chains \in Seq(ChainsOver(nodes))
  /\ segments \in Seq([from : nodes, to : nodes, orig : Int, reversed : BOOLEAN])
  /\ DummiesApart /\ LinksOnChains /\ ChainsComplete /\ DummiesPassedOnce /\ LabelsPlaced

ChainsReplace ==
  missed = {} /\ (\A k \in Drawn : minlen[k] >= 0) =>
    LinksLeadDown /\ LinksCoverEdges /\ DummiesJoinTwo /\ RoomyLabelsHaveADummy

UpToChains == BeforeRanking \union {"rank", "clean_up", "titles", "climbing", "chains"}

\* The inductive invariant of the pipeline, as far as the chains go.
ChainsIInv ==
  /\ titled \in SUBSET Int /\ IsFiniteSet(titled)
  /\ stage \in UpToChains => Shape /\ OrigsDiffer /\ ScaffoldKept
  /\ stage \in BeforeRanking \/ (stage = "rank" /\ Compounds = {}) =>
       borders = <<>> /\ unplaced = {} /\ factor = 1
  /\ stage = "self_edges" => reversed = {}
  /\ FrameUp => FramesStand
  /\ stage = "clean_up" => Compounds # {}
  /\ stage \in UpToChains \ {"self_edges", "acyclic", "feedback"} => RoomGiven
  /\ stage \in {"clean_up", "titles", "climbing", "chains"} => Steps
  /\ stage \in UpToChains \ {"chains"} => chained = 0 /\ segments = <<>> /\ chains = <<>>
  /\ stage = "chains" => ChainsInv
  /\ stage \in {"parents", "order"} => ChainsReplace

\* No frame stands before there is one.
LEMMA NothingAdded ==
  borders = <<>> /\ unplaced = {} /\ ~FrameUp => Added = {} /\ Scaffold = {} /\ Given = Positions
<1> SUFFICES ASSUME borders = <<>>, unplaced = {}, ~FrameUp
             PROVE  Added = {} /\ Scaffold = {} /\ Given = Positions
  OBVIOUS
<1>1. DOMAIN borders = {}
  OBVIOUS
<1>2. Added = {}
  BY <1>1 DEF Added
<1> QED  BY <1>2 DEF Scaffold, Given

\* Of two numbers one is the least and one the greatest.
LEMMA PairFacts ==
  ASSUME NEW a \in Int, NEW b \in Int
  PROVE  /\ IsFiniteSet({a, b})
         /\ Min({a, b}) = IF a <= b THEN a ELSE b
         /\ Max({a, b}) = IF a <= b THEN b ELSE a
<1>1. IsFiniteSet({a, b})
  <2>1. {a, b} = {a} \union {b}
    OBVIOUS
  <2>2. IsFiniteSet({a})
    BY FS_Singleton, Zenon
  <2> QED  BY <2>1, <2>2, FS_AddElement, Zenon
<1>2. /\ Min({a, b}) \in {a, b} /\ \A y \in {a, b} : Min({a, b}) <= y
      /\ Max({a, b}) \in {a, b} /\ \A y \in {a, b} : Max({a, b}) >= y
  BY <1>1, LeastInteger, GreatestInteger
<1> QED  BY <1>1, <1>2

\* The borders and what is counted with them depend on few variables.
LEMMA GivenStays ==
  ASSUME UNCHANGED <<nodes, edges, parents, borders, unplaced>>, FrameUp' <=> FrameUp
  PROVE  /\ Positions' = Positions /\ NodeCount' = NodeCount /\ Compounds' = Compounds
         /\ EdgeCount' = EdgeCount
         /\ Added' = Added /\ Scaffold' = Scaffold /\ Given' = Given /\ Drawn' = Drawn
         /\ BordersKept' = BordersKept
<1>1. Positions' = Positions /\ NodeCount' = NodeCount /\ Compounds' = Compounds
      /\ EdgeCount' = EdgeCount /\ Added' = Added
  BY DEF Positions, NodeCount, Compounds, EdgeCount, Added
<1>2. Scaffold' = Scaffold
  BY <1>1 DEF Scaffold
<1>3. Given' = Given /\ Drawn' = Drawn
  BY <1>1, <1>2 DEF Given, Drawn, TouchesAdded
<1> QED  BY <1>1, <1>2, <1>3 DEF BordersKept

\* What the graph is like before the frames stand.
LEMMA ShapeOfGraph ==
  /\ GraphOK /\ borders = <<>> /\ unplaced = {} /\ ~FrameUp /\ factor = 1
  /\ weight \in [Positions -> Int] /\ rank \in [nodes -> Int] /\ reversed \in SUBSET Positions
  => Shape
<1> SUFFICES ASSUME GraphOK, borders = <<>>, unplaced = {}, ~FrameUp, factor = 1,
                    weight \in [Positions -> Int], rank \in [nodes -> Int],
                    reversed \in SUBSET Positions
             PROVE  Shape
  OBVIOUS
<1>1. Scaffold = {}
  BY NothingAdded
<1>2. BordersKept
  BY <1>1 DEF BordersKept
<1>3. edges \in Seq([from : nodes, to : nodes, orig : Int])
  <2> DEFINE E == [from : nodes \ Compounds, to : nodes \ Compounds, orig : Int]
             F == [from : nodes, to : nodes, orig : Int]
  <2>1. edges \in Seq(E) /\ E \subseteq F
    BY DEF GraphOK, NetworkOK
  <2> HIDE DEF E, F
  <2>2. edges \in Seq(F)
    BY <2>1
  <2> QED  BY <2>2 DEF F
<1>4. NodeCount \in Nat
  BY NumbersOfNodes DEF GraphOK
<1>5. parents \in [nodes -> Int]
  BY <1>4 DEF GraphOK, NetworkOK
<1> QED  BY <1>2, <1>3, <1>4, <1>5 DEF Shape, GraphOK, NetworkOK

\* The pipeline starts with the graph as given.
LEMMA InitIsShaped ==
  ASSUME LayeringInit
  PROVE  ChainsIInv
<1>1. GraphOK /\ stage = "self_edges"
  BY InitIsGraph
<1>2. /\ borders = <<>> /\ unplaced = {} /\ factor = 1 /\ nesting = {} /\ excluded = {}
      /\ reversed = {} /\ rank = [v \in nodes |-> 0]
      /\ chained = 0 /\ segments = <<>> /\ chains = <<>>
  BY DEF LayeringInit, RankingStart, NestingStart
<1>3. ~FrameUp
  BY <1>1 DEF FrameUp
<1>4. PICK input \in Inputs :
        /\ edges = [k \in DOMAIN input.edges |->
                      [from |-> input.edges[k].from, to |-> input.edges[k].to, orig |-> k]]
        /\ weight = [k \in DOMAIN input.edges |-> input.edges[k].weight]
  BY DEF LayeringInit
<1>5. weight \in [Positions -> Int]
  <2> DEFINE compounds == {input.parents[v] : v \in input.nodes} \ {0}
             ends == input.nodes \ compounds
             E == [from : ends, to : ends, minlen : Int, weight : Int, label : BOOLEAN]
             given == input.edges
  <2>1. given \in Seq(E)
    BY InputsAreGraphs
  <2>2. \A k \in DOMAIN given : given[k] \in E
    <3> HIDE DEF E, given
    <3> QED  BY <2>1, EntryOf
  <2>3. \A k \in DOMAIN given : given[k].weight \in Int
    <3> HIDE DEF given, ends
    <3> QED  BY <2>2
  <2>4. Positions = DOMAIN given
    BY <1>4 DEF Positions
  <2> QED  BY <1>4, <2>3, <2>4
<1>6. Shape
  BY <1>1, <1>2, <1>3, <1>5, ShapeOfGraph
<1>7. Given = Positions
  BY <1>2, <1>3, NothingAdded
<1>8. OrigsDiffer
  <2>1. \A k \in Positions : edges[k].orig = k
    BY <1>4 DEF Positions
  <2> QED  BY <1>7, <2>1 DEF OrigsDiffer
<1>9. ScaffoldKept
  BY <1>1, <1>2, <1>7 DEF ScaffoldKept
<1>10. titled \in SUBSET Int /\ IsFiniteSet(titled)
  <2>1. PICK graph \in Inputs : titled = graph.titled
    BY DEF LayeringInit
  <2>2. IsFiniteSet(graph.nodes) /\ graph.nodes = 1..Cardinality(graph.nodes)
        /\ graph.titled \in SUBSET graph.nodes
    BY InputsAreGraphs
  <2>3. Cardinality(graph.nodes) \in Nat
    BY <2>2, FS_CardinalityType
  <2>4. IsFiniteSet(titled)
    BY <2>1, <2>2, FS_Subset, Zenon
  <2> QED  BY <2>1, <2>2, <2>3, <2>4
<1> QED  BY <1>1, <1>2, <1>3, <1>6, <1>8, <1>9, <1>10 DEF ChainsIInv, UpToChains, BeforeRanking
-----------------------------------------------------------------------------
(* The graph before the ranking.                                           *)

\* extract_self_edges.
LEMMA ExtractKeepsShape ==
  ASSUME RankingIInv, RankingIInv', ChainsIInv, ExtractSelfEdges
  PROVE  ChainsIInv'
<1> DEFINE K == {k \in Positions : edges[k].from # edges[k].to}
           list == InOrder(K)
<1>1. /\ stage = "self_edges" /\ stage' = "acyclic"
      /\ edges' = [i \in DOMAIN list |-> edges[list[i]]]
      /\ weight' = [i \in DOMAIN list |-> weight[list[i]]]
      /\ UNCHANGED <<nodes, titled, parents, unplaced, rank, reversed, borders, nesting, excluded, factor,
                     chained, segments, chains>>
  BY DEF ExtractSelfEdges, compoundVars, nestingVars, chainVars
<1>2. GraphOK /\ GraphOK'
  BY <1>1 DEF RankingIInv, BeforeRanking
<1>3. /\ titled \in SUBSET Int /\ IsFiniteSet(titled)
      /\ borders = <<>> /\ unplaced = {} /\ factor = 1 /\ Shape /\ OrigsDiffer /\ ScaffoldKept
      /\ chained = 0 /\ segments = <<>> /\ chains = <<>>
  BY <1>1 DEF ChainsIInv, UpToChains, BeforeRanking
<1>4. ~FrameUp /\ ~FrameUp'
  BY <1>1 DEF FrameUp
<1>5. Given = Positions
  BY <1>3, <1>4, NothingAdded
<1>6. (borders = <<>> /\ unplaced = {} /\ ~FrameUp)'
  BY <1>1, <1>3, <1>4
<1>7. (Given = Positions)'
  BY <1>6, NothingAdded, PTL
<1>8. K \in SUBSET Positions /\ K \in SUBSET Int /\ IsFiniteSet(K)
  <2>1. IsFiniteSet(Positions) /\ Positions \in SUBSET Nat
    BY <1>2, NumbersOfNodes DEF GraphOK
  <2>2. K \in SUBSET Positions
    OBVIOUS
  <2> HIDE DEF K
  <2>3. IsFiniteSet(K)
    BY <2>1, <2>2, FS_Subset, Zenon
  <2> QED  BY <2>1, <2>2, <2>3
<1>9. PICK n \in Nat : /\ list \in [1..n -> K]
                       /\ \A i \in 1..n : Turn(K, list[i]) = i - 1
  <2> HIDE DEF K
  <2> QED  BY <1>8, InOrderFacts
<1> HIDE DEF list
<1>10. Positions' = 1..n /\ \A i \in 1..n : list[i] \in Positions /\ edges'[i] = edges[list[i]]
  BY <1>1, <1>8, <1>9 DEF Positions
<1>11. OrigsDiffer'
  <2> SUFFICES ASSUME NEW i \in 1..n, NEW j \in 1..n, edges'[i].orig = edges'[j].orig
               PROVE  i = j
    BY <1>7, <1>10 DEF OrigsDiffer
  <2>1. list[i] = list[j]
    BY <1>3, <1>5, <1>10 DEF OrigsDiffer
  <2>2. i - 1 = j - 1
    BY <1>9, <2>1
  <2> QED  BY <2>2
<1>12. weight' \in [Positions' -> Int]
  BY <1>1, <1>3, <1>9, <1>10 DEF Shape
<1>13. rank' \in [nodes' -> Int]
  BY <1>1, <1>3 DEF Shape
<1>14. reversed' = {} /\ factor' = 1
  BY <1>1, <1>3 DEF ChainsIInv
<1>15. Shape'
  <2>1. (/\ GraphOK /\ borders = <<>> /\ unplaced = {} /\ ~FrameUp /\ factor = 1
         /\ weight \in [Positions -> Int] /\ rank \in [nodes -> Int]
         /\ reversed \in SUBSET Positions)'
    BY <1>2, <1>6, <1>12, <1>13, <1>14
  <2> QED  BY <2>1, ShapeOfGraph, PTL
<1>16. ScaffoldKept'
  <2>1. excluded' = {} /\ nesting' = {}
    BY <1>1, <1>3, <1>5 DEF ScaffoldKept, BeforeRanking
  <2> QED  BY <1>1, <1>7, <2>1 DEF ScaffoldKept
<1>17. UNCHANGED <<chained, segments, chains>>
  BY <1>1
<1> QED  BY <1>1, <1>3, <1>6, <1>11, <1>14, <1>15, <1>16, <1>17
         DEF ChainsIInv, UpToChains, BeforeRanking

\* The search and the loop over the compounds only reverse edges.
LEMMA ReversalsKeepShape ==
  ASSUME RankingIInv, RankingIInv', ChainsIInv, Search \/ EndSearch \/ CompoundFeedback
  PROVE  ChainsIInv'
<1>1. /\ stage \in {"acyclic", "feedback"} /\ stage' \in {"acyclic", "feedback"}
      /\ reversed' \in SUBSET (reversed \union Positions)
      /\ UNCHANGED <<nodes, titled, edges, parents, unplaced, minlen, weight, rank, borders, nesting,
                     excluded, factor, chained, segments, chains>>
  <2>1. CASE Search
    BY <2>1 DEF Search, AcyclicNext, Begin, Descend, MarkBack, Pass, Return, Examine,
                graphVars, compoundVars, simplexVars, nestingVars, chainVars
  <2>2. CASE EndSearch
    BY <2>2 DEF EndSearch, graphVars, compoundVars, simplexVars, nestingVars, chainVars
  <2>3. CASE CompoundFeedback
    <3>1. Feedback \subseteq Positions
      BY DEF Feedback, CompoundEdges
    <3> QED  BY <2>3, <3>1 DEF CompoundFeedback, ReverseFeedback, compoundVars, simplexVars,
                               nestingVars, chainVars
  <2> QED  BY <2>1, <2>2, <2>3
<1>2. /\ titled \in SUBSET Int /\ IsFiniteSet(titled)
      /\ borders = <<>> /\ unplaced = {} /\ factor = 1 /\ Shape /\ OrigsDiffer /\ ScaffoldKept
      /\ chained = 0 /\ segments = <<>> /\ chains = <<>> /\ GraphOK /\ GraphOK'
  BY <1>1 DEF ChainsIInv, UpToChains, RankingIInv, BeforeRanking
<1>3. ~FrameUp /\ ~FrameUp'
  BY <1>1 DEF FrameUp
<1>4. Given = Positions /\ Given' = Positions /\ Positions' = Positions
  <2>1. Given = Positions
    BY <1>2, <1>3, NothingAdded
  <2>2. Given' = Given /\ Positions' = Positions
    BY <1>1, <1>3, GivenStays
  <2> QED  BY <2>1, <2>2
<1>5. Shape'
  <2>1. (/\ GraphOK /\ borders = <<>> /\ unplaced = {} /\ ~FrameUp /\ factor = 1
         /\ weight \in [Positions -> Int] /\ rank \in [nodes -> Int]
         /\ reversed \in SUBSET Positions)'
    <3>1. reversed \in SUBSET Positions /\ weight \in [Positions -> Int] /\ rank \in [nodes -> Int]
      BY <1>2 DEF Shape
    <3> QED  BY <1>1, <1>2, <1>3, <1>4, <3>1
  <2> QED  BY <2>1, ShapeOfGraph, PTL
<1>6. OrigsDiffer'
  BY <1>1, <1>2, <1>4 DEF OrigsDiffer
<1>7. ScaffoldKept'
  BY <1>1, <1>2, <1>4 DEF ScaffoldKept, BeforeRanking
<1> QED  BY <1>1, <1>2, <1>3, <1>5, <1>6, <1>7 DEF ChainsIInv, UpToChains, BeforeRanking

\* make_space_for_labeled_edges, or make_space_for_edge_labels.
LEMMA MakeSpaceKeepsShape ==
  ASSUME RankingIInv, RankingIInv', ChainsIInv, MakeSpace
  PROVE  ChainsIInv'
<1>1. /\ stage = "feedback" /\ stage' = IF Compounds = {} THEN "rank" ELSE "nest"
      /\ minlen' = [k \in Positions |-> Roomy(k)]
      /\ UNCHANGED <<nodes, titled, edges, reversed, config, parents, unplaced, weight, rank, borders,
                     nesting, excluded, factor, labels, chained, segments, chains>>
  BY DEF MakeSpace, graphVars, compoundVars, nestingVars, chainVars
<1>2. /\ titled \in SUBSET Int /\ IsFiniteSet(titled)
      /\ borders = <<>> /\ unplaced = {} /\ factor = 1 /\ Shape /\ OrigsDiffer /\ ScaffoldKept
      /\ chained = 0 /\ segments = <<>> /\ chains = <<>>
  BY <1>1 DEF ChainsIInv, UpToChains, BeforeRanking
<1>3. Compounds' = Compounds /\ GraphOK'
  <2>1. GraphOK
    BY <1>1 DEF RankingIInv, BeforeRanking
  <2> QED  BY <2>1, MakeSpaceKeeps
<1>4. ~FrameUp /\ ~FrameUp'
  BY <1>1, <1>3 DEF FrameUp
<1>5. Given = Positions /\ Given' = Positions /\ Positions' = Positions
  <2>1. Given = Positions
    BY <1>2, <1>4, NothingAdded
  <2>2. Given' = Given /\ Positions' = Positions
    BY <1>1, <1>4, GivenStays
  <2> QED  BY <2>1, <2>2
<1>6. Shape'
  <2>1. (/\ GraphOK /\ borders = <<>> /\ unplaced = {} /\ ~FrameUp /\ factor = 1
         /\ weight \in [Positions -> Int] /\ rank \in [nodes -> Int]
         /\ reversed \in SUBSET Positions)'
    <3>1. reversed \in SUBSET Positions /\ weight \in [Positions -> Int] /\ rank \in [nodes -> Int]
      BY <1>2 DEF Shape
    <3> QED  BY <1>1, <1>2, <1>3, <1>4, <1>5, <3>1
  <2> QED  BY <2>1, ShapeOfGraph, PTL
<1>7. OrigsDiffer'
  BY <1>1, <1>2, <1>5 DEF OrigsDiffer
<1>8. ScaffoldKept'
  BY <1>1, <1>2, <1>5 DEF ScaffoldKept, BeforeRanking
<1>9. RoomGiven'
  <2> SUFFICES ASSUME (\A k \in Positions : edges[k].orig = k) \/ ~config.perLabel,
                      NEW k \in Positions, edges[k].orig \in labels, minlen'[k] > 0
               PROVE  minlen'[k] >= 2
    BY <1>1, <1>2, <1>5 DEF RoomGiven
  <2>1. minlen[k] \in Int /\ minlen'[k] = Roomy(k)
    BY <1>1, <1>2 DEF Shape
  <2>2. CASE config.perLabel
    <3>1. k \in labels
      BY <2>2
    <3>2. minlen'[k] = Max({minlen[k], 2})
      BY <2>1, <2>2, <3>1 DEF Roomy
    <3>3. Max({minlen[k], 2}) = IF minlen[k] <= 2 THEN 2 ELSE minlen[k]
      <4>1. 2 \in Int
        OBVIOUS
      <4> QED  BY <2>1, <4>1, PairFacts, Zenon
    <3> QED  BY <2>1, <3>2, <3>3
  <2>3. CASE ~config.perLabel
    BY <2>1, <2>3 DEF Roomy
  <2> QED  BY <2>2, <2>3
<1>10. stage' # "clean_up" /\ stage' # "self_edges" /\ (stage' = "rank" => Compounds' = {})
  BY <1>1, <1>3
<1> QED  BY <1>1, <1>2, <1>4, <1>6, <1>7, <1>8, <1>9, <1>10
         DEF ChainsIInv, UpToChains, BeforeRanking
-----------------------------------------------------------------------------
(* The graph between its frames.                                           *)

\* Stretching by the factor keeps the sign of a length and room for two ranks.
LEMMA Stretched ==
  ASSUME NEW m \in Int, NEW f \in Nat \ {0}
  PROVE  (m * f > 0 => m > 0) /\ (m >= 2 => m * f >= 2 * f)
<1>1. m <= 0 => m * f <= 0
  OBVIOUS
<1>2. ASSUME m >= 2 PROVE m * f >= 2 * f
  <2>1. (m - 2) * f >= 0
    BY <1>2
  <2>2. (m - 2) * f = m * f - 2 * f
    OBVIOUS
  <2> QED  BY <2>1, <2>2
<1> QED  BY <1>1, <1>2

\* The nodes that nesting adds are the borders and the root.
LEMMA NestScaffold ==
  ASSUME GraphOK, Compounds # {}, Nest, borders' = FrameOf, stage' = "rank"
  PROVE  /\ Scaffold' = (NodeCount + 1)..Root
         /\ Given' = Positions /\ Positions \in SUBSET Positions'
         /\ BordersKept' /\ FramesStand' /\ FrameUp'
<1> DEFINE N == NodeCount
           last == N + 2 * Cardinality(Compounds)
<1>1. /\ GraphOK' /\ Compounds' = Compounds /\ NodeCount' = Root
      /\ Len(AddedLinks) \in Nat /\ Positions' = 1..(Len(edges) + Len(AddedLinks))
      /\ \A k \in Positions : edges'[k] = edges[k]
      /\ \A k \in Positions' \ Positions :
           edges'[k].from > NodeCount \/ edges'[k].to > NodeCount
  BY NestKeeps
<1>2. /\ N \in Nat /\ Cardinality(Compounds) \in Nat /\ nodes = 1..N
      /\ Compounds \in SUBSET (1..N)
  BY CompoundsFacts DEF GraphOK
<1>3. Root = last + 1 /\ last \in Nat /\ N <= last /\ unplaced' = {} /\ nodes' = 1..Root
  BY <1>1, <1>2 DEF Root, GraphOK
<1>4. FrameUp'
  BY <1>1 DEF FrameUp
<1>5. /\ \A d \in Compounds : /\ FrameOf[d][1] \in (N + 1)..last
                              /\ FrameOf[d][2] \in (N + 1)..last
      /\ \A v \in (N + 1)..last : \E d \in Compounds : v \in {FrameOf[d][1], FrameOf[d][2]}
  BY FramesFacts
<1>6. DOMAIN FrameOf = Compounds
  BY DEF FrameOf
<1> HIDE DEF N, last
<1>7. Added' = (N + 1)..last
  <2>1. Added' = UNION {{FrameOf[c][1], FrameOf[c][2]} : c \in Compounds}
    BY <1>3, <1>6 DEF Added
  <2> QED  BY <1>5, <2>1
<1>8. Scaffold' = (N + 1)..Root
  <2>1. Scaffold' = Added' \union {Root}
    BY <1>1, <1>4 DEF Scaffold
  <2> QED  BY <1>2, <1>3, <1>7, <2>1
<1>9. Positions \in SUBSET Positions'
  <2>1. Positions = 1..Len(edges) /\ Len(edges) \in Nat
    BY DEF GraphOK, NetworkOK, Positions
  <2> QED  BY <1>1, <2>1
<1>10. ASSUME NEW k \in Positions PROVE k \in Given'
  <2>1. edges[k].from \in 1..N /\ edges[k].to \in 1..N
    BY <1>2, EdgesJoinNodes DEF GraphOK
  <2>2. edges[k].from \notin (N + 1)..Root /\ edges[k].to \notin (N + 1)..Root
    BY <1>2, <2>1
  <2> QED  BY <1>1, <1>8, <1>9, <2>2 DEF Given
<1>11. ASSUME NEW k \in Positions', k \notin Positions PROVE k \notin Given'
  <2>1. EdgesInGraph'
    BY <1>1, GraphIsInGraph, PTL
  <2>2. edges'[k].from \in 1..Root /\ edges'[k].to \in 1..Root
    BY <1>3, <1>11, <2>1 DEF EdgesInGraph
  <2>3. edges'[k].from > N \/ edges'[k].to > N
    BY <1>1, <1>11 DEF N
  <2>4. edges'[k].from \in Scaffold' \/ edges'[k].to \in Scaffold'
    BY <1>2, <1>8, <2>2, <2>3
  <2> QED  BY <2>4 DEF Given
<1>12. Given' = Positions
  <2>1. Given' \in SUBSET Positions'
    BY DEF Given
  <2> QED  BY <1>10, <1>11, <2>1
<1>13. BordersKept'
  <2>1. (N + 1)..Root \in SUBSET nodes'
    BY <1>2, <1>3
  <2>2. \A d \in Compounds : FrameOf[d][1] \in (N + 1)..Root /\ FrameOf[d][2] \in (N + 1)..Root
    BY <1>2, <1>3, <1>5
  <2> QED  BY <1>6, <1>8, <2>1, <2>2 DEF BordersKept
<1>14. FramesStand'
  <2>1. Root \in nodes' \ Compounds
    BY <1>2, <1>3
  <2>2. \A v \in (N + 1)..last : v \in nodes' \ (Compounds \union {Root})
    BY <1>2, <1>3
  <2> QED  BY <1>1, <1>3, <1>5, <1>6, <2>1, <2>2 DEF FramesStand
<1> QED  BY <1>4, <1>8, <1>9, <1>12, <1>13, <1>14 DEF N

\* nesting::run_with_policy.
LEMMA FramesKeepShape ==
  ASSUME RankingIInv, RankingIInv', ChainsIInv, FrameCompounds
  PROVE  ChainsIInv'
<1>1. /\ stage = "nest" /\ stage' = "rank" /\ Nest
      /\ UNCHANGED <<reversed, config, titled, unplaced, excluded, labels, chained, segments,
                     chains>>
      /\ borders' = FrameOf /\ factor' = 2 * Height + 1 /\ rank' = [v \in nodes' |-> 0]
      /\ nesting' = (EdgeCount + 1)..(EdgeCount + Len(AddedLinks))
  <2>1. nodes' = 1..Root /\ rank' = [v \in 1..Root |-> 0]
    BY DEF FrameCompounds, Nest, Root
  <2> QED  BY <2>1 DEF FrameCompounds, Nest, chainVars, AddedLinks, AllFrames, ExitLinks, Root
<1>2. GraphOK /\ GraphOK' /\ Compounds # {}
  BY <1>1 DEF RankingIInv, BeforeRanking
<1>3. /\ titled \in SUBSET Int /\ IsFiniteSet(titled)
      /\ borders = <<>> /\ unplaced = {} /\ factor = 1 /\ Shape /\ OrigsDiffer /\ ScaffoldKept
      /\ RoomGiven /\ chained = 0 /\ segments = <<>> /\ chains = <<>>
  BY <1>1 DEF ChainsIInv, UpToChains, BeforeRanking
<1>4. ~FrameUp
  BY <1>1 DEF FrameUp
<1>5. Given = Positions
  BY <1>3, <1>4, NothingAdded
<1>6. /\ Scaffold' = (NodeCount + 1)..Root
      /\ Given' = Positions /\ Positions \in SUBSET Positions'
      /\ BordersKept' /\ FramesStand' /\ FrameUp'
  BY <1>1, <1>2, NestScaffold
<1>7. /\ Compounds' = Compounds /\ NodeCount' = Root
      /\ Len(AddedLinks) \in Nat /\ Positions' = 1..(Len(edges) + Len(AddedLinks))
      /\ \A k \in Positions : edges'[k] = edges[k] /\ minlen'[k] = minlen[k] * (2 * Height + 1)
      /\ weight' \in [Positions' -> Int]
  <2>1. weight \in [Positions -> Int]
    BY <1>3 DEF Shape
  <2> QED  BY <1>1, <1>2, <2>1, NestKeeps
<1>8. factor' \in Nat \ {0}
  <2>1. nodes # {}
    BY <1>2, CompoundsFacts
  <2>2. Height \in Nat
    BY <1>2, <2>1, HeightIsNumber
  <2> QED  BY <1>1, <2>2
<1>9. Shape'
  <2>1. edges' \in Seq([from : nodes', to : nodes', orig : Int])
    <3> DEFINE E == [from : nodes' \ Compounds', to : nodes' \ Compounds', orig : Int]
               F == [from : nodes', to : nodes', orig : Int]
    <3>1. edges' \in Seq(E) /\ E \subseteq F
      BY <1>2 DEF GraphOK, NetworkOK
    <3> HIDE DEF E, F
    <3>2. edges' \in Seq(F)
      BY <3>1
    <3> QED  BY <3>2 DEF F
  <2>2. NodeCount' \in Nat /\ nodes' = 1..NodeCount'
    <3>1. Root \in Nat
      BY <1>2, FrameEndsFacts
    <3> QED  BY <1>2, <1>7, <3>1 DEF GraphOK
  <2>3. rank' \in [nodes' -> Int]
    BY <1>1
  <2>4. reversed' \in SUBSET Positions'
    BY <1>1, <1>3, <1>6 DEF Shape
  <2>5. minlen' \in [Positions' -> Int] /\ parents' \in [nodes' -> Int]
    BY <1>2, <2>2 DEF GraphOK, NetworkOK
  <2> QED  BY <1>6, <1>7, <1>8, <2>1, <2>2, <2>3, <2>4, <2>5 DEF Shape
<1>10. OrigsDiffer'
  BY <1>3, <1>5, <1>6, <1>7 DEF OrigsDiffer
<1>11. ScaffoldKept'
  <2>1. excluded' = {} /\ nesting' = Positions' \ Positions
    <3>1. Positions = 1..Len(edges) /\ Len(edges) \in Nat /\ EdgeCount = Len(edges)
      BY <1>2 DEF GraphOK, NetworkOK, Positions, EdgeCount
    <3>2. excluded = {}
      BY <1>1, <1>3 DEF ScaffoldKept, BeforeRanking
    <3> QED  BY <1>1, <1>7, <3>1, <3>2
  <2> QED  BY <1>1, <1>6, <2>1 DEF ScaffoldKept
<1>12. RoomGiven'
  <2> SUFFICES ASSUME (\A k \in Positions : edges'[k].orig = k) \/ ~config'.perLabel,
                      NEW k \in Positions, edges'[k].orig \in labels', minlen'[k] > 0
               PROVE  minlen'[k] >= 2 * factor'
    BY <1>6 DEF RoomGiven
  <2>1. minlen[k] \in Int /\ minlen'[k] = minlen[k] * factor'
    BY <1>1, <1>3, <1>7 DEF Shape
  <2>2. minlen[k] > 0
    BY <1>8, <2>1, Stretched
  <2>3. (\A j \in Positions : edges[j].orig = j) \/ ~config.perLabel
    BY <1>1, <1>7
  <2>4. minlen[k] >= 2
    BY <1>1, <1>3, <1>5, <1>7, <2>2, <2>3 DEF RoomGiven
  <2> QED  BY <1>8, <2>1, <2>4, Stretched
<1>13. stage' \notin BeforeRanking /\ Compounds' # {}
  BY <1>1, <1>2, <1>7 DEF BeforeRanking
<1> QED  BY <1>1, <1>3, <1>6, <1>9, <1>10, <1>11, <1>12, <1>13 DEF ChainsIInv, UpToChains
-----------------------------------------------------------------------------
(* The ranks the chains are made from.                                     *)

\* The graph keeps its shape under new ranks and reversals.
LEMMA ShapeStays ==
  ASSUME Shape, UNCHANGED <<nodes, edges, minlen, parents, borders, factor>>,
         Scaffold' = Scaffold, weight' \in [Positions -> Int], rank' \in [nodes -> Int],
         reversed' \in SUBSET Positions
  PROVE  Shape' /\ Positions' = Positions /\ Given' = Given /\ NodeCount' = NodeCount
<1>1. Positions' = Positions /\ NodeCount' = NodeCount
  BY DEF Positions, NodeCount
<1>2. Given' = Given
  BY <1>1 DEF Given
<1>3. BordersKept'
  BY DEF BordersKept, Shape
<1> QED  BY <1>1, <1>2, <1>3 DEF Shape

\* Edges keep their original indices and the room for labels.
LEMMA EdgesKeepRoom ==
  ASSUME UNCHANGED <<edges, minlen, config, labels, factor>>, Given' = Given
  PROVE  (OrigsDiffer => OrigsDiffer') /\ (RoomGiven => RoomGiven')
  BY DEF OrigsDiffer, RoomGiven

\* A step of the ranking only writes ranks and the tree.
LEMMA RankKeepsShape ==
  ASSUME RankingIInv, RankingIInv', ChainsIInv, Rank
  PROVE  ChainsIInv'
<1>1. /\ stage = "rank" /\ stage' = "rank" /\ RankingNext
      /\ UNCHANGED <<nodes, edges, reversed, config, parents, titled, unplaced, minlen, weight,
                     borders, nesting, excluded, factor, labels, chained, segments, chains>>
  BY DEF Rank, RankingNext, InitialRanks, GrowTree, ShiftTree, FinishTree, Pivot, FinishRanks,
         graphVars, compoundVars, nestingVars, chainVars
<1>2. phase' # "initial"
  BY <1>1 DEF RankingNext, InitialRanks, GrowTree, ShiftTree, FinishTree, Pivot, FinishRanks
<1>3. RanksInv'
  BY <1>1, <1>2 DEF RankingIInv
<1>4. rank' \in [nodes -> Int]
  BY <1>1, <1>3 DEF RanksInv
<1>5. /\ Shape /\ OrigsDiffer /\ ScaffoldKept /\ RoomGiven
      /\ titled \in SUBSET Int /\ IsFiniteSet(titled)
      /\ chained = 0 /\ segments = <<>> /\ chains = <<>>
      /\ FrameUp => FramesStand
      /\ Compounds = {} => borders = <<>> /\ unplaced = {} /\ factor = 1
  BY <1>1 DEF ChainsIInv, UpToChains, BeforeRanking
<1>6. Compounds' = Compounds /\ (FrameUp' <=> FrameUp)
  <2>1. Compounds' = Compounds
    BY <1>1 DEF Compounds
  <2> QED  BY <1>1, <2>1 DEF FrameUp
<1>7. Scaffold' = Scaffold /\ NodeCount' = NodeCount
  BY <1>1, <1>6, GivenStays
<1>8. Shape' /\ Positions' = Positions /\ Given' = Given
  <2>1. weight' \in [Positions -> Int] /\ reversed' \in SUBSET Positions
    BY <1>1, <1>5 DEF Shape
  <2> QED  BY <1>1, <1>4, <1>5, <1>7, <2>1, ShapeStays
<1>9. OrigsDiffer' /\ RoomGiven'
  BY <1>1, <1>5, <1>8, EdgesKeepRoom
<1>10. ScaffoldKept'
  BY <1>1, <1>5, <1>8 DEF ScaffoldKept
<1>11. FrameUp' => FramesStand'
  BY <1>1, <1>5, <1>6, <1>7 DEF FramesStand
<1>12. stage' \notin BeforeRanking
  BY <1>1 DEF BeforeRanking
<1> QED  BY <1>1, <1>5, <1>6, <1>8, <1>9, <1>10, <1>11, <1>12 DEF ChainsIInv, UpToChains

\* normalize shifts all ranks alike.
LEMMA NormalizedShifts ==
  ASSUME NEW r \in [nodes -> Int], IsFiniteSet(nodes), NEW placed \in SUBSET nodes, placed # {}
  PROVE  \E d \in Int : Normalized(r, placed) = [v \in nodes |-> r[v] - d]
<1> DEFINE f == [v \in placed |-> r[v]]
           S == {f[v] : v \in placed}
<1>1. S = {r[v] : v \in placed} /\ S \in SUBSET Int /\ S # {}
  OBVIOUS
<1>2. IsFiniteSet(S)
  <2>1. IsFiniteSet(placed) /\ DOMAIN f = placed
    BY FS_Subset
  <2> HIDE DEF f
  <2> QED  BY <2>1, FiniteImage
<1> HIDE DEF S
<1>3. Min(S) \in Int
  BY <1>1, <1>2, LeastInteger
<1>4. Normalized(r, placed) = [v \in nodes |-> r[v] - Min(S)]
  BY <1>1 DEF Normalized
<1> QED  BY <1>3, <1>4

\* The loop of normalize::run starts without chains.
LEMMA ChainsStart ==
  EdgeCount \in Nat /\ chained = 0 /\ chains = <<>> /\ segments = <<>> => ChainsInv
<1> SUFFICES ASSUME EdgeCount \in Nat, chained = 0, chains = <<>>, segments = <<>>
             PROVE  ChainsInv
  OBVIOUS
<1>1. Dummies = {}
  <2>1. DOMAIN chains = {}
    OBVIOUS
  <2> QED  BY <2>1 DEF Dummies
<1>2. Passed = {}
  BY DEF Passed
<1>3. DOMAIN segments = {}
  OBVIOUS
<1>4. DummiesApart
  BY <1>1 DEF DummiesApart
<1>5. LinksOnChains /\ ChainsComplete /\ LabelsPlaced /\ DummiesPassedOnce
  BY <1>1, <1>2, <1>3 DEF LinksOnChains, ChainsComplete, LabelsPlaced, DummiesPassedOnce
<1>6. chains \in Seq(ChainsOver(nodes))
      /\ segments \in Seq([from : nodes, to : nodes, orig : Int, reversed : BOOLEAN])
  OBVIOUS
<1> QED  BY <1>4, <1>5, <1>6 DEF ChainsInv

\* Normalised ranks of a graph without compounds are what chains are made from.
LEMMA NormalizeRanksKeepsShape ==
  ASSUME RankingIInv, RankingIInv', ChainsIInv, NormalizeRanks
  PROVE  ChainsIInv'
<1>1. /\ stage = "rank" /\ stage' = "chains" /\ phase = "ranked" /\ Compounds = {}
      /\ rank' = Normalized(rank, PositionNodes)
      /\ UNCHANGED <<nodes, edges, reversed, config, parents, titled, unplaced, minlen, weight,
                     missed, borders, nesting, excluded, factor, labels, chained, segments, chains>>
  BY DEF NormalizeRanks, graphVars, compoundVars, treeVars, nestingVars, chainVars
<1>2. /\ Shape /\ OrigsDiffer /\ ScaffoldKept /\ RoomGiven
      /\ titled \in SUBSET Int /\ IsFiniteSet(titled)
      /\ chained = 0 /\ segments = <<>> /\ chains = <<>>
      /\ borders = <<>> /\ unplaced = {} /\ factor = 1
  BY <1>1 DEF ChainsIInv, UpToChains, BeforeRanking
<1>3. RanksInv /\ GraphOK
  BY <1>1 DEF RankingIInv
<1>4. Compounds' = Compounds /\ ~FrameUp /\ ~FrameUp'
  <2>1. Compounds' = Compounds
    BY <1>1 DEF Compounds
  <2> QED  BY <1>1, <2>1 DEF FrameUp
<1>5. Scaffold' = Scaffold
  BY <1>1, <1>4, GivenStays
<1>6. Given = Positions
  BY <1>2, <1>4, NothingAdded
<1>7. \E d \in Int : rank' = [v \in nodes |-> rank[v] - d]
  <2>1. PositionNodes = nodes /\ rank \in [nodes -> Int] /\ IsFiniteSet(nodes)
    BY <1>1, <1>2, <1>3 DEF PositionNodes, Shape, GraphOK, NetworkOK
  <2>2. CASE nodes = {}
    <3>1. rank' = [v \in nodes |-> rank[v] - 0]
      BY <1>1, <2>1, <2>2 DEF Normalized
    <3> QED  BY <3>1
  <2>3. CASE nodes # {}
    BY <1>1, <2>1, <2>3, NormalizedShifts
  <2> QED  BY <2>2, <2>3
<1>8. PICK d \in Int : rank' = [v \in nodes |-> rank[v] - d]
  BY <1>7
<1>9. rank' \in [nodes -> Int]
  BY <1>2, <1>8 DEF Shape
<1>10. Shape' /\ Positions' = Positions /\ Given' = Given
  <2>1. weight' \in [Positions -> Int] /\ reversed' \in SUBSET Positions
    BY <1>1, <1>2 DEF Shape
  <2> QED  BY <1>1, <1>2, <1>5, <1>9, <2>1, ShapeStays
<1>11. OrigsDiffer' /\ RoomGiven'
  BY <1>1, <1>2, <1>10, EdgesKeepRoom
<1>12. ScaffoldKept'
  BY <1>1, <1>2, <1>6, <1>10 DEF ScaffoldKept, BeforeRanking
<1>13. Steps'
  <2> SUFFICES ASSUME missed = {}, NEW k \in Positions
               PROVE  /\ minlen[k] >= 0 => Span(k)' >= 0
                      /\ minlen[k] > 0 => Span(k)' >= 1
                      /\ minlen[k] >= 2 => Span(k)' >= 2
    BY <1>1, <1>2, <1>6, <1>10 DEF Steps
  <2>1. Slack(k) >= 0
    BY <1>3 DEF RanksInv, Feasible
  <2>2. Source(k)' = Source(k) /\ Target(k)' = Target(k)
    BY <1>1 DEF Source, Target
  <2>3. Source(k) \in nodes /\ Target(k) \in nodes /\ minlen[k] \in Int
    BY <1>3, EdgesJoinNodes DEF GraphOK
  <2>4. rank[Source(k)] \in Int /\ rank[Target(k)] \in Int
    BY <1>3, <2>3 DEF RanksInv
  <2>5. rank'[Source(k)] = rank[Source(k)] - d /\ rank'[Target(k)] = rank[Target(k)] - d
    BY <1>8, <2>3
  <2>6. Span(k)' = rank[Target(k)] - rank[Source(k)]
    BY <2>2, <2>4, <2>5 DEF Span
  <2> QED  BY <2>1, <2>3, <2>4, <2>6 DEF Slack
<1>14. ChainsInv'
  <2>1. EdgeCount' \in Nat
    BY <1>1, <1>3 DEF GraphOK, NetworkOK, EdgeCount
  <2>2. (EdgeCount \in Nat /\ chained = 0 /\ chains = <<>> /\ segments = <<>>)'
    BY <1>1, <1>2, <2>1
  <2> QED  BY <2>2, ChainsStart, PTL
<1>15. stage' \notin BeforeRanking
  BY <1>1 DEF BeforeRanking
<1> QED  BY <1>1, <1>2, <1>4, <1>10, <1>11, <1>12, <1>13, <1>14, <1>15 DEF ChainsIInv, UpToChains
-----------------------------------------------------------------------------
(* remove_empty_ranks.                                                     *)

\* Multiples leave no remainder.
LEMMA NoRemainder ==
  ASSUME NEW a \in Nat, NEW f \in Nat, f > 0
  PROVE  (f * a) % f = 0
  OBVIOUS

\* A multiple of f follows every number within f.
LEMMA MultipleFollows ==
  ASSUME NEW a \in Nat, NEW f \in Nat \ {0}
  PROVE  \E m \in Nat : a < m /\ m <= a + f /\ m % f = 0
<1> DEFINE q == a \div f
<1>1. q \in Nat /\ a = f * q + (a % f) /\ 0 <= a % f /\ a % f < f
  OBVIOUS
<1> HIDE DEF q
<1>2. PICK p \in Nat : p = q + 1
  BY <1>1
<1>3. f * p = f * q + f /\ f * q \in Nat
  BY <1>1, <1>2
<1>4. f \in Nat /\ f > 0
  OBVIOUS
<1>5. (f * p) % f = 0
  BY <1>2, <1>4, NoRemainder, Zenon
<1>6. a < f * p /\ f * p <= a + f /\ f * p \in Nat
  BY <1>1, <1>3
<1> QED  BY <1>5, <1>6

\* Between two nodes at most the ranks between theirs go, and never a multiple of the factor.
LEMMA RanksTakenOut ==
  ASSUME nodes # {}, IsFiniteSet(nodes), rank \in [nodes -> Int], factor \in Nat \ {0},
         RemoveEmptyRanks
  PROVE  /\ rank' \in [nodes -> Int]
         /\ \A v, w \in nodes :
              /\ rank[v] <= rank[w] => rank'[v] <= rank'[w]
              /\ rank[v] < rank[w] => rank'[v] < rank'[w]
              /\ rank[w] - rank[v] >= 2 * factor => rank'[w] - rank'[v] >= 2
<1> DEFINE S == {rank[v] : v \in nodes}
           first == Min(S)
           last == Max(S)
           gone == {i \in 0..(last - first) : Superfluous(i, first)}
           above(x) == {i \in gone : first + i < rank[x]}
<1>1. rank' = [v \in nodes |-> rank[v] - Cardinality(above(v))]
  BY DEF RemoveEmptyRanks
<1>2. IsFiniteSet(S) /\ S \in SUBSET Int /\ S # {}
  <2>1. DOMAIN rank = nodes
    OBVIOUS
  <2>2. IsFiniteSet(S)
    BY <2>1, FiniteImage
  <2> QED  BY <2>2
<1>3. first \in Int /\ last \in Int /\ \A v \in nodes : first <= rank[v]
  <2> HIDE DEF S
  <2>1. first \in Int /\ last \in Int /\ \A y \in S : first <= y
    BY <1>2, LeastInteger, GreatestInteger
  <2> QED  BY <2>1 DEF S
<1> HIDE DEF first, last
<1>4. gone \in SUBSET Nat /\ IsFiniteSet(gone)
  <2>1. IsFiniteSet(0..(last - first))
    BY <1>3, FS_Interval
  <2>2. gone \in SUBSET (0..(last - first))
    OBVIOUS
  <2>3. 0..(last - first) \in SUBSET Nat
    BY <1>3
  <2> HIDE DEF gone
  <2>4. IsFiniteSet(gone)
    BY <2>1, <2>2, FS_Subset, Zenon
  <2> QED  BY <2>2, <2>3, <2>4
<1>5. \A i \in gone : i % factor # 0 /\ \A v \in nodes : rank[v] # first + i
  BY DEF Superfluous
<1> HIDE DEF gone
<1>6. ASSUME NEW v \in nodes PROVE IsFiniteSet(above(v)) /\ Cardinality(above(v)) \in Nat
  <2>1. above(v) \in SUBSET gone
    OBVIOUS
  <2> HIDE DEF above
  <2>2. IsFiniteSet(above(v))
    BY <1>4, <2>1, FS_Subset, Zenon
  <2> QED  BY <2>2, FS_CardinalityType
<1>7. rank' \in [nodes -> Int]
  <2>1. \A v \in nodes : rank[v] - Cardinality(above(v)) \in Int
    <3> TAKE v \in nodes
    <3>1. rank[v] \in Int /\ Cardinality(above(v)) \in Nat
      BY <1>6
    <3> HIDE DEF above
    <3> QED  BY <3>1
  <2> HIDE DEF above
  <2> QED  BY <1>1, <2>1
<1>8. ASSUME NEW v \in nodes, NEW w \in nodes, rank[v] <= rank[w]
      PROVE  /\ rank'[v] <= rank'[w]
             /\ rank[v] < rank[w] => rank'[v] < rank'[w]
             /\ rank[w] - rank[v] >= 2 * factor => rank'[w] - rank'[v] >= 2
  <2> DEFINE a == rank[v] - first
             b == rank[w] - first
             D == above(w) \ above(v)
             between == (a + 1)..(b - 1)
  <2>1. a \in Nat /\ b \in Nat /\ a <= b /\ rank[w] - rank[v] = b - a
    BY <1>3, <1>8
  <2>2. ASSUME NEW i \in D PROVE i \in between
    <3>1. i \in gone /\ first + i < rank[w] /\ ~(first + i < rank[v]) /\ rank[v] # first + i
      BY <1>5, <2>2
    <3>2. i \in Nat
      BY <1>4, <3>1
    <3> QED  BY <1>3, <3>1, <3>2
  <2>3. above(v) \in SUBSET above(w)
    <3>1. ASSUME NEW i \in above(v) PROVE first + i < rank[w]
      <4>1. i \in Nat /\ first + i < rank[v]
        BY <1>4, <3>1
      <4> QED  BY <1>3, <1>8, <4>1
    <3> QED  BY <3>1
  <2>4. IsFiniteSet(D) /\ Cardinality(D) = Cardinality(above(w)) - Cardinality(above(v))
    <3>1. above(w) \cap above(v) = above(v)
      BY <2>3
    <3> HIDE DEF above
    <3> QED  BY <1>6, <3>1, FS_Difference
  <2>5. IsFiniteSet(between) /\ Cardinality(between) = IF a + 1 > b - 1 THEN 0 ELSE b - 1 - a
    <3> HIDE DEF a, b
    <3>1. Cardinality(between) = IF a + 1 > b - 1 THEN 0 ELSE (b - 1) - (a + 1) + 1
      BY <2>1, FS_Interval
    <3>2. IsFiniteSet(between)
      BY <2>1, FS_Interval
    <3> QED  BY <2>1, <3>1, <3>2
  <2>6. D \in SUBSET between
    BY <2>2
  <2>7. rank'[w] - rank'[v] = (b - a) - Cardinality(D)
    <3>1. rank'[w] = rank[w] - Cardinality(above(w)) /\ rank'[v] = rank[v] - Cardinality(above(v))
      BY <1>1
    <3>2. Cardinality(above(w)) \in Nat /\ Cardinality(above(v)) \in Nat
      BY <1>6
    <3> HIDE DEF above, D, a, b
    <3> QED  BY <2>1, <2>4, <3>1, <3>2
  <2> HIDE DEF D, between, a, b
  <2>8. Cardinality(D) \in Nat /\ Cardinality(D) <= Cardinality(between)
    BY <2>4, <2>5, <2>6, FS_Subset, FS_CardinalityType
  <2>9. rank'[v] <= rank'[w] /\ (rank[v] < rank[w] => rank'[v] < rank'[w])
    <3>1. rank'[v] \in Int /\ rank'[w] \in Int
      BY <1>7
    <3> QED  BY <1>3, <2>1, <2>5, <2>7, <2>8, <3>1
  <2>10. ASSUME b - a >= 2 * factor PROVE (b - a) - Cardinality(D) >= 2
    <3>1. PICK m \in Nat : a < m /\ m <= a + factor /\ m % factor = 0
      BY <2>1, MultipleFollows
    <3>2. m \in between /\ a + 1 <= b - 1
      BY <2>1, <2>10, <3>1 DEF between
    <3>3. m \notin D
      BY <1>5, <3>1 DEF D
    <3>4. D \in SUBSET (between \ {m})
      BY <2>6, <3>3
    <3>5. IsFiniteSet(between \ {m}) /\ Cardinality(between \ {m}) = Cardinality(between) - 1
      BY <2>5, <3>2, FS_RemoveElement
    <3>6. Cardinality(D) <= Cardinality(between \ {m})
      BY <3>4, <3>5, FS_Subset
    <3> QED  BY <2>1, <2>5, <2>8, <3>2, <3>5, <3>6
  <2> QED  BY <2>1, <2>7, <2>9, <2>10
<1> QED  BY <1>3, <1>7, <1>8
-----------------------------------------------------------------------------
(* Taking the frames down.                                                 *)

\* The ends of an edge are nodes and have ranks.
LEMMA ShapeEnds ==
  ASSUME Shape, NEW k \in Positions
  PROVE  /\ k \in Nat /\ minlen[k] \in Int /\ edges[k].orig \in Int
         /\ edges[k].from \in nodes /\ edges[k].to \in nodes
         /\ Source(k) \in nodes /\ Target(k) \in nodes
         /\ rank[Source(k)] \in Int /\ rank[Target(k)] \in Int /\ Span(k) \in Int
<1>1. k \in Nat /\ edges[k] \in [from : nodes, to : nodes, orig : Int]
  <2> DEFINE E == [from : nodes, to : nodes, orig : Int]
  <2>1. edges \in Seq(E) /\ k \in DOMAIN edges
    BY DEF Shape, Positions
  <2> HIDE DEF E
  <2>2. k \in Nat /\ edges[k] \in E
    BY <2>1, EntryOf, Zenon
  <2> QED  BY <2>2 DEF E
<1>2. edges[k].from \in nodes /\ edges[k].to \in nodes /\ edges[k].orig \in Int
  BY <1>1
<1>3. Source(k) \in nodes /\ Target(k) \in nodes
  BY <1>2 DEF Source, Target
<1>4. rank[Source(k)] \in Int /\ rank[Target(k)] \in Int /\ minlen[k] \in Int
  BY <1>3 DEF Shape
<1> QED  BY <1>1, <1>2, <1>3, <1>4 DEF Span

\* remove_empty_ranks.
LEMMA RemoveEmptyRanksKeepsShape ==
  ASSUME RankingIInv, ChainsIInv, stage = "rank", phase = "ranked", Compounds # {},
         RemoveEmptyRanks, stage' = "clean_up", UNCHANGED <<searchVars, labels, chainVars>>
  PROVE  ChainsIInv'
<1>1. UNCHANGED <<nodes, edges, reversed, config, parents, titled, unplaced, minlen, weight,
                  missed, borders, nesting, excluded, factor, labels, chained, segments, chains>>
  BY DEF RemoveEmptyRanks, graphVars, compoundVars, treeVars, nestingVars, chainVars
<1>2. FrameUp /\ FrameUp' /\ Compounds' = Compounds
  <2>1. Compounds' = Compounds
    BY <1>1 DEF Compounds
  <2> QED  BY <2>1 DEF FrameUp
<1>3. /\ Shape /\ OrigsDiffer /\ ScaffoldKept /\ RoomGiven /\ FramesStand
      /\ titled \in SUBSET Int /\ IsFiniteSet(titled)
      /\ chained = 0 /\ segments = <<>> /\ chains = <<>>
  BY <1>2 DEF ChainsIInv, UpToChains, BeforeRanking
<1>4. RanksInv /\ GraphOK
  BY DEF RankingIInv
<1>5. Scaffold' = Scaffold /\ NodeCount' = NodeCount
  BY <1>1, <1>2, GivenStays
<1>6. /\ rank' \in [nodes -> Int]
      /\ \A v, w \in nodes :
           /\ rank[v] <= rank[w] => rank'[v] <= rank'[w]
           /\ rank[v] < rank[w] => rank'[v] < rank'[w]
           /\ rank[w] - rank[v] >= 2 * factor => rank'[w] - rank'[v] >= 2
  <2>1. nodes # {}
    BY <1>4, CompoundsFacts
  <2> QED  BY <1>3, <1>4, <2>1, RanksTakenOut DEF Shape, GraphOK, NetworkOK
<1>7. Shape' /\ Positions' = Positions /\ Given' = Given
  <2>1. weight' \in [Positions -> Int] /\ reversed' \in SUBSET Positions
    BY <1>1, <1>3 DEF Shape
  <2> QED  BY <1>1, <1>3, <1>5, <1>6, <2>1, ShapeStays
<1>8. OrigsDiffer' /\ RoomGiven'
  BY <1>1, <1>3, <1>7, EdgesKeepRoom
<1>9. ScaffoldKept'
  BY <1>1, <1>3, <1>7 DEF ScaffoldKept, BeforeRanking
<1>10. FramesStand'
  BY <1>1, <1>2, <1>3, <1>5 DEF FramesStand
<1>11. Steps'
  <2> SUFFICES ASSUME missed = {}, NEW k \in Given
               PROVE  /\ minlen[k] >= 0 => Span(k)' >= 0
                      /\ minlen[k] > 0 => Span(k)' >= 1
                      /\ minlen[k] >= 2 * factor => Span(k)' >= 2
    BY <1>1, <1>7 DEF Steps
  <2>1. k \in Positions
    BY DEF Given
  <2>2. Slack(k) >= 0
    BY <1>4, <2>1 DEF RanksInv, Feasible
  <2>3. /\ minlen[k] \in Int /\ Source(k) \in nodes /\ Target(k) \in nodes
        /\ rank[Source(k)] \in Int /\ rank[Target(k)] \in Int
    BY <1>3, <2>1, ShapeEnds
  <2>4. Source(k)' = Source(k) /\ Target(k)' = Target(k)
    BY <1>1 DEF Source, Target
  <2>5. PICK s \in nodes, t \in nodes : s = Source(k) /\ t = Target(k)
    BY <2>3
  <2>6. Span(k)' = rank'[t] - rank'[s] /\ rank'[s] \in Int /\ rank'[t] \in Int
    BY <1>6, <2>4, <2>5 DEF Span
  <2>7. rank[t] - rank[s] >= minlen[k] /\ rank[s] \in Int /\ rank[t] \in Int
    BY <2>2, <2>3, <2>5 DEF Slack
  <2>8. factor \in Nat
    BY <1>3 DEF Shape
  <2> QED  BY <1>6, <2>3, <2>6, <2>7, <2>8
<1>12. stage' \notin BeforeRanking
  BY DEF BeforeRanking
<1>13. Compounds' # {}
  BY <1>2 DEF FrameUp
<1> QED  BY <1>1, <1>2, <1>3, <1>7, <1>8, <1>9, <1>10, <1>11, <1>12, <1>13
         DEF ChainsIInv, UpToChains

\* cleanup, and the normalisation after it.
LEMMA CleanUpKeepsShape ==
  ASSUME RankingIInv, ChainsIInv, stage = "clean_up", CleanUp, stage' = "titles",
         UNCHANGED <<searchVars, labels, chainVars>>
  PROVE  ChainsIInv'
<1>1. /\ UNCHANGED <<nodes, edges, reversed, config, parents, titled, minlen,
                     missed, borders, factor, labels, chained, segments, chains>>
      /\ unplaced' = unplaced \union {NodeCount}
      /\ rank' = Normalized(rank, PositionNodes \ {NodeCount})
      /\ weight' = [k \in Positions |-> IF k \in nesting THEN 0 ELSE weight[k]]
      /\ excluded' = excluded \union nesting
  BY DEF CleanUp, graphVars, treeVars, chainVars
<1>2. /\ Shape /\ OrigsDiffer /\ ScaffoldKept /\ RoomGiven /\ Steps
      /\ FrameUp => FramesStand
      /\ titled \in SUBSET Int /\ IsFiniteSet(titled)
      /\ chained = 0 /\ segments = <<>> /\ chains = <<>>
  BY DEF ChainsIInv, UpToChains, BeforeRanking
<1>3. Compounds' = Compounds /\ NodeCount' = NodeCount /\ Positions' = Positions
  BY <1>1 DEF Compounds, NodeCount, Positions
<1>4. Compounds # {} /\ FrameUp /\ ~FrameUp'
  BY DEF ChainsIInv, FrameUp
<1>5. FramesStand
  BY <1>2, <1>4
<1>6. Scaffold' = Scaffold
  <2>1. Added' = Added \union {NodeCount}
    BY <1>1 DEF Added
  <2> QED  BY <1>4, <2>1 DEF Scaffold
<1>7. IsFiniteSet(nodes)
  BY <1>2, FS_Interval DEF Shape
<1>8. PICK d \in Int : rank' = [v \in nodes |-> rank[v] - d]
  <2>1. PositionNodes \ {NodeCount} \in SUBSET nodes
    BY DEF PositionNodes
  <2>2. PICK c \in Compounds : TRUE
    BY <1>4
  <2>3. borders[c][1] \in PositionNodes \ {NodeCount}
    BY <1>5, <2>2 DEF FramesStand, PositionNodes
  <2>4. rank \in [nodes -> Int]
    BY <1>2 DEF Shape
  <2> QED  BY <1>1, <1>7, <2>1, <2>3, <2>4, NormalizedShifts
<1>9. rank' \in [nodes -> Int]
  BY <1>2, <1>8 DEF Shape
<1>10. Shape' /\ Positions' = Positions /\ Given' = Given
  <2>1. weight' \in [Positions -> Int] /\ reversed' \in SUBSET Positions
    BY <1>1, <1>2 DEF Shape
  <2> QED  BY <1>1, <1>2, <1>6, <1>9, <2>1, ShapeStays
<1>11. OrigsDiffer' /\ RoomGiven'
  BY <1>1, <1>2, <1>10, EdgesKeepRoom
<1>12. ScaffoldKept'
  <2>1. excluded' = Positions \ Given
    BY <1>1, <1>2 DEF ScaffoldKept
  <2> QED  BY <1>10, <2>1 DEF ScaffoldKept, BeforeRanking
<1>13. Steps'
  <2> SUFFICES ASSUME missed = {}, NEW k \in Given
               PROVE  Span(k)' = Span(k)
    BY <1>1, <1>2, <1>10 DEF Steps
  <2>1. k \in Positions
    BY DEF Given
  <2>2. /\ Source(k) \in nodes /\ Target(k) \in nodes
        /\ rank[Source(k)] \in Int /\ rank[Target(k)] \in Int
    BY <1>2, <2>1, ShapeEnds
  <2>3. Source(k)' = Source(k) /\ Target(k)' = Target(k)
    BY <1>1 DEF Source, Target
  <2>4. rank'[Source(k)] = rank[Source(k)] - d /\ rank'[Target(k)] = rank[Target(k)] - d
    BY <1>8, <2>2
  <2> QED  BY <2>2, <2>3, <2>4 DEF Span
<1>14. stage' \notin BeforeRanking
  BY DEF BeforeRanking
<1> QED  BY <1>1, <1>2, <1>4, <1>10, <1>11, <1>12, <1>13, <1>14 DEF ChainsIInv, UpToChains
-----------------------------------------------------------------------------
(* Titles, and edges that climb.                                           *)

\* One row after another.
LEMMA RowsJoined ==
  ASSUME NEW R, NEW m \in Nat, NEW n \in Nat, NEW s \in [1..m -> R], NEW t \in [1..n -> R]
  PROVE  /\ s \o t \in [1..(m + n) -> R]
         /\ \A k \in 1..m : (s \o t)[k] = s[k]
         /\ \A k \in 1..n : (s \o t)[m + k] = t[k]
<1>1. s \in Seq(R) /\ Len(s) = m /\ t \in Seq(R) /\ Len(t) = n
  OBVIOUS
<1>2. PICK a \in Seq(R), b \in Seq(R) : a = s /\ b = t /\ Len(a) = m /\ Len(b) = n
  BY <1>1
<1>3. /\ a \o b \in Seq(R) /\ Len(a \o b) = Len(a) + Len(b)
      /\ \A i \in 1..Len(a) : (a \o b)[i] = a[i]
      /\ \A i \in 1..Len(b) : (a \o b)[Len(a) + i] = b[i]
  BY Concatenated
<1>4. a \o b \in [1..(m + n) -> R]
  <2>1. PICK c \in Seq(R) : c = a \o b /\ Len(c) = m + n
    BY <1>2, <1>3
  <2>2. c \in [1..Len(c) -> R]
    OBVIOUS
  <2> QED  BY <2>1, <2>2
<1> QED  BY <1>2, <1>3, <1>4

\* The nodes and edges of titles come at the end.
LEMMA TitlesAdded ==
  ASSUME Shape, titled \in SUBSET Int, IsFiniteSet(titled), InsertTitles
  PROVE  \E n \in Nat : \E list \in [1..n -> titled] :
           /\ nodes' = 1..(NodeCount + n) /\ NodeCount' = NodeCount + n
           /\ Positions = 1..EdgeCount /\ EdgeCount \in Nat
           /\ Positions' = 1..(EdgeCount + n)
           /\ parents' \in [nodes' -> Int] /\ rank' \in [nodes' -> Int]
           /\ minlen' \in [Positions' -> Int] /\ weight' \in [Positions' -> Int]
           /\ edges' \in Seq([from : nodes', to : nodes', orig : Int])
           /\ unplaced' = unplaced \union (nodes' \ nodes)
           /\ \A v \in nodes : rank'[v] = rank[v]
           /\ \A k \in Positions : edges'[k] = edges[k] /\ minlen'[k] = minlen[k]
           /\ \A i \in 1..n : /\ edges'[EdgeCount + i].from = NodeCount + i
                              /\ edges'[EdgeCount + i].to = borders[list[i]][1]
                              /\ borders[list[i]][1] \in nodes
                              /\ rank'[NodeCount + i] = rank[borders[list[i]][1]] - 1
<1> DEFINE list == InOrder(titled)
           n == Cardinality(titled)
           all == 1..(NodeCount + n)
           F == [from : all, to : all, orig : Int]
           more == [i \in 1..n |-> [from |-> NodeCount + i, to |-> borders[list[i]][1],
                                    orig |-> EdgeCount + i]]
<1>1. n \in Nat /\ list \in [1..n -> titled]
  BY InOrderFacts
<1> HIDE DEF list, n
<1>2. Len(list) = n
  BY <1>1
<1>3. /\ TitlesHaveBorders
      /\ nodes' = all /\ unplaced' = unplaced \union (all \ nodes)
      /\ parents' = [v \in all |-> IF v \in nodes THEN parents[v] ELSE list[v - NodeCount]]
      /\ rank' = [v \in all |-> IF v \in nodes THEN rank[v]
                                ELSE rank[borders[list[v - NodeCount]][1]] - 1]
      /\ edges' = edges \o more
      /\ minlen' = minlen \o [i \in 1..n |-> 1]
      /\ weight' = weight \o [i \in 1..n |-> 0]
  BY <1>2 DEF InsertTitles, list
<1>4. /\ NodeCount \in Nat /\ nodes = 1..NodeCount /\ nodes \subseteq all
      /\ rank \in [nodes -> Int] /\ parents \in [nodes -> Int]
      /\ Positions = 1..EdgeCount /\ EdgeCount \in Nat /\ EdgeCount = Len(edges)
  BY <1>1 DEF Shape, Positions, EdgeCount
<1>5. \A i \in 1..n : list[i] \in titled /\ borders[list[i]][1] \in nodes
  BY <1>1, <1>3 DEF TitlesHaveBorders, Shape, BordersKept
<1>6. \A v \in all \ nodes : v - NodeCount \in 1..n
  BY <1>1, <1>4
<1>7. NodeCount' = NodeCount + n
  <2>1. Cardinality(all) = NodeCount + n
    BY <1>1, <1>4, FS_Interval
  <2> QED  BY <1>3, <2>1 DEF NodeCount
<1>8. rank' \in [all -> Int] /\ parents' \in [all -> Int]
  <2>1. \A v \in all : v \notin nodes =>
           /\ list[v - NodeCount] \in Int
           /\ rank[borders[list[v - NodeCount]][1]] - 1 \in Int
    <3> TAKE v \in all
    <3> SUFFICES ASSUME v \notin nodes
                 PROVE  /\ list[v - NodeCount] \in Int
                        /\ rank[borders[list[v - NodeCount]][1]] - 1 \in Int
      OBVIOUS
    <3>1. PICK i \in 1..n : i = v - NodeCount
      BY <1>6
    <3>2. list[i] \in Int /\ borders[list[i]][1] \in nodes
      BY <1>5
    <3>3. PICK b \in nodes : b = borders[list[i]][1]
      BY <3>2
    <3>4. rank[b] - 1 \in Int
      BY <1>4
    <3> QED  BY <3>1, <3>2, <3>3, <3>4
  <2>2. \A v \in nodes : rank[v] \in Int /\ parents[v] \in Int
    BY <1>4
  <2> HIDE DEF all
  <2> QED  BY <1>3, <2>1, <2>2
<1>9. edges \in Seq(F) /\ more \in Seq(F) /\ Len(more) = n
  <2> DEFINE E == [from : nodes, to : nodes, orig : Int]
  <2>1. edges \in Seq(E) /\ E \subseteq F
    BY <1>4 DEF Shape
  <2>2. \A i \in 1..n : NodeCount + i \in all /\ borders[list[i]][1] \in all /\ EdgeCount + i \in Int
    BY <1>1, <1>4, <1>5
  <2>3. \A i \in 1..n : more[i] \in F
    <3> HIDE DEF all
    <3> QED  BY <2>2
  <2>4. more \in [1..n -> F]
    <3> HIDE DEF F
    <3> QED  BY <2>3
  <2> HIDE DEF E, F, more
  <2> QED  BY <1>1, <2>1, <2>4
<1>10. /\ edges' \in Seq(F) /\ Positions' = 1..(EdgeCount + n)
       /\ \A k \in Positions : edges'[k] = edges[k]
       /\ \A i \in 1..n : edges'[EdgeCount + i] = more[i]
  <2> HIDE DEF F, more
  <2>1. PICK s \in Seq(F), t \in Seq(F) : s = edges /\ t = more
    BY <1>9
  <2>2. edges' = s \o t /\ Len(s) = EdgeCount /\ Len(t) = n
    BY <1>3, <1>4, <1>9, <2>1
  <2>3. /\ s \o t \in Seq(F) /\ Len(s \o t) = Len(s) + Len(t)
        /\ \A i \in 1..Len(s) : (s \o t)[i] = s[i]
        /\ \A i \in 1..Len(t) : (s \o t)[Len(s) + i] = t[i]
    BY Concatenated
  <2>4. /\ s \o t \in Seq(F) /\ Len(s \o t) = EdgeCount + n
        /\ \A i \in 1..EdgeCount : (s \o t)[i] = s[i]
        /\ \A i \in 1..n : (s \o t)[EdgeCount + i] = t[i]
    BY <2>2, <2>3
  <2>5. DOMAIN (s \o t) = 1..(EdgeCount + n)
    BY <2>4
  <2> QED  BY <1>4, <2>1, <2>2, <2>4, <2>5 DEF Positions
<1>11. /\ minlen' \in [1..(EdgeCount + n) -> Int] /\ weight' \in [1..(EdgeCount + n) -> Int]
       /\ \A k \in Positions : minlen'[k] = minlen[k]
  <2>1. PICK m \in Nat : m = EdgeCount
    BY <1>4
  <2>2. minlen \in [1..m -> Int] /\ weight \in [1..m -> Int]
    BY <1>4, <2>1 DEF Shape
  <2>3. PICK a \in [1..m -> Int], b \in [1..m -> Int] : a = minlen /\ b = weight
    BY <2>2
  <2>4. PICK ones \in [1..n -> Int], none \in [1..n -> Int] :
          ones = [i \in 1..n |-> 1] /\ none = [i \in 1..n |-> 0]
    <3>1. [i \in 1..n |-> 1] \in [1..n -> Int] /\ [i \in 1..n |-> 0] \in [1..n -> Int]
      OBVIOUS
    <3> QED  BY <3>1, Zenon
  <2>5. a \o ones \in [1..(m + n) -> Int]
    BY <1>1, RowsJoined, Zenon
  <2>6. \A k \in 1..m : (a \o ones)[k] = a[k]
    BY <1>1, RowsJoined, SMT
  <2>7. b \o none \in [1..(m + n) -> Int]
    BY <1>1, RowsJoined, Zenon
  <2> QED  BY <1>3, <1>4, <2>1, <2>3, <2>4, <2>5, <2>7, <2>6
<1>12. \A i \in 1..n : /\ more[i].from = NodeCount + i /\ more[i].to = borders[list[i]][1]
                       /\ rank'[NodeCount + i] = rank[borders[list[i]][1]] - 1
  <2> TAKE i \in 1..n
  <2>1. NodeCount + i \in all /\ NodeCount + i \notin nodes /\ (NodeCount + i) - NodeCount = i
    BY <1>1, <1>4
  <2> HIDE DEF all
  <2> QED  BY <1>3, <2>1
<1>13. \A v \in nodes : rank'[v] = rank[v]
  BY <1>3, <1>4
<1> HIDE DEF more
<1>14. /\ edges' \in Seq([from : nodes', to : nodes', orig : Int])
       /\ parents' \in [nodes' -> Int] /\ rank' \in [nodes' -> Int]
       /\ minlen' \in [Positions' -> Int] /\ weight' \in [Positions' -> Int]
       /\ unplaced' = unplaced \union (nodes' \ nodes)
       /\ nodes' = 1..(NodeCount + n)
  BY <1>3, <1>8, <1>10, <1>11
<1>15. \A i \in 1..n : /\ edges'[EdgeCount + i].from = NodeCount + i
                       /\ edges'[EdgeCount + i].to = borders[list[i]][1]
                       /\ borders[list[i]][1] \in nodes
                       /\ rank'[NodeCount + i] = rank[borders[list[i]][1]] - 1
  BY <1>5, <1>10, <1>12
<1>16. \A k \in Positions : edges'[k] = edges[k] /\ minlen'[k] = minlen[k]
  BY <1>10, <1>11
<1> QED  BY <1>1, <1>4, <1>7, <1>10, <1>13, <1>14, <1>15, <1>16, Zenon

\* insert_title_nodes.
LEMMA InsertTitlesKeepsShape ==
  ASSUME RankingIInv, ChainsIInv, stage = "titles", InsertTitles, stage' = "climbing",
         UNCHANGED <<searchVars, labels, chainVars>>
  PROVE  ChainsIInv'
<1>1. UNCHANGED <<reversed, config, titled, missed, borders, excluded, factor, labels, chained,
                  segments, chains>>
  BY DEF InsertTitles, treeVars, nestingVars, chainVars
<1>2. /\ Shape /\ OrigsDiffer /\ ScaffoldKept /\ RoomGiven /\ Steps
      /\ titled \in SUBSET Int /\ IsFiniteSet(titled)
      /\ chained = 0 /\ segments = <<>> /\ chains = <<>>
  BY DEF ChainsIInv, UpToChains, BeforeRanking
<1>3. PICK n \in Nat : \E list \in [1..n -> titled] :
           /\ nodes' = 1..(NodeCount + n) /\ NodeCount' = NodeCount + n
           /\ Positions = 1..EdgeCount /\ EdgeCount \in Nat
           /\ Positions' = 1..(EdgeCount + n)
           /\ parents' \in [nodes' -> Int] /\ rank' \in [nodes' -> Int]
           /\ minlen' \in [Positions' -> Int] /\ weight' \in [Positions' -> Int]
           /\ edges' \in Seq([from : nodes', to : nodes', orig : Int])
           /\ unplaced' = unplaced \union (nodes' \ nodes)
           /\ \A v \in nodes : rank'[v] = rank[v]
           /\ \A k \in Positions : edges'[k] = edges[k] /\ minlen'[k] = minlen[k]
           /\ \A i \in 1..n : /\ edges'[EdgeCount + i].from = NodeCount + i
                              /\ edges'[EdgeCount + i].to = borders[list[i]][1]
                              /\ borders[list[i]][1] \in nodes
                              /\ rank'[NodeCount + i] = rank[borders[list[i]][1]] - 1
  BY <1>2, TitlesAdded
<1>4. PICK list \in [1..n -> titled] :
           /\ nodes' = 1..(NodeCount + n) /\ NodeCount' = NodeCount + n
           /\ Positions = 1..EdgeCount /\ EdgeCount \in Nat
           /\ Positions' = 1..(EdgeCount + n)
           /\ parents' \in [nodes' -> Int] /\ rank' \in [nodes' -> Int]
           /\ minlen' \in [Positions' -> Int] /\ weight' \in [Positions' -> Int]
           /\ edges' \in Seq([from : nodes', to : nodes', orig : Int])
           /\ unplaced' = unplaced \union (nodes' \ nodes)
           /\ \A v \in nodes : rank'[v] = rank[v]
           /\ \A k \in Positions : edges'[k] = edges[k] /\ minlen'[k] = minlen[k]
           /\ \A i \in 1..n : /\ edges'[EdgeCount + i].from = NodeCount + i
                              /\ edges'[EdgeCount + i].to = borders[list[i]][1]
                              /\ borders[list[i]][1] \in nodes
                              /\ rank'[NodeCount + i] = rank[borders[list[i]][1]] - 1
  BY <1>3, Zenon
<1>5. /\ NodeCount \in Nat /\ nodes = 1..NodeCount /\ nodes \subseteq nodes'
      /\ Positions \subseteq Positions'
  BY <1>2, <1>4 DEF Shape
<1>6. /\ ~FrameUp /\ ~FrameUp'
      /\ Scaffold' = Scaffold \union (nodes' \ nodes)
  <2>1. ~FrameUp /\ ~FrameUp'
    BY DEF FrameUp
  <2>2. Added' = Added \union (nodes' \ nodes)
    BY <1>1, <1>4 DEF Added
  <2> QED  BY <2>1, <2>2 DEF Scaffold
<1>7. ASSUME NEW k \in Positions
      PROVE  /\ k \in Positions' /\ (k \in Given' <=> k \in Given)
             /\ Span(k)' = Span(k)
             /\ edges[k].from \in nodes /\ edges[k].to \in nodes
  <2>1. /\ edges[k].from \in nodes /\ edges[k].to \in nodes
        /\ Source(k) \in nodes /\ Target(k) \in nodes
    BY <1>2, ShapeEnds
  <2>2. k \in Given' <=> k \in Given
    BY <1>4, <1>5, <1>6, <2>1 DEF Given
  <2>3. Source(k)' = Source(k) /\ Target(k)' = Target(k)
    BY <1>1, <1>4 DEF Source, Target
  <2>4. Span(k)' = Span(k)
    BY <1>4, <2>1, <2>3 DEF Span
  <2> QED  BY <1>5, <2>1, <2>2, <2>4
<1>8. ASSUME NEW k \in Positions' \ Positions
      PROVE  k \notin Given' /\ Span(k)' = 1
  <2>1. PICK i \in 1..n : k = EdgeCount + i
    <3>1. k - EdgeCount \in 1..n /\ k = EdgeCount + (k - EdgeCount)
      BY <1>4
    <3> QED  BY <3>1
  <2>2. PICK b \in nodes : b = borders[list[i]][1]
    BY <1>4
  <2>3. /\ edges'[k].from = NodeCount + i /\ edges'[k].to = b
        /\ rank'[NodeCount + i] = rank[b] - 1 /\ rank'[b] = rank[b]
    BY <1>4, <2>1, <2>2
  <2>4. k \notin reversed'
    BY <1>1, <1>2 DEF Shape
  <2>5. rank[b] \in Int
    BY <1>2 DEF Shape
  <2>6. Span(k)' = 1
    BY <2>3, <2>4, <2>5 DEF Span, Source, Target
  <2>7. NodeCount + i \in nodes' \ nodes
    BY <1>4, <1>5
  <2> QED  BY <1>6, <2>3, <2>6, <2>7 DEF Given
<1>9. Given' = Given
  <2>1. Given' \in SUBSET Positions' /\ Given \in SUBSET Positions
    BY DEF Given
  <2> QED  BY <1>7, <1>8, <2>1
<1>10. Shape'
  <2>1. BordersKept'
    BY <1>1, <1>2, <1>5, <1>6 DEF Shape, BordersKept
  <2>2. NodeCount' \in Nat /\ nodes' = 1..NodeCount'
    BY <1>4, <1>5
  <2>3. reversed' \in SUBSET Positions' /\ factor' \in Nat \ {0}
    BY <1>1, <1>2, <1>5 DEF Shape
  <2> QED  BY <1>4, <2>1, <2>2, <2>3 DEF Shape
<1>11. \A k \in Given : k \in Positions /\ edges'[k] = edges[k] /\ minlen'[k] = minlen[k]
  BY <1>4 DEF Given
<1>12. OrigsDiffer' /\ RoomGiven'
  BY <1>1, <1>2, <1>9, <1>11 DEF OrigsDiffer, RoomGiven
<1>13. Steps'
  BY <1>1, <1>2, <1>7, <1>9, <1>11 DEF Steps
<1>14. ScaffoldKept'
  <2>1. /\ excluded \in SUBSET (Positions \ Given)
        /\ \A k \in (Positions \ Given) \ excluded : Span(k) = 1
    BY <1>2 DEF ScaffoldKept
  <2>2. excluded' \in SUBSET (Positions' \ Given')
    BY <1>1, <1>5, <1>9, <2>1
  <2>3. \A k \in (Positions' \ Given') \ excluded' : Span(k)' = 1
    BY <1>1, <1>7, <1>8, <1>9, <2>1
  <2> QED  BY <2>2, <2>3 DEF ScaffoldKept, BeforeRanking
<1>15. stage' \notin BeforeRanking
  BY DEF BeforeRanking
<1> QED  BY <1>1, <1>2, <1>6, <1>10, <1>12, <1>13, <1>14, <1>15 DEF ChainsIInv, UpToChains

\* Edges that the frames have turned upwards.
LEMMA MarkClimbingKeepsShape ==
  ASSUME RankingIInv, ChainsIInv, stage = "climbing", MarkClimbing, stage' = "chains",
         UNCHANGED <<searchVars, labels, chainVars>>
  PROVE  ChainsIInv'
<1>1. /\ UNCHANGED <<nodes, edges, config, parents, titled, unplaced, minlen, weight, rank,
                     missed, borders, excluded, factor, labels, chained, segments, chains>>
      /\ reversed' = reversed \union
           {k \in Positions \ reversed : rank[edges[k].from] > rank[edges[k].to]}
  BY DEF MarkClimbing, compoundVars, simplexVars, treeVars, nestingVars, chainVars
<1>2. /\ Shape /\ OrigsDiffer /\ ScaffoldKept /\ RoomGiven /\ Steps
      /\ titled \in SUBSET Int /\ IsFiniteSet(titled)
      /\ chained = 0 /\ segments = <<>> /\ chains = <<>>
  BY DEF ChainsIInv, UpToChains, BeforeRanking
<1>3. ~FrameUp /\ ~FrameUp'
  BY DEF FrameUp
<1>4. Scaffold' = Scaffold
  BY <1>1, <1>3, GivenStays
<1>5. Shape' /\ Positions' = Positions /\ Given' = Given
  <2>1. weight' \in [Positions -> Int] /\ reversed' \in SUBSET Positions
        /\ rank' \in [nodes -> Int]
    BY <1>1, <1>2 DEF Shape
  <2> QED  BY <1>1, <1>2, <1>4, <2>1, ShapeStays
<1>6. OrigsDiffer' /\ RoomGiven'
  BY <1>1, <1>2, <1>5, EdgesKeepRoom
<1>7. ASSUME NEW k \in Positions, Span(k) >= 0 PROVE Span(k)' = Span(k)
  <2>1. /\ rank[Source(k)] \in Int /\ rank[Target(k)] \in Int
        /\ Span(k) = rank[Target(k)] - rank[Source(k)]
    BY <1>2, ShapeEnds DEF Span
  <2>2. k \in reversed' <=> k \in reversed
    <3>1. CASE k \in reversed
      BY <1>1, <3>1
    <3>2. CASE k \notin reversed
      <4>1. Source(k) = edges[k].from /\ Target(k) = edges[k].to
        BY <3>2 DEF Source, Target
      <4>2. ~(rank[edges[k].from] > rank[edges[k].to])
        BY <1>7, <2>1, <4>1
      <4> QED  BY <1>1, <3>2, <4>2
    <3> QED  BY <3>1, <3>2
  <2>3. Source(k)' = Source(k) /\ Target(k)' = Target(k)
    BY <1>1, <2>2 DEF Source, Target
  <2> QED  BY <1>1, <2>3 DEF Span
<1>8. ScaffoldKept'
  <2>1. /\ excluded \in SUBSET (Positions \ Given)
        /\ \A k \in (Positions \ Given) \ excluded : Span(k) = 1
    BY <1>2 DEF ScaffoldKept
  <2>2. excluded' \in SUBSET (Positions' \ Given')
    BY <1>1, <1>5, <2>1
  <2>3. \A k \in (Positions' \ Given') \ excluded' : Span(k)' = 1
    BY <1>1, <1>5, <1>7, <2>1
  <2> QED  BY <2>2, <2>3 DEF ScaffoldKept, BeforeRanking
<1>9. Steps'
  <2> SUFFICES ASSUME missed = {}, NEW k \in Given
               PROVE  /\ minlen[k] >= 0 => Span(k)' >= 0
                      /\ minlen[k] > 0 => Span(k)' >= 1
                      /\ minlen[k] >= 2 * factor => Span(k)' >= 2
    BY <1>1, <1>5 DEF Steps
  <2>1. k \in Positions
    BY DEF Given
  <2>2. minlen[k] \in Int /\ factor \in Nat \ {0}
    BY <1>2, <2>1 DEF Shape
  <2>3. /\ minlen[k] >= 0 => Span(k) >= 0
        /\ minlen[k] > 0 => Span(k) >= 1
        /\ minlen[k] >= 2 * factor => Span(k) >= 2
    BY <1>2 DEF Steps
  <2>4. CASE minlen[k] >= 0
    BY <1>7, <2>1, <2>3, <2>4
  <2>5. CASE ~(minlen[k] >= 0)
    BY <2>2, <2>5
  <2> QED  BY <2>4, <2>5
<1>10. ChainsInv'
  <2>1. EdgeCount' \in Nat
    BY <1>1, <1>2 DEF Shape, EdgeCount
  <2>2. (EdgeCount \in Nat /\ chained = 0 /\ chains = <<>> /\ segments = <<>>)'
    BY <1>1, <1>2, <2>1
  <2> QED  BY <2>2, ChainsStart, PTL
<1>11. stage' \notin BeforeRanking
  BY DEF BeforeRanking
<1> QED  BY <1>1, <1>2, <1>3, <1>5, <1>6, <1>8, <1>9, <1>10, <1>11 DEF ChainsIInv, UpToChains
-----------------------------------------------------------------------------
(* normalize::run, edge by edge.                                           *)

\* An edge of one rank is passed.
LEMMA KeepEdgeKeepsChains ==
  ASSUME ChainsIInv, KeepEdge
  PROVE  ChainsIInv'
<1>1. /\ stage = "chains" /\ stage' = "chains" /\ chained < EdgeCount /\ chained' = chained + 1
      /\ ~Long(chained + 1)
      /\ UNCHANGED <<nodes, edges, reversed, config, parents, titled, unplaced, minlen, weight,
                     rank, missed, borders, excluded, factor, labels, segments, chains>>
  BY DEF KeepEdge, graphVars, compoundVars, simplexVars, treeVars, nestingVars
<1>2. /\ Shape /\ OrigsDiffer /\ ScaffoldKept /\ RoomGiven /\ Steps /\ ChainsInv
      /\ titled \in SUBSET Int /\ IsFiniteSet(titled)
  BY <1>1 DEF ChainsIInv, UpToChains, BeforeRanking
<1>3. ~FrameUp /\ ~FrameUp'
  BY <1>1 DEF FrameUp
<1>4. Scaffold' = Scaffold /\ EdgeCount' = EdgeCount
  BY <1>1, <1>3, GivenStays
<1>5. Shape' /\ Positions' = Positions /\ Given' = Given
  <2>1. weight' \in [Positions -> Int] /\ reversed' \in SUBSET Positions
        /\ rank' \in [nodes -> Int]
    BY <1>1, <1>2 DEF Shape
  <2> QED  BY <1>1, <1>2, <1>4, <2>1, ShapeStays
<1>6. OrigsDiffer' /\ RoomGiven'
  BY <1>1, <1>2, <1>5, EdgesKeepRoom
<1>7. \A k : Source(k)' = Source(k) /\ Target(k)' = Target(k) /\ Span(k)' = Span(k)
  BY <1>1 DEF Source, Target, Span
<1>8. ScaffoldKept' /\ Steps'
  BY <1>1, <1>2, <1>5, <1>7 DEF ScaffoldKept, Steps, BeforeRanking
<1>9. Passed' = Passed /\ chained' \in 0..EdgeCount
  <2>1. \A k : Long(k)' <=> Long(k)
    BY <1>1, <1>7 DEF Long
  <2>2. EdgeCount \in Nat /\ chained \in 0..EdgeCount
    BY <1>2 DEF ChainsInv, Shape, EdgeCount
  <2>3. 1..chained' = (1..chained) \union {chained + 1} /\ chained' \in 0..EdgeCount
    BY <1>1, <2>2
  <2>4. \A k : k \in Passed' <=> k \in Passed
    BY <1>1, <2>1, <2>3 DEF Passed
  <2> QED  BY <2>3, <2>4
<1>10. ChainsInv'
  <2>1. Dummies' = Dummies
    BY <1>1 DEF Dummies
  <2>2. DummiesApart'
    BY <1>1, <1>2, <1>4, <1>5, <2>1 DEF ChainsInv, DummiesApart
  <2>3. LinksOnChains'
    <3>1. \A s, k : OnChain(s, k)' <=> OnChain(s, k)
      BY <1>1, <1>7, <2>1 DEF OnChain
    <3> QED  BY <1>1, <1>2, <1>9, <3>1 DEF ChainsInv, LinksOnChains
  <2>4. ChainsComplete'
    <3>1. \A i, k, r : DownFrom(i, k, r)' <=> DownFrom(i, k, r)
      BY <1>1, <1>7 DEF DownFrom
    <3> QED  BY <1>1, <1>2, <1>7, <1>9, <3>1 DEF ChainsInv, ChainsComplete
  <2>5. DummiesPassedOnce'
    BY <1>1, <1>2, <2>1 DEF ChainsInv, DummiesPassedOnce
  <2>6. LabelsPlaced'
    BY <1>1, <1>2, <1>9 DEF ChainsInv, LabelsPlaced, HasLabelDummy
  <2>7. /\ chains' \in Seq(ChainsOver(nodes'))
        /\ segments' \in Seq([from : nodes', to : nodes', orig : Int, reversed : BOOLEAN])
    BY <1>1, <1>2 DEF ChainsInv
  <2> QED  BY <1>4, <1>9, <2>2, <2>3, <2>4, <2>5, <2>6, <2>7 DEF ChainsInv
<1>11. stage' \notin BeforeRanking
  BY <1>1 DEF BeforeRanking
<1> QED  BY <1>1, <1>2, <1>3, <1>5, <1>6, <1>8, <1>10, <1>11 DEF ChainsIInv, UpToChains

IsWay(way, s, d, m, t) ==
  way[1] = s /\ way[m + 2] = t /\ \A i \in 1..m : way[i + 1] = d[i]

\* A way from s to t.
LEMMA WayFacts ==
  ASSUME NEW S, NEW s \in S, NEW t \in S, NEW m \in Nat, NEW d \in [1..m -> S]
  PROVE  \E way \in [1..(m + 2) -> S] : way = <<s>> \o d \o <<t>> /\ IsWay(way, s, d, m, t)
<1>1. PICK a \in Seq(S), b \in Seq(S), c \in Seq(S) :
        /\ a = <<s>> /\ Len(a) = 1 /\ a[1] = s
        /\ b = d /\ Len(b) = m
        /\ c = <<t>> /\ Len(c) = 1 /\ c[1] = t
  <2>1. <<s>> \in Seq(S) /\ Len(<<s>>) = 1 /\ <<s>>[1] = s
    OBVIOUS
  <2>2. <<t>> \in Seq(S) /\ Len(<<t>>) = 1 /\ <<t>>[1] = t
    OBVIOUS
  <2>3. d \in Seq(S) /\ Len(d) = m
    OBVIOUS
  <2> QED  BY <2>1, <2>2, <2>3, Zenon
<1>2. PICK ab \in Seq(S) :
        /\ ab = a \o b /\ Len(ab) = m + 1
        /\ ab[1] = s
        /\ \A i \in 1..m : ab[i + 1] = d[i]
  <2>1. /\ a \o b \in Seq(S) /\ Len(a \o b) = Len(a) + Len(b)
        /\ \A i \in 1..Len(a) : (a \o b)[i] = a[i]
        /\ \A i \in 1..Len(b) : (a \o b)[Len(a) + i] = b[i]
    BY Concatenated
  <2>2. Len(a) + Len(b) = m + 1 /\ \A i \in 1..m : Len(a) + i = i + 1
    BY <1>1
  <2>3. (a \o b)[1] = s
    BY <1>1, <2>1
  <2>4. \A i \in 1..m : (a \o b)[i + 1] = d[i]
    BY <1>1, <2>1, <2>2
  <2> QED  BY <2>1, <2>2, <2>3, <2>4
<1>3. PICK w \in Seq(S) :
        /\ w = ab \o c /\ Len(w) = m + 2
        /\ w[1] = s /\ w[m + 2] = t
        /\ \A i \in 1..m : w[i + 1] = d[i]
  <2>1. /\ ab \o c \in Seq(S) /\ Len(ab \o c) = Len(ab) + Len(c)
        /\ \A i \in 1..Len(ab) : (ab \o c)[i] = ab[i]
        /\ \A i \in 1..Len(c) : (ab \o c)[Len(ab) + i] = c[i]
    BY Concatenated
  <2>2. Len(ab) + Len(c) = m + 2 /\ Len(ab) + 1 = m + 2 /\ 1 \in 1..Len(ab) /\ 1 \in 1..Len(c)
        /\ \A i \in 1..m : i + 1 \in 1..Len(ab)
    BY <1>1, <1>2
  <2>3. (ab \o c)[m + 2] = t
    BY <1>1, <2>1, <2>2
  <2> QED  BY <1>2, <2>1, <2>2, <2>3
<1>4. w \in [1..(m + 2) -> S]
  <2>1. w \in [1..Len(w) -> S]
    OBVIOUS
  <2> QED  BY <1>3, <2>1
<1>5. w = <<s>> \o d \o <<t>>
  BY <1>1, <1>2, <1>3
<1>6. IsWay(w, s, d, m, t)
  BY <1>3 DEF IsWay
<1> QED  BY <1>4, <1>5, <1>6

\* The step that replaces k by a chain through m new nodes, along a path.
ChainLaid(k, m, path) ==
  /\ k = chained + 1 /\ k \in Positions /\ Long(k) /\ chained' = k
  /\ rank[Target(k)] = rank[Source(k)] + m + 1
  /\ nodes' = 1..(NodeCount + m) /\ NodeCount' = NodeCount + m
  /\ path[1] = Source(k) /\ path[m + 2] = Target(k)
  /\ \A i \in 1..m : path[i + 1] = NodeCount + i
  /\ parents' \in [nodes' -> Int]
  /\ rank' \in [nodes' -> Int] /\ \A v \in nodes : rank'[v] = rank[v]
  /\ \A i \in 1..(m + 2) : rank'[path[i]] = rank[Source(k)] + i - 1
  /\ chains' \in Seq(ChainsOver(nodes'))
  /\ \A i \in DOMAIN chains : i \in DOMAIN chains' /\ chains'[i] = chains[i]
  /\ Dummies' = Dummies \union ((NodeCount + 1)..(NodeCount + m))
  /\ edges[k].orig \in labels => HasLabelDummy(edges[k].orig)'
  /\ segments' \in Seq([from : nodes', to : nodes', orig : Int, reversed : BOOLEAN])
  /\ Len(segments') = Len(segments) + m + 1
  /\ \A i \in DOMAIN segments : i \in DOMAIN segments' /\ segments'[i] = segments[i]
  /\ \A i \in 1..(m + 1) :
       segments'[Len(segments) + i] = [from |-> path[i], to |-> path[i + 1],
                                       orig |-> edges[k].orig, reversed |-> k \in reversed]

\* What the middle of the span is, counted from its upper end.
LEMMA LabelRankWithin ==
  ASSUME NEW low \in Int, NEW m \in Nat \ {0}
  PROVE  LabelRank(low, low + m + 1) - low \in 1..m
<1>1. (low + (low + m + 1)) \div 2 = low + ((m + 1) \div 2)
  OBVIOUS
<1>2. (m + 1) \div 2 \in 1..m
  OBVIOUS
<1> QED  BY <1>1, <1>2 DEF LabelRank

\* One more chain, with these nodes.
LEMMA ChainAppended ==
  ASSUME NEW N, NEW M, NEW old \in Seq(ChainsOver(N)), N \subseteq M, NEW c \in ChainsOver(M)
  PROVE  /\ Append(old, c) \in Seq(ChainsOver(M))
         /\ Len(Append(old, c)) = Len(old) + 1
         /\ DOMAIN Append(old, c) = DOMAIN old \union {Len(old) + 1}
         /\ \A i \in DOMAIN old : Append(old, c)[i] = old[i]
         /\ Append(old, c)[Len(old) + 1] = c
<1> DEFINE A == ChainsOver(N)
           B == ChainsOver(M)
<1>1. A \subseteq B
  <2>1. Seq(N) \subseteq Seq(M)
    OBVIOUS
  <2> QED  BY <2>1 DEF ChainsOver
<1> HIDE DEF A, B
<1>2. old \in Seq(A) /\ c \in B
  BY DEF A, B
<1>3. old \in Seq(B)
  BY <1>1, <1>2
<1>4. /\ Append(old, c) \in Seq(B)
      /\ Len(Append(old, c)) = Len(old) + 1
      /\ DOMAIN Append(old, c) = DOMAIN old \union {Len(old) + 1}
      /\ \A i \in DOMAIN old : Append(old, c)[i] = old[i]
      /\ Append(old, c)[Len(old) + 1] = c
  BY <1>2, <1>3
<1> QED  BY <1>4 DEF B

\* An edge longer than one rank becomes such a chain.
LEMMA BreakLays ==
  ASSUME Shape, ChainsInv, BreakEdge
  PROVE  \E k \in Positions : \E m \in Nat \ {0} : \E path \in [1..(m + 2) -> nodes'] :
           ChainLaid(k, m, path)
<1>1. chained + 1 \in Positions
  <2>1. Positions = 1..EdgeCount /\ EdgeCount \in Nat
    BY DEF Shape, Positions, EdgeCount
  <2> QED  BY <2>1 DEF ChainsInv, BreakEdge
<1>2. PICK k \in Positions : k = chained + 1
  BY <1>1
<1> DEFINE low == rank[Source(k)]
           high == rank[Target(k)]
           first == NodeCount + 1
           m == high - low - 1
           d == [i \in 1..m |-> first + i - 1]
           path == PathThrough(k, d)
           more == [i \in 1..(Len(path) - 1) |->
                      [from |-> path[i], to |-> path[i + 1], orig |-> edges[k].orig,
                       reversed |-> k \in reversed]]
           chain == [orig |-> edges[k].orig, from |-> edges[k].from, to |-> edges[k].to,
                     reversed |-> k \in reversed, dummies |-> d,
                     label |-> IF edges[k].orig \in labels THEN LabelRank(low, high) - low ELSE 0]
<1>3. /\ Long(k)
      /\ nodes' = nodes \union ToSet(d)
      /\ parents' = [v \in nodes' |-> IF v \in nodes THEN parents[v] ELSE 0]
      /\ rank' = [v \in nodes' |-> IF v \in nodes THEN rank[v] ELSE low + 1 + (v - first)]
      /\ chains' = Append(chains, chain)
      /\ segments' = segments \o more
      /\ chained' = k
      /\ UNCHANGED <<edges, reversed, labels>>
  BY <1>2 DEF BreakEdge
<1> HIDE DEF path, more, chain
<1>4. /\ NodeCount \in Nat /\ nodes = 1..NodeCount /\ parents \in [nodes -> Int]
      /\ rank \in [nodes -> Int]
      /\ Source(k) \in nodes /\ Target(k) \in nodes /\ low \in Int /\ high \in Int
      /\ edges[k].from \in nodes /\ edges[k].to \in nodes /\ edges[k].orig \in Int
  BY ShapeEnds DEF Shape
<1>5. m \in Nat \ {0} /\ high = low + m + 1
  <2>1. high > low + 1
    BY <1>3 DEF Long
  <2>2. low \in Int /\ high \in Int
    BY <1>4
  <2> HIDE DEF low, high
  <2> QED  BY <2>1, <2>2
<1> HIDE DEF low, high, m
<1>6. /\ d \in Seq(Nat) /\ d \in [1..m -> (NodeCount + 1)..(NodeCount + m)] /\ DOMAIN d = 1..m
      /\ \A i \in 1..m : d[i] = NodeCount + i
  BY <1>4, <1>5
<1> HIDE DEF d
<1>7. ToSet(d) = (NodeCount + 1)..(NodeCount + m)
  <2>1. ToSet(d) = {d[i] : i \in 1..m}
    BY <1>6 DEF ToSet
  <2>2. \A v \in (NodeCount + 1)..(NodeCount + m) : v - NodeCount \in 1..m /\ d[v - NodeCount] = v
    BY <1>4, <1>5, <1>6
  <2> QED  BY <1>6, <2>1, <2>2
<1>8. nodes' = 1..(NodeCount + m) /\ nodes \subseteq nodes'
  <2>1. nodes' = nodes \union ((NodeCount + 1)..(NodeCount + m))
    BY <1>3, <1>7
  <2> QED  BY <1>4, <1>5, <2>1
<1>9. NodeCount' = NodeCount + m /\ d \in [1..m -> nodes']
  <2>1. (NodeCount + 1)..(NodeCount + m) \subseteq nodes'
    BY <1>4, <1>8
  <2>2. Cardinality(1..(NodeCount + m)) = NodeCount + m
    BY <1>4, <1>5, FS_Interval
  <2> QED  BY <1>6, <1>8, <2>2, <2>1 DEF NodeCount
<1>10. /\ path \in [1..(m + 2) -> nodes'] /\ path[1] = Source(k) /\ path[m + 2] = Target(k)
       /\ \A i \in 1..m : path[i + 1] = NodeCount + i
  <2>1. PICK s \in nodes', t \in nodes' : s = Source(k) /\ t = Target(k)
    BY <1>4, <1>8
  <2>2. d \in [1..m -> nodes'] /\ m \in Nat
    BY <1>5, <1>9
  <2>3. PICK way \in [1..(m + 2) -> nodes'] :
          way = <<s>> \o d \o <<t>> /\ IsWay(way, s, d, m, t)
    BY <2>2, WayFacts, Zenon
  <2>4. path = <<s>> \o d \o <<t>>
    BY <2>1 DEF path, PathThrough
  <2> QED  BY <1>6, <2>1, <2>3, <2>4 DEF IsWay
<1>11. /\ parents' \in [nodes' -> Int] /\ rank' \in [nodes' -> Int]
       /\ \A v \in nodes : rank'[v] = rank[v]
       /\ \A i \in 1..m : rank'[NodeCount + i] = low + i
  <2>1. \A v \in nodes : parents[v] \in Int /\ rank[v] \in Int
    BY <1>4
  <2>2. \A v \in nodes' : low + 1 + (v - first) \in Int
    BY <1>4, <1>8
  <2>3. \A i \in 1..m : NodeCount + i \in nodes' /\ NodeCount + i \notin nodes
    BY <1>4, <1>5, <1>8
  <2>4. \A i \in 1..m : low + 1 + ((NodeCount + i) - first) = low + i
    BY <1>4, <1>5
  <2> HIDE DEF first
  <2> QED  BY <1>3, <1>8, <2>1, <2>2, <2>3, <2>4
<1>12. \A i \in 1..(m + 2) : rank'[path[i]] = low + i - 1
  <2> SUFFICES ASSUME NEW i \in 1..(m + 2) PROVE rank'[path[i]] = low + i - 1
    OBVIOUS
  <2>1. CASE i = 1
    BY <1>4, <1>10, <1>11, <2>1 DEF low
  <2>2. CASE i = m + 2
    BY <1>4, <1>5, <1>10, <1>11, <2>2 DEF high
  <2>3. CASE i # 1 /\ i # m + 2
    <3>1. PICK j \in 1..m : i = j + 1
      <4>1. i - 1 \in 1..m /\ i = (i - 1) + 1
        BY <1>5, <2>3
      <4> QED  BY <4>1
    <3> QED  BY <1>4, <1>5, <1>10, <1>11, <3>1
  <2> QED  BY <2>1, <2>2, <2>3
<1>13. /\ chains' \in Seq(ChainsOver(nodes'))
       /\ DOMAIN chains' = DOMAIN chains \union {Len(chains) + 1}
       /\ \A i \in DOMAIN chains : chains'[i] = chains[i]
       /\ chains'[Len(chains) + 1] = chain
  <2>1. chain \in ChainsOver(nodes')
    <3>1. d \in Seq(nodes')
      BY <1>5, <1>9
    <3>2. (IF edges[k].orig \in labels THEN LabelRank(low, high) - low ELSE 0) \in Int
      <4>1. LabelRank(low, high) - low \in 1..m
        BY <1>4, <1>5, LabelRankWithin
      <4> QED  BY <4>1
    <3>3. edges[k].from \in nodes' /\ edges[k].to \in nodes'
      BY <1>4, <1>8
    <3> QED  BY <1>4, <3>1, <3>2, <3>3 DEF chain, ChainsOver
  <2>2. chains \in Seq(ChainsOver(nodes))
    BY DEF ChainsInv
  <2>3. PICK M : M = nodes'
    OBVIOUS
  <2>4. nodes \subseteq M /\ chain \in ChainsOver(M)
    BY <1>8, <2>1, <2>3
  <2>5. /\ Append(chains, chain) \in Seq(ChainsOver(M))
        /\ DOMAIN Append(chains, chain) = DOMAIN chains \union {Len(chains) + 1}
        /\ \A i \in DOMAIN chains : Append(chains, chain)[i] = chains[i]
        /\ Append(chains, chain)[Len(chains) + 1] = chain
    BY <2>2, <2>4, ChainAppended
  <2> QED  BY <1>3, <2>3, <2>5
<1>14. chain.dummies = d /\ chain.orig = edges[k].orig
       /\ chain.label = IF edges[k].orig \in labels THEN LabelRank(low, high) - low ELSE 0
  BY DEF chain
<1>15. Dummies' = Dummies \union ((NodeCount + 1)..(NodeCount + m))
  <2> DEFINE old(i) == ToSet(chains[i].dummies)
             new(i) == ToSet(chains'[i].dummies)
  <2>1. Dummies = UNION {old(i) : i \in DOMAIN chains}
    BY DEF Dummies
  <2>2. Dummies' = UNION {new(i) : i \in DOMAIN chains'}
    BY DEF Dummies
  <2>3. \A i \in DOMAIN chains : new(i) = old(i)
    BY <1>13
  <2>4. new(Len(chains) + 1) = (NodeCount + 1)..(NodeCount + m)
    BY <1>7, <1>13, <1>14
  <2> HIDE DEF old, new
  <2> QED  BY <1>13, <2>1, <2>2, <2>3, <2>4
<1>16. edges[k].orig \in labels => HasLabelDummy(edges[k].orig)'
  <2> SUFFICES ASSUME edges[k].orig \in labels PROVE HasLabelDummy(edges[k].orig)'
    OBVIOUS
  <2>1. chain.label \in DOMAIN chain.dummies
    BY <1>4, <1>5, <1>6, <1>14, LabelRankWithin
  <2>2. edges'[k].orig = edges[k].orig
    BY <1>3
  <2> QED  BY <1>13, <1>14, <2>1, <2>2 DEF HasLabelDummy
<1>17. /\ more \in Seq([from : nodes', to : nodes', orig : Int, reversed : BOOLEAN])
       /\ Len(more) = m + 1
       /\ \A i \in 1..(m + 1) :
            more[i] = [from |-> path[i], to |-> path[i + 1], orig |-> edges[k].orig,
                       reversed |-> k \in reversed]
  <2> DEFINE F == [from : nodes', to : nodes', orig : Int, reversed : BOOLEAN]
             entry(i) == [from |-> path[i], to |-> path[i + 1], orig |-> edges[k].orig,
                          reversed |-> k \in reversed]
  <2>1. Len(path) - 1 = m + 1 /\ m + 1 \in Nat
    BY <1>5, <1>10
  <2>2. \A i \in 1..(m + 1) : path[i] \in nodes' /\ path[i + 1] \in nodes'
    BY <1>5, <1>10
  <2>3. ASSUME NEW i \in 1..(m + 1) PROVE entry(i) \in F
    <3>1. PICK o \in Int : o = edges[k].orig
      BY <1>4
    <3>2. (k \in reversed) \in BOOLEAN
      OBVIOUS
    <3>3. PICK x \in nodes', y \in nodes' : x = path[i] /\ y = path[i + 1]
      BY <2>2
    <3> QED  BY <3>1, <3>3, <3>2
  <2>4. more = [i \in 1..(m + 1) |-> entry(i)]
    BY <2>1 DEF more
  <2> HIDE DEF F, entry
  <2>5. more \in Seq(F) /\ Len(more) = m + 1 /\ \A i \in 1..(m + 1) : more[i] = entry(i)
    BY <2>1, <2>3, <2>4
  <2> QED  BY <2>5 DEF F, entry
<1>18. /\ segments' \in Seq([from : nodes', to : nodes', orig : Int, reversed : BOOLEAN])
       /\ Len(segments') = Len(segments) + m + 1
       /\ \A i \in DOMAIN segments : i \in DOMAIN segments' /\ segments'[i] = segments[i]
       /\ \A i \in 1..(m + 1) : segments'[Len(segments) + i] = more[i]
  <2> DEFINE E == [from : nodes, to : nodes, orig : Int, reversed : BOOLEAN]
             F == [from : nodes', to : nodes', orig : Int, reversed : BOOLEAN]
  <2>1. segments \in Seq(E) /\ E \subseteq F
    BY <1>8 DEF ChainsInv
  <2>2. more \in Seq(F)
    BY <1>17
  <2> HIDE DEF E, F
  <2>3. segments \in Seq(F)
    BY <2>1
  <2>4. PICK s \in Seq(F), t \in Seq(F) : s = segments /\ t = more
    BY <2>2, <2>3
  <2>5. /\ s \o t \in Seq(F) /\ Len(s \o t) = Len(s) + Len(t)
        /\ \A i \in 1..Len(s) : (s \o t)[i] = s[i]
        /\ \A i \in 1..Len(t) : (s \o t)[Len(s) + i] = t[i]
    BY Concatenated
  <2>6. Len(t) = m + 1 /\ Len(s) \in Nat /\ segments' = s \o t /\ Len(s) = Len(segments)
        /\ m \in Nat
    BY <1>3, <1>5, <1>17, <2>4
  <2>7. Len(segments') = Len(segments) + m + 1
    BY <2>5, <2>6
  <2>8. DOMAIN s = 1..Len(s) /\ DOMAIN (s \o t) = 1..(Len(s) + m + 1)
    BY <2>5, <2>6
  <2>9. \A i \in DOMAIN segments : i \in DOMAIN segments' /\ segments'[i] = segments[i]
    BY <2>4, <2>5, <2>6, <2>8
  <2>10. segments' \in Seq(F)
    BY <2>5, <2>6
  <2> QED  BY <2>4, <2>5, <2>6, <2>7, <2>9, <2>10 DEF F
<1>19. /\ rank[Target(k)] = rank[Source(k)] + m + 1
       /\ \A i \in 1..(m + 2) : rank'[path[i]] = rank[Source(k)] + i - 1
  BY <1>5, <1>12 DEF low, high
<1>20. \A i \in DOMAIN chains : i \in DOMAIN chains' /\ chains'[i] = chains[i]
  BY <1>13
<1>21. \A i \in 1..(m + 1) :
         segments'[Len(segments) + i] = [from |-> path[i], to |-> path[i + 1],
                                         orig |-> edges[k].orig, reversed |-> k \in reversed]
  BY <1>17, <1>18
<1>22. ChainLaid(k, m, path)
  BY <1>2, <1>3, <1>8, <1>9, <1>10, <1>11, <1>13, <1>15, <1>16, <1>18, <1>19, <1>20, <1>21
     DEF ChainLaid
<1> QED  BY <1>5, <1>10, <1>22, Zenon

\* Only edges of the graph are long.
LEMMA LongAreGiven ==
  ASSUME Shape, ScaffoldKept, stage = "chains", NEW k \in Positions, Long(k)
  PROVE  k \in Given
<1>1. k \notin excluded /\ rank[Target(k)] > rank[Source(k)] + 1
  BY DEF Long
<1>2. rank[Target(k)] \in Int /\ rank[Source(k)] \in Int
  BY ShapeEnds
<1>3. Span(k) # 1
  BY <1>1, <1>2 DEF Span
<1>4. \A j \in (Positions \ Given) \ excluded : Span(j) = 1
  BY DEF ScaffoldKept
<1> QED  BY <1>1, <1>3, <1>4

\* Such a step, from a state of the loop.
Laying(k, m, path) ==
  /\ Shape /\ OrigsDiffer /\ ScaffoldKept /\ ChainsInv
  /\ stage = "chains" /\ BreakEdge /\ ChainLaid(k, m, path)

\* What laying a chain leaves as it was.
LEMMA LaidGround ==
  ASSUME NEW k \in Positions, NEW m \in Nat \ {0}, NEW path, Laying(k, m, path)
  PROVE  /\ k \in Given /\ k \notin Passed /\ Passed \in SUBSET Given
         /\ Passed' = Passed \union {k} /\ chained' \in 0..EdgeCount'
         /\ Positions' = Positions /\ Scaffold' = Scaffold /\ Given' = Given
         /\ nodes \subseteq nodes'
         /\ \A j \in Positions : /\ Source(j)' = Source(j) /\ Target(j)' = Target(j)
                                 /\ rank'[Source(j)] = rank[Source(j)]
                                 /\ rank'[Target(j)] = rank[Target(j)]
                                 /\ Span(j)' = Span(j)
<1> USE DEF Laying
<1>1. /\ stage' = "chains" /\ chained < EdgeCount
      /\ UNCHANGED <<edges, reversed, unplaced, borders, excluded>>
  BY DEF BreakEdge, nestingVars
<1>2. /\ k = chained + 1 /\ Long(k) /\ chained' = k
      /\ nodes' = 1..(NodeCount + m) /\ \A v \in nodes : rank'[v] = rank[v]
  BY DEF ChainLaid
<1>3. nodes \subseteq nodes'
  BY <1>2 DEF Shape
<1>4. Positions' = Positions /\ Scaffold' = Scaffold /\ Given' = Given /\ EdgeCount' = EdgeCount
  <2>1. ~FrameUp /\ ~FrameUp'
    BY <1>1 DEF FrameUp
  <2>2. Added' = Added
    BY <1>1 DEF Added
  <2>3. Scaffold' = Scaffold
    BY <2>1, <2>2 DEF Scaffold
  <2>4. Positions' = Positions /\ EdgeCount' = EdgeCount
    BY <1>1 DEF Positions, EdgeCount
  <2> QED  BY <1>1, <2>3, <2>4 DEF Given
<1>5. ASSUME NEW j \in Positions
      PROVE  /\ Source(j)' = Source(j) /\ Target(j)' = Target(j)
             /\ rank'[Source(j)] = rank[Source(j)] /\ rank'[Target(j)] = rank[Target(j)]
             /\ Span(j)' = Span(j) /\ (Long(j)' <=> Long(j))
  <2>1. Source(j)' = Source(j) /\ Target(j)' = Target(j)
    BY <1>1 DEF Source, Target
  <2>2. Source(j) \in nodes /\ Target(j) \in nodes
    BY ShapeEnds
  <2>3. rank'[Source(j)] = rank[Source(j)] /\ rank'[Target(j)] = rank[Target(j)]
    BY <1>2, <2>2
  <2> QED  BY <1>1, <2>1, <2>3 DEF Span, Long
<1>6. EdgeCount \in Nat /\ Positions = 1..EdgeCount /\ chained \in 0..EdgeCount
  BY DEF Shape, Positions, EdgeCount, ChainsInv
<1>7. 1..chained \in SUBSET Positions /\ 1..chained' = (1..chained) \union {k} /\ k \notin 1..chained
  BY <1>1, <1>2, <1>6
<1>8. k \notin Passed /\ Passed \in SUBSET Given /\ k \in Given
  <2>1. Passed \in SUBSET Positions /\ \A j \in Passed : Long(j)
    BY <1>7 DEF Passed
  <2> QED  BY <1>2, <1>7, <2>1, LongAreGiven DEF Passed
<1>9. \A j : j \in Passed' <=> j \in Passed \/ j = k
  BY <1>2, <1>5, <1>7 DEF Passed
<1>10. Passed' = Passed \union {k}
  BY <1>9
<1>11. chained' \in 0..EdgeCount'
  BY <1>1, <1>2, <1>4, <1>6
<1> QED  BY <1>3, <1>4, <1>5, <1>8, <1>10, <1>11

\* The chain leads from rank to rank, through new nodes only.
LEMMA LaidLinks ==
  ASSUME NEW k \in Positions, NEW m \in Nat \ {0}, NEW path, Laying(k, m, path)
  PROVE  LET S == Len(segments)
             fresh == (NodeCount + 1)..(NodeCount + m)
         IN  /\ S \in Nat /\ DOMAIN segments = 1..S /\ DOMAIN segments' = 1..(S + m + 1)
             /\ nodes' = nodes \union fresh /\ nodes \intersect fresh = {}
             /\ Dummies' = Dummies \union fresh
             /\ Source(k) \in nodes /\ Target(k) \in nodes
             /\ rank[Source(k)] \in Int
             /\ rank[Target(k)] = rank[Source(k)] + m + 1
             /\ \A i \in 1..S : segments'[i] = segments[i]
             /\ \A x \in 1..(m + 1) :
                  /\ segments'[S + x].orig = edges[k].orig
                  /\ segments'[S + x].reversed = (k \in reversed)
                  /\ segments'[S + x].from = IF x = 1 THEN Source(k) ELSE NodeCount + x - 1
                  /\ segments'[S + x].to = IF x = m + 1 THEN Target(k) ELSE NodeCount + x
                  /\ rank'[segments'[S + x].from] = rank[Source(k)] + x - 1
                  /\ rank'[segments'[S + x].to] = rank[Source(k)] + x
<1> USE DEF Laying
<1> DEFINE S == Len(segments)
           fresh == (NodeCount + 1)..(NodeCount + m)
<1>1. /\ nodes' = 1..(NodeCount + m) /\ NodeCount \in Nat /\ nodes = 1..NodeCount
      /\ path[1] = Source(k) /\ path[m + 2] = Target(k)
      /\ \A i \in 1..m : path[i + 1] = NodeCount + i
      /\ Dummies' = Dummies \union fresh
      /\ rank[Target(k)] = rank[Source(k)] + m + 1
      /\ \A i \in 1..(m + 2) : rank'[path[i]] = rank[Source(k)] + i - 1
  BY DEF ChainLaid, Shape
<1>2. /\ segments' \in Seq([from : nodes', to : nodes', orig : Int, reversed : BOOLEAN])
      /\ Len(segments') = Len(segments) + m + 1
      /\ \A i \in DOMAIN segments : i \in DOMAIN segments' /\ segments'[i] = segments[i]
      /\ \A i \in 1..(m + 1) :
           segments'[Len(segments) + i] = [from |-> path[i], to |-> path[i + 1],
                                           orig |-> edges[k].orig, reversed |-> k \in reversed]
  BY DEF ChainLaid
<1>3. S \in Nat /\ DOMAIN segments = 1..S
  BY DEF ChainsInv
<1>4. DOMAIN segments' = 1..(S + m + 1)
  BY <1>2, <1>3
<1>5. nodes' = nodes \union fresh /\ nodes \intersect fresh = {}
  BY <1>1
<1>6. Source(k) \in nodes /\ Target(k) \in nodes /\ rank[Source(k)] \in Int
  BY ShapeEnds
<1>7. ASSUME NEW x \in 1..(m + 1)
      PROVE  /\ path[x] = IF x = 1 THEN Source(k) ELSE NodeCount + x - 1
             /\ path[x + 1] = IF x = m + 1 THEN Target(k) ELSE NodeCount + x
             /\ rank'[path[x]] = rank[Source(k)] + x - 1
             /\ rank'[path[x + 1]] = rank[Source(k)] + x
  <2>1. x \in 1..(m + 2) /\ x + 1 \in 1..(m + 2)
    OBVIOUS
  <2>2. rank'[path[x]] = rank[Source(k)] + x - 1 /\ rank'[path[x + 1]] = rank[Source(k)] + (x + 1) - 1
    BY <1>1, <2>1
  <2>3. path[x + 1] = IF x = m + 1 THEN Target(k) ELSE NodeCount + x
    <3>1. CASE x = m + 1
      <4>1. x + 1 = m + 2
        BY <3>1
      <4> QED  BY <1>1, <3>1, <4>1
    <3>2. CASE x # m + 1
      <4>1. x \in 1..m
        BY <3>2
      <4> QED  BY <1>1, <3>2, <4>1
    <3> QED  BY <3>1, <3>2
  <2>4. path[x] = IF x = 1 THEN Source(k) ELSE NodeCount + x - 1
    <3>1. CASE x = 1
      BY <1>1, <3>1
    <3>2. CASE x # 1
      <4>1. x - 1 \in 1..m /\ (x - 1) + 1 = x
        BY <3>2
      <4>2. path[x] = NodeCount + (x - 1)
        BY <1>1, <4>1
      <4> QED  BY <1>1, <3>2, <4>2
    <3> QED  BY <3>1, <3>2
  <2> QED  BY <1>6, <2>2, <2>3, <2>4
<1>8. ASSUME NEW x \in 1..(m + 1)
      PROVE  /\ segments'[S + x].orig = edges[k].orig
             /\ segments'[S + x].reversed = (k \in reversed)
             /\ segments'[S + x].from = path[x] /\ segments'[S + x].to = path[x + 1]
  <2>1. segments'[S + x] = [from |-> path[x], to |-> path[x + 1],
                            orig |-> edges[k].orig, reversed |-> k \in reversed]
    BY <1>2
  <2>2. PICK b \in BOOLEAN : b <=> k \in reversed
    OBVIOUS
  <2>3. segments'[S + x] = [from |-> path[x], to |-> path[x + 1],
                            orig |-> edges[k].orig, reversed |-> b]
    BY <2>1, <2>2
  <2>4. segments'[S + x].reversed = b
    BY <2>3
  <2>5. segments'[S + x].reversed = (k \in reversed)
    BY <2>2, <2>4
  <2> QED  BY <2>3, <2>5
<1> HIDE DEF S, fresh
<1>9. \A i \in 1..S : segments'[i] = segments[i]
  BY <1>2, <1>3
<1>10. \A x \in 1..(m + 1) :
         /\ segments'[S + x].orig = edges[k].orig
         /\ segments'[S + x].reversed = (k \in reversed)
         /\ segments'[S + x].from = IF x = 1 THEN Source(k) ELSE NodeCount + x - 1
         /\ segments'[S + x].to = IF x = m + 1 THEN Target(k) ELSE NodeCount + x
         /\ rank'[segments'[S + x].from] = rank[Source(k)] + x - 1
         /\ rank'[segments'[S + x].to] = rank[Source(k)] + x
  BY <1>7, <1>8
<1> QED  BY <1>1, <1>3, <1>4, <1>5, <1>6, <1>9, <1>10 DEF S, fresh

\* The new nodes are on no edge of the list.
LEMMA LaidApart ==
  ASSUME NEW k \in Positions, NEW m \in Nat \ {0}, NEW path, Laying(k, m, path)
  PROVE  DummiesApart'
<1> DEFINE fresh == (NodeCount + 1)..(NodeCount + m)
<1>1. /\ nodes' = nodes \union fresh /\ nodes \intersect fresh = {}
      /\ Dummies' = Dummies \union fresh
  BY LaidLinks
<1>2. Scaffold' = Scaffold /\ Positions' = Positions
  BY LaidGround
<1>3. Scaffold \in SUBSET nodes /\ DummiesApart
  BY DEF Laying, Shape, BordersKept, ChainsInv
<1>4. edges' = edges
  BY DEF Laying, BreakEdge
<1> HIDE DEF fresh
<1>5. Dummies' \in SUBSET (nodes' \ Scaffold')
  BY <1>1, <1>2, <1>3 DEF DummiesApart
<1>6. ASSUME NEW j \in Positions PROVE edges[j].from \notin Dummies' /\ edges[j].to \notin Dummies'
  <2>1. edges[j].from \in nodes /\ edges[j].to \in nodes
    BY ShapeEnds DEF Laying
  <2>2. edges[j].from \notin Dummies /\ edges[j].to \notin Dummies
    BY <1>3 DEF DummiesApart
  <2> QED  BY <1>1, <2>1, <2>2
<1> QED  BY <1>2, <1>4, <1>5, <1>6 DEF DummiesApart

\* Links stay on their chains.
LEMMA OnChainStays ==
  ASSUME nodes \subseteq nodes', Dummies \subseteq Dummies', UNCHANGED <<edges, reversed>>,
         \A v \in nodes : rank'[v] = rank[v],
         NEW j, NEW s, OnChain(s, j), Source(j)' = Source(j), Target(j)' = Target(j),
         rank'[Source(j)] = rank[Source(j)], rank'[Target(j)] = rank[Target(j)]
  PROVE  OnChain(s, j)'
<1>1. /\ s.orig = edges'[j].orig
      /\ s.from \in nodes' /\ s.to \in nodes'
      /\ rank'[s.from] = rank[s.from] /\ rank'[s.to] = rank[s.to]
  BY DEF OnChain
<1>2. s.reversed = (j \in reversed')
  BY DEF OnChain
<1>3. /\ rank'[s.to] = rank'[s.from] + 1
      /\ rank'[Source(j)] <= rank'[s.from] /\ rank'[s.to] <= rank'[Target(j)]
      /\ s.from = Source(j) \/ s.from \in Dummies'
      /\ s.to = Target(j) \/ s.to \in Dummies'
  BY <1>1 DEF OnChain
<1> QED  BY <1>1, <1>2, <1>3 DEF OnChain

\* The links of the new chain and those of the chains before are on chains.
LEMMA LaidOnChains ==
  ASSUME NEW k \in Positions, NEW m \in Nat \ {0}, NEW path, Laying(k, m, path)
  PROVE  LinksOnChains'
<1> DEFINE fresh == (NodeCount + 1)..(NodeCount + m)
<1>1. PICK S \in Nat : S = Len(segments)
  BY LaidLinks
<1>2. /\ DOMAIN segments = 1..S /\ DOMAIN segments' = 1..(S + m + 1)
      /\ nodes' = nodes \union fresh
      /\ Dummies' = Dummies \union fresh
      /\ Source(k) \in nodes /\ Target(k) \in nodes
      /\ rank[Source(k)] \in Int
      /\ rank[Target(k)] = rank[Source(k)] + m + 1
      /\ \A i \in 1..S : segments'[i] = segments[i]
      /\ \A x \in 1..(m + 1) :
           /\ segments'[S + x].orig = edges[k].orig
           /\ segments'[S + x].reversed = (k \in reversed)
           /\ segments'[S + x].from = IF x = 1 THEN Source(k) ELSE NodeCount + x - 1
           /\ segments'[S + x].to = IF x = m + 1 THEN Target(k) ELSE NodeCount + x
           /\ rank'[segments'[S + x].from] = rank[Source(k)] + x - 1
           /\ rank'[segments'[S + x].to] = rank[Source(k)] + x
  BY <1>1, LaidLinks
<1>3. /\ Passed' = Passed \union {k} /\ Passed \in SUBSET Given
      /\ \A j \in Positions : /\ Source(j)' = Source(j) /\ Target(j)' = Target(j)
                              /\ rank'[Source(j)] = rank[Source(j)]
                              /\ rank'[Target(j)] = rank[Target(j)]
  BY LaidGround
<1>4. Given \in SUBSET Positions /\ NodeCount \in Nat
  BY DEF Given, Laying, Shape
<1>5. edges' = edges /\ reversed' = reversed /\ \A v \in nodes : rank'[v] = rank[v]
  BY DEF Laying, BreakEdge, ChainLaid
<1>6. ASSUME NEW i \in 1..S
      PROVE  \E j \in Passed' : OnChain(segments[i], j)'
  <2>1. PICK j \in Passed : OnChain(segments[i], j)
    BY <1>2 DEF Laying, ChainsInv, LinksOnChains
  <2>2. j \in Positions
    BY <1>3, <1>4
  <2>3. PICK s : s = segments[i]
    OBVIOUS
  <2>4. OnChain(s, j)'
    BY <1>2, <1>3, <1>5, <2>1, <2>2, <2>3, OnChainStays
  <2>5. (segments[i])' = s
    BY <1>2, <2>3
  <2> QED  BY <1>3, <2>4, <2>5
<1>7. ASSUME NEW x \in 1..(m + 1)
      PROVE  OnChain(segments[S + x], k)'
  <2>1. PICK s : s = segments'[S + x]
    OBVIOUS
  <2>2. /\ s.orig = edges'[k].orig
        /\ s.from = IF x = 1 THEN Source(k) ELSE NodeCount + x - 1
        /\ s.to = IF x = m + 1 THEN Target(k) ELSE NodeCount + x
        /\ rank'[s.from] = rank[Source(k)] + x - 1
        /\ rank'[s.to] = rank[Source(k)] + x
    BY <1>2, <1>5, <2>1
  <2>3. s.reversed = (k \in reversed)
    BY <1>2, <2>1
  <2>4. s.from = Source(k) \/ s.from \in fresh
    BY <1>4, <2>2
  <2>5. s.to = Target(k) \/ s.to \in fresh
    BY <1>4, <2>2
  <2>6. /\ Source(k)' = Source(k) /\ Target(k)' = Target(k)
        /\ rank'[Source(k)] = rank[Source(k)] /\ rank'[Target(k)] = rank[Target(k)]
    BY <1>3
  <2> HIDE DEF fresh
  <2>7. /\ s.from \in nodes' /\ s.to \in nodes'
        /\ s.from = Source(k)' \/ s.from \in Dummies'
        /\ s.to = Target(k)' \/ s.to \in Dummies'
    BY <1>2, <2>4, <2>5, <2>6
  <2>8. /\ rank'[s.to] = rank'[s.from] + 1
        /\ rank'[Source(k)] <= rank'[s.from] /\ rank'[s.to] <= rank'[Target(k)]
    BY <1>2, <2>2, <2>6
  <2>9. s.reversed = (k \in reversed')
    BY <1>5, <2>3
  <2>10. OnChain(s, k)'
    BY <2>2, <2>6, <2>7, <2>8, <2>9 DEF OnChain
  <2> QED  BY <2>1, <2>10
<1>8. ASSUME NEW i \in 1..(S + m + 1) PROVE \E j \in Passed' : OnChain(segments[i], j)'
  <2>1. CASE i \in 1..S
    BY <1>6, <2>1
  <2>2. CASE i \notin 1..S
    <3>1. PICK x \in 1..(m + 1) : i = S + x
      <4>1. i - S \in 1..(m + 1) /\ i = S + (i - S)
        BY <2>2
      <4> QED  BY <4>1
    <3>2. OnChain(segments[i], k)'
      BY <1>7, <3>1
    <3> QED  BY <1>3, <3>2
  <2> QED  BY <2>1, <2>2
<1> QED  BY <1>2, <1>8 DEF LinksOnChains

\* The chain laid, in numbers: S links, N nodes and the edge leads down from rank low.
LaidAt(k, m, S, N, low) ==
  /\ DOMAIN segments = 1..S /\ DOMAIN segments' = 1..(S + m + 1)
  /\ Dummies' = Dummies \union ((N + 1)..(N + m))
  /\ nodes \intersect ((N + 1)..(N + m)) = {}
  /\ Source(k) \in nodes /\ Target(k) \in nodes
  /\ rank[Source(k)] = low /\ rank[Target(k)] = low + m + 1
  /\ \A i \in 1..S : segments'[i] = segments[i]
  /\ \A x \in 1..(m + 1) :
       /\ segments'[S + x].orig = edges[k].orig
       /\ segments'[S + x].from = IF x = 1 THEN Source(k) ELSE N + x - 1
       /\ segments'[S + x].to = IF x = m + 1 THEN Target(k) ELSE N + x
       /\ rank'[segments'[S + x].from] = low + x - 1

\* A chain laid can be put in numbers.
LEMMA LaidInNumbers ==
  ASSUME NEW k \in Positions, NEW m \in Nat \ {0}, NEW path, Laying(k, m, path)
  PROVE  \E S \in Nat, N \in Nat, low \in Int : LaidAt(k, m, S, N, low)
<1> DEFINE fresh == (NodeCount + 1)..(NodeCount + m)
<1>1. PICK S \in Nat : S = Len(segments)
  BY LaidLinks
<1>2. PICK N \in Nat : N = NodeCount
  BY DEF Laying, Shape
<1>3. PICK low \in Int : low = rank[Source(k)]
  BY LaidLinks
<1>4. /\ DOMAIN segments = 1..S /\ DOMAIN segments' = 1..(S + m + 1)
      /\ nodes' = nodes \union fresh
      /\ Dummies' = Dummies \union fresh
      /\ Source(k) \in nodes /\ Target(k) \in nodes
      /\ rank[Source(k)] \in Int
      /\ rank[Target(k)] = rank[Source(k)] + m + 1
      /\ \A i \in 1..S : segments'[i] = segments[i]
      /\ \A x \in 1..(m + 1) :
           /\ segments'[S + x].orig = edges[k].orig
           /\ segments'[S + x].reversed = (k \in reversed)
           /\ segments'[S + x].from = IF x = 1 THEN Source(k) ELSE NodeCount + x - 1
           /\ segments'[S + x].to = IF x = m + 1 THEN Target(k) ELSE NodeCount + x
           /\ rank'[segments'[S + x].from] = rank[Source(k)] + x - 1
           /\ rank'[segments'[S + x].to] = rank[Source(k)] + x
  BY <1>1, LaidLinks
<1>5. nodes \intersect fresh = {}
  BY LaidLinks
<1>6. LaidAt(k, m, S, N, low)
  BY <1>2, <1>3, <1>4, <1>5 DEF LaidAt
<1> QED  BY <1>6

\* The new chain is complete, and the chains before stay so.
LEMMA LaidComplete ==
  ASSUME NEW k \in Positions, NEW m \in Nat \ {0}, NEW path, Laying(k, m, path)
  PROVE  ChainsComplete'
<1>1. PICK S \in Nat, N \in Nat, low \in Int : LaidAt(k, m, S, N, low)
  BY LaidInNumbers
<1>2. low = rank[Source(k)]
  BY <1>1 DEF LaidAt
<1>3. /\ DOMAIN segments = 1..S /\ DOMAIN segments' = 1..(S + m + 1)
      /\ rank[Target(k)] = low + m + 1
      /\ \A i \in 1..S : segments'[i] = segments[i]
      /\ \A x \in 1..(m + 1) :
           /\ segments'[S + x].orig = edges[k].orig
           /\ segments'[S + x].from = IF x = 1 THEN Source(k) ELSE N + x - 1
           /\ segments'[S + x].to = IF x = m + 1 THEN Target(k) ELSE N + x
           /\ rank'[segments'[S + x].from] = low + x - 1
  BY <1>1 DEF LaidAt
<1>4. /\ Passed' = Passed \union {k} /\ Passed \in SUBSET Given /\ k \in Given /\ k \notin Passed
      /\ \A j \in Positions : /\ Source(j)' = Source(j) /\ Target(j)' = Target(j)
                              /\ rank'[Source(j)] = rank[Source(j)]
                              /\ rank'[Target(j)] = rank[Target(j)]
  BY LaidGround
<1>5. Given \in SUBSET Positions
  BY DEF Given
<1>6. edges' = edges /\ \A v \in nodes : rank'[v] = rank[v]
  BY DEF Laying, BreakEdge, ChainLaid
<1>7. OrigsDiffer /\ ChainsComplete /\ LinksOnChains
  BY DEF Laying, ChainsInv
<1>8. ASSUME NEW i \in 1..S
      PROVE  /\ segments'[i] = segments[i]
             /\ rank'[segments[i].from] = rank[segments[i].from]
             /\ segments[i].orig # edges[k].orig
  <2>1. PICK j \in Passed : OnChain(segments[i], j)
    BY <1>3, <1>7 DEF LinksOnChains
  <2>2. segments[i].from \in nodes /\ segments[i].orig = edges[j].orig
    BY <2>1 DEF OnChain
  <2>3. j \in Given /\ j # k
    BY <1>4
  <2>4. edges[j].orig # edges[k].orig
    BY <1>4, <1>7, <2>3 DEF OrigsDiffer
  <2> QED  BY <1>3, <1>6, <2>2, <2>4
<1>9. ASSUME NEW i \in (1..(S + m + 1)) \ (1..S)
      PROVE  \E x \in 1..(m + 1) : i = S + x
  <2>1. i - S \in 1..(m + 1) /\ i = S + (i - S)
    OBVIOUS
  <2> QED  BY <2>1
<1>10. ASSUME NEW j \in Passed, NEW r \in rank'[Source(j)]..(rank'[Target(j)] - 1)
       PROVE  \E i \in DOMAIN segments' : DownFrom(i, j, r)'
  <2>1. j \in Positions
    BY <1>4, <1>5
  <2>2. r \in rank[Source(j)]..(rank[Target(j)] - 1)
    BY <1>4, <2>1
  <2>3. PICK i \in 1..S : DownFrom(i, j, r)
    BY <1>3, <1>7, <2>2 DEF ChainsComplete
  <2>4. PICK s : s = segments[i]
    OBVIOUS
  <2>5. segments'[i] = s /\ rank'[s.from] = rank[s.from]
    BY <1>8, <2>4
  <2>6. /\ s.orig = edges[j].orig /\ rank[s.from] = r
        /\ r = rank[Source(j)] => s.from = Source(j)
        /\ r + 1 = rank[Target(j)] => s.to = Target(j)
    BY <2>3, <2>4 DEF DownFrom
  <2>7. DownFrom(i, j, r)'
    BY <1>4, <1>6, <2>1, <2>5, <2>6 DEF DownFrom
  <2>8. i \in DOMAIN segments'
    BY <1>3
  <2> QED  BY <2>7, <2>8
<1>11. ASSUME NEW r \in low..(low + m)
       PROVE  \E i \in DOMAIN segments' : DownFrom(i, k, r)'
  <2>1. PICK x \in 1..(m + 1) : x = r - low + 1
    OBVIOUS
  <2>2. PICK i \in 1..(S + m + 1) : i = S + x
    OBVIOUS
  <2>3. PICK s : s = segments'[i]
    OBVIOUS
  <2>4. /\ s.orig = edges[k].orig /\ rank'[s.from] = low + x - 1
        /\ x = 1 => s.from = Source(k)
        /\ x = m + 1 => s.to = Target(k)
    BY <1>3, <2>2, <2>3
  <2>5. low + x - 1 = r /\ (r = low => x = 1) /\ (r + 1 = low + m + 1 => x = m + 1)
    BY <2>1
  <2>6. /\ s.orig = edges[k].orig /\ rank'[s.from] = r
        /\ r = rank[Source(k)] => s.from = Source(k)
        /\ r + 1 = rank[Target(k)] => s.to = Target(k)
    BY <1>2, <1>3, <2>4, <2>5
  <2>7. DownFrom(i, k, r)'
    BY <1>4, <1>6, <2>3, <2>6 DEF DownFrom
  <2> QED  BY <1>3, <2>7
<1>12. \A j \in Passed' : \A r \in rank'[Source(j)']..(rank'[Target(j)'] - 1) :
         \E i \in DOMAIN segments' : DownFrom(i, j, r)'
  <2> TAKE j \in Passed'
  <2>1. CASE j = k
    <3>1. rank'[Source(j)'] = low /\ rank'[Target(j)'] = low + m + 1
      BY <1>2, <1>3, <1>4, <2>1
    <3>2. low..((low + m + 1) - 1) = low..(low + m)
      OBVIOUS
    <3> QED  BY <1>11, <2>1, <3>1, <3>2
  <2>2. CASE j # k
    <3>1. j \in Passed /\ j \in Positions
      BY <1>4, <1>5, <2>2
    <3>2. Source(j)' = Source(j) /\ Target(j)' = Target(j)
      BY <1>4, <3>1
    <3> QED  BY <1>10, <3>1, <3>2
  <2> QED  BY <2>1, <2>2
<1>13. ASSUME NEW i \in 1..(S + m + 1), NEW j \in 1..(S + m + 1),
              segments'[i].orig = segments'[j].orig,
              rank'[segments'[i].from] = rank'[segments'[j].from]
       PROVE  i = j
  <2>1. CASE i \in 1..S /\ j \in 1..S
    <3>1. segments[i].orig = segments[j].orig /\ rank[segments[i].from] = rank[segments[j].from]
      BY <1>8, <1>13, <2>1
    <3> QED  BY <1>3, <1>7, <2>1, <3>1 DEF ChainsComplete
  <2>2. CASE i \notin 1..S /\ j \notin 1..S
    <3>1. PICK x \in 1..(m + 1) : i = S + x
      BY <1>9, <2>2
    <3>2. PICK y \in 1..(m + 1) : j = S + y
      BY <1>9, <2>2
    <3>3. rank'[segments'[i].from] = low + x - 1 /\ rank'[segments'[j].from] = low + y - 1
      BY <1>3, <3>1, <3>2
    <3>4. low + x - 1 = low + y - 1
      BY <1>13, <3>3
    <3> QED  BY <3>1, <3>2, <3>4
  <2>3. CASE i \in 1..S /\ j \notin 1..S
    <3>1. PICK y \in 1..(m + 1) : j = S + y
      BY <1>9, <2>3
    <3> QED  BY <1>3, <1>8, <1>13, <2>3, <3>1
  <2>4. CASE i \notin 1..S /\ j \in 1..S
    <3>1. PICK x \in 1..(m + 1) : i = S + x
      BY <1>9, <2>4
    <3> QED  BY <1>3, <1>8, <1>13, <2>4, <3>1
  <2> QED  BY <2>1, <2>2, <2>3, <2>4
<1> QED  BY <1>3, <1>12, <1>13 DEF ChainsComplete

\* One link leads to each new node and one leads on.
LEMMA LaidPassedOnce ==
  ASSUME NEW k \in Positions, NEW m \in Nat \ {0}, NEW path, Laying(k, m, path)
  PROVE  DummiesPassedOnce'
<1>1. PICK S \in Nat, N \in Nat, low \in Int : LaidAt(k, m, S, N, low)
  BY LaidInNumbers
<1>2. /\ DOMAIN segments = 1..S /\ DOMAIN segments' = 1..(S + m + 1)
      /\ Dummies' = Dummies \union ((N + 1)..(N + m)) /\ nodes \intersect ((N + 1)..(N + m)) = {}
      /\ Source(k) \in nodes /\ Target(k) \in nodes
  BY <1>1 DEF LaidAt
<1>3. /\ \A i \in 1..S : segments'[i] = segments[i]
      /\ \A x \in 1..(m + 1) :
           /\ segments'[S + x].orig = edges[k].orig
           /\ segments'[S + x].from = IF x = 1 THEN Source(k) ELSE N + x - 1
           /\ segments'[S + x].to = IF x = m + 1 THEN Target(k) ELSE N + x
  BY <1>1 DEF LaidAt
<1>4. /\ DummiesApart /\ DummiesPassedOnce
      /\ segments \in Seq([from : nodes, to : nodes, orig : Int, reversed : BOOLEAN])
  BY DEF Laying, ChainsInv
<1>5. Source(k) \notin Dummies /\ Target(k) \notin Dummies /\ Dummies \in SUBSET nodes
  BY <1>4 DEF DummiesApart, Source, Target
<1>6. \A i \in 1..S : segments[i].from \in nodes /\ segments[i].to \in nodes
  <2> DEFINE E == [from : nodes, to : nodes, orig : Int, reversed : BOOLEAN]
  <2>1. segments \in Seq(E)
    BY <1>4
  <2>2. \A i \in DOMAIN segments : segments[i] \in E
    <3> HIDE DEF E
    <3> QED  BY <2>1, EntryOf
  <2> QED  BY <1>2, <2>2
<1>7. ASSUME NEW i \in (1..(S + m + 1)) \ (1..S)
      PROVE  \E x \in 1..(m + 1) : i = S + x
  <2>1. i - S \in 1..(m + 1) /\ i = S + (i - S)
    OBVIOUS
  <2> QED  BY <2>1
<1>8. ASSUME NEW x \in 1..(m + 1)
      PROVE  /\ x # 1 => segments'[S + x].from \in (N + 1)..(N + m)
             /\ x # m + 1 => segments'[S + x].to \in (N + 1)..(N + m)
  BY <1>3
<1>9. ASSUME NEW v \in Dummies
      PROVE  \E i, j \in 1..(S + m + 1) :
               /\ segments'[i].to = v /\ segments'[j].from = v
               /\ segments'[i].orig = segments'[j].orig
               /\ \A n \in 1..(S + m + 1) :
                    (segments'[n].to = v => n = i) /\ (segments'[n].from = v => n = j)
  <2>1. PICK i \in 1..S, j \in 1..S :
          /\ segments[i].to = v /\ segments[j].from = v /\ segments[i].orig = segments[j].orig
          /\ \A n \in 1..S : (segments[n].to = v => n = i) /\ (segments[n].from = v => n = j)
    <3>1. PICK i \in DOMAIN segments, j \in DOMAIN segments :
            /\ segments[i].to = v /\ segments[j].from = v /\ segments[i].orig = segments[j].orig
            /\ \A n \in DOMAIN segments :
                 (segments[n].to = v => n = i) /\ (segments[n].from = v => n = j)
      BY <1>4, Zenon DEF DummiesPassedOnce
    <3>2. /\ i \in 1..S /\ j \in 1..S
          /\ \A n \in 1..S : (segments[n].to = v => n = i) /\ (segments[n].from = v => n = j)
      BY <1>2, <3>1
    <3> QED  BY <3>1, <3>2, Zenon
  <2>2. v \in nodes /\ v # Source(k) /\ v # Target(k) /\ v \notin (N + 1)..(N + m)
    BY <1>2, <1>5
  <2>3. ASSUME NEW n \in (1..(S + m + 1)) \ (1..S)
        PROVE  segments'[n].to # v /\ segments'[n].from # v
    <3>1. PICK x \in 1..(m + 1) : n = S + x
      BY <1>7
    <3>2. segments'[n].from = Source(k) \/ segments'[n].from \in (N + 1)..(N + m)
      BY <1>3, <1>8, <3>1
    <3>3. segments'[n].to = Target(k) \/ segments'[n].to \in (N + 1)..(N + m)
      BY <1>3, <1>8, <3>1
    <3> QED  BY <2>2, <3>2, <3>3
  <2>4. i \in 1..(S + m + 1) /\ j \in 1..(S + m + 1)
    OBVIOUS
  <2>5. \A n \in 1..(S + m + 1) :
          (segments'[n].to = v => n = i) /\ (segments'[n].from = v => n = j)
    BY <1>3, <2>1, <2>3
  <2> QED  BY <1>3, <2>1, <2>4, <2>5
<1>10. ASSUME NEW v \in (N + 1)..(N + m)
       PROVE  \E i, j \in 1..(S + m + 1) :
                /\ segments'[i].to = v /\ segments'[j].from = v
                /\ segments'[i].orig = segments'[j].orig
                /\ \A n \in 1..(S + m + 1) :
                     (segments'[n].to = v => n = i) /\ (segments'[n].from = v => n = j)
  <2>1. PICK y \in 1..m : v = N + y
    <3>1. v - N \in 1..m /\ v = N + (v - N)
      OBVIOUS
    <3> QED  BY <3>1
  <2>2. PICK z \in 1..(m + 1) : z = y + 1
    OBVIOUS
  <2>3. v \notin nodes
    BY <1>2
  <2>4. segments'[S + y].to = v /\ segments'[S + z].from = v
        /\ segments'[S + y].orig = segments'[S + z].orig
    <3>1. y \in 1..(m + 1) /\ y # m + 1 /\ z # 1 /\ N + z - 1 = N + y
      BY <2>2
    <3> QED  BY <1>3, <2>1, <3>1
  <2>5. ASSUME NEW x \in 1..(m + 1)
        PROVE  /\ segments'[S + x].to = v => x = y
               /\ segments'[S + x].from = v => x = z
    <3>1. segments'[S + x].to = v => x = y
      <4>1. CASE x = m + 1
        BY <1>2, <1>3, <2>3, <4>1
      <4>2. CASE x # m + 1
        <5>1. segments'[S + x].to = N + x
          BY <1>3, <4>2
        <5> QED  BY <2>1, <5>1
      <4> QED  BY <4>1, <4>2
    <3>2. segments'[S + x].from = v => x = z
      <4>1. CASE x = 1
        BY <1>2, <1>3, <2>3, <4>1
      <4>2. CASE x # 1
        <5>1. segments'[S + x].from = N + x - 1
          BY <1>3, <4>2
        <5> QED  BY <2>1, <2>2, <5>1
      <4> QED  BY <4>1, <4>2
    <3> QED  BY <3>1, <3>2
  <2>6. ASSUME NEW n \in 1..(S + m + 1)
        PROVE  (segments'[n].to = v => n = S + y) /\ (segments'[n].from = v => n = S + z)
    <3>1. CASE n \in 1..S
      BY <1>3, <1>6, <2>3, <3>1
    <3>2. CASE n \notin 1..S
      <4>1. PICK x \in 1..(m + 1) : n = S + x
        BY <1>7, <3>2
      <4> QED  BY <2>5, <4>1
    <3> QED  BY <3>1, <3>2
  <2>7. PICK i \in 1..(S + m + 1), j \in 1..(S + m + 1) : i = S + y /\ j = S + z
    OBVIOUS
  <2> QED  BY <2>4, <2>6, <2>7
<1>11. ASSUME NEW v \in Dummies'
       PROVE  \E i, j \in 1..(S + m + 1) :
                /\ segments'[i].to = v /\ segments'[j].from = v
                /\ segments'[i].orig = segments'[j].orig
                /\ \A n \in 1..(S + m + 1) :
                     (segments'[n].to = v => n = i) /\ (segments'[n].from = v => n = j)
  <2>1. v \in Dummies \/ v \in (N + 1)..(N + m)
    BY <1>2
  <2>2. CASE v \in Dummies
    BY <1>9, <2>2
  <2>3. CASE v \in (N + 1)..(N + m)
    BY <1>10, <2>3
  <2> QED  BY <2>1, <2>2, <2>3
<1>12. ASSUME NEW v \in Dummies'
       PROVE  \E i, j \in DOMAIN segments' :
                /\ segments'[i].to = v /\ segments'[j].from = v /\ segments'[i].orig = segments'[j].orig
                /\ \A n \in DOMAIN segments' :
                     (segments'[n].to = v => n = i) /\ (segments'[n].from = v => n = j)
  <2>1. PICK i \in 1..(S + m + 1), j \in 1..(S + m + 1) :
          /\ segments'[i].to = v /\ segments'[j].from = v
          /\ segments'[i].orig = segments'[j].orig
          /\ \A n \in 1..(S + m + 1) :
               (segments'[n].to = v => n = i) /\ (segments'[n].from = v => n = j)
    BY <1>11, Zenon
  <2>2. i \in DOMAIN segments' /\ j \in DOMAIN segments'
    BY <1>2
  <2>3. \A n \in DOMAIN segments' :
          (segments'[n].to = v => n = i) /\ (segments'[n].from = v => n = j)
    BY <1>2, <2>1
  <2> QED  BY <2>1, <2>2, <2>3, Zenon
<1> QED  BY <1>12 DEF DummiesPassedOnce

\* A label has its node on the new chain, and those before keep theirs.
LEMMA LaidLabels ==
  ASSUME NEW k \in Positions, NEW m \in Nat \ {0}, NEW path, Laying(k, m, path)
  PROVE  LabelsPlaced'
<1>1. Passed' = Passed \union {k}
  BY LaidGround
<1>2. /\ edges[k].orig \in labels => HasLabelDummy(edges[k].orig)'
      /\ \A i \in DOMAIN chains : i \in DOMAIN chains' /\ chains'[i] = chains[i]
      /\ edges' = edges /\ labels' = labels
  BY DEF Laying, ChainLaid, BreakEdge
<1>3. LabelsPlaced
  BY DEF Laying, ChainsInv
<1>4. ASSUME NEW o, HasLabelDummy(o) PROVE HasLabelDummy(o)'
  BY <1>2, <1>4 DEF HasLabelDummy
<1>5. ASSUME NEW j \in Passed', edges[j].orig \in labels PROVE HasLabelDummy(edges[j].orig)'
  <2>1. PICK o : o = edges[j].orig
    OBVIOUS
  <2>2. CASE j = k
    BY <1>2, <1>5, <2>2
  <2>3. CASE j # k
    <3>1. HasLabelDummy(o)
      BY <1>1, <1>3, <1>5, <2>1, <2>3 DEF LabelsPlaced
    <3>2. HasLabelDummy(o)'
      BY <1>4, <3>1
    <3>3. (edges[j].orig)' = o
      BY <1>2, <2>1
    <3> QED  BY <3>2, <3>3
  <2> QED  BY <2>2, <2>3
<1> QED  BY <1>2, <1>5 DEF LabelsPlaced

\* An edge longer than one rank is replaced by a chain.
LEMMA BreakEdgeKeepsChains ==
  ASSUME ChainsIInv, BreakEdge
  PROVE  ChainsIInv'
<1>1. /\ stage = "chains" /\ stage' = "chains"
      /\ UNCHANGED <<edges, reversed, config, titled, unplaced, minlen, weight,
                     missed, borders, excluded, factor, labels>>
  BY DEF BreakEdge, treeVars, nestingVars
<1>2. /\ Shape /\ OrigsDiffer /\ ScaffoldKept /\ RoomGiven /\ Steps /\ ChainsInv
      /\ titled \in SUBSET Int /\ IsFiniteSet(titled)
  BY <1>1 DEF ChainsIInv, UpToChains, BeforeRanking
<1>3. PICK k \in Positions, m \in Nat \ {0} : \E path \in [1..(m + 2) -> nodes'] : ChainLaid(k, m, path)
  BY <1>2, BreakLays
<1>4. PICK path : ChainLaid(k, m, path)
  BY <1>3
<1>5. Laying(k, m, path)
  BY <1>1, <1>2, <1>4 DEF Laying
<1>6. ~FrameUp /\ ~FrameUp'
  BY <1>1 DEF FrameUp
<1>7. /\ chained' \in 0..EdgeCount'
      /\ Positions' = Positions /\ Scaffold' = Scaffold /\ Given' = Given
      /\ nodes \subseteq nodes'
      /\ \A j \in Positions : Span(j)' = Span(j)
  BY <1>5, LaidGround
<1>8. Shape'
  <2>1. /\ NodeCount' = NodeCount + m /\ nodes' = 1..(NodeCount + m)
        /\ parents' \in [nodes' -> Int] /\ rank' \in [nodes' -> Int]
    BY <1>4 DEF ChainLaid
  <2>2. NodeCount' \in Nat /\ nodes' = 1..NodeCount'
    BY <1>2, <2>1 DEF Shape
  <2>3. edges' \in Seq([from : nodes', to : nodes', orig : Int])
    <3> DEFINE E == [from : nodes, to : nodes, orig : Int]
               F == [from : nodes', to : nodes', orig : Int]
    <3>1. edges \in Seq(E) /\ E \subseteq F
      BY <1>2, <1>7 DEF Shape
    <3> HIDE DEF E, F
    <3>2. edges \in Seq(F)
      BY <3>1
    <3> QED  BY <1>1, <3>2 DEF F
  <2>4. BordersKept'
    BY <1>1, <1>2, <1>7 DEF BordersKept, Shape
  <2>5. /\ minlen' \in [Positions' -> Int] /\ weight' \in [Positions' -> Int]
        /\ reversed' \in SUBSET Positions' /\ factor' \in Nat \ {0}
    BY <1>1, <1>2, <1>7 DEF Shape
  <2> QED  BY <2>1, <2>2, <2>3, <2>4, <2>5 DEF Shape
<1>9. OrigsDiffer' /\ RoomGiven'
  BY <1>1, <1>2, <1>7, EdgesKeepRoom
<1>10. Given \in SUBSET Positions
  BY DEF Given
<1>11. ScaffoldKept'
  <2>1. /\ excluded \in SUBSET (Positions \ Given)
        /\ \A j \in (Positions \ Given) \ excluded : Span(j) = 1
    BY <1>1, <1>2 DEF ScaffoldKept
  <2>2. excluded' \in SUBSET (Positions' \ Given')
    BY <1>1, <1>7, <2>1
  <2>3. \A j \in (Positions' \ Given') \ excluded' : Span(j)' = 1
    BY <1>1, <1>7, <2>1
  <2> QED  BY <1>1, <2>2, <2>3 DEF ScaffoldKept, BeforeRanking
<1>12. Steps'
  BY <1>1, <1>2, <1>7, <1>10 DEF Steps
<1>13. ChainsInv'
  <2>1. DummiesApart' /\ LinksOnChains' /\ ChainsComplete' /\ DummiesPassedOnce' /\ LabelsPlaced'
    BY <1>5, LaidApart, LaidOnChains, LaidComplete, LaidPassedOnce, LaidLabels
  <2>2. /\ chains' \in Seq(ChainsOver(nodes'))
        /\ segments' \in Seq([from : nodes', to : nodes', orig : Int, reversed : BOOLEAN])
    BY <1>4 DEF ChainLaid
  <2> QED  BY <1>7, <2>1, <2>2 DEF ChainsInv
<1>14. stage' \notin BeforeRanking
  BY <1>1 DEF BeforeRanking
<1> QED  BY <1>1, <1>2, <1>6, <1>8, <1>9, <1>11, <1>12, <1>13, <1>14 DEF ChainsIInv, UpToChains
-----------------------------------------------------------------------------
(* The rebuilt list.                                                       *)

\* The n short edges come first, then the S links of the chains.
RebuiltAs(n, S, short) ==
  /\ \A i \in 1..n : short[i] \in Positions /\ ~Long(short[i])
  /\ \A k \in Positions : ~Long(k) => \E i \in 1..n : short[i] = k
  /\ \A i, j \in 1..n : short[i] = short[j] => i = j
  /\ DOMAIN segments = 1..S /\ DOMAIN segments' = 1..(n + S)
  /\ \A i \in 1..n : /\ segments'[i].from = edges[short[i]].from
                     /\ segments'[i].to = edges[short[i]].to
                     /\ segments'[i].orig = edges[short[i]].orig
                     /\ i \in flipped' <=> short[i] \in reversed
  /\ \A x \in 1..S : /\ segments'[n + x].from = segments[x].from
                     /\ segments'[n + x].to = segments[x].to
                     /\ segments'[n + x].orig = segments[x].orig
                     /\ n + x \in flipped' => config.trackChains

\* Rebuilding the list is that.
LEMMA Rebuilt ==
  ASSUME Shape, ChainsInv, Rebuild
  PROVE  \E n \in Nat, S \in Nat : \E short : RebuiltAs(n, S, short)
<1> DEFINE P == {k \in Positions : ~Long(k)}
           short == InOrder(P)
           n == Cardinality(P)
           R == [from : nodes, to : nodes, orig : Int]
           E == [from : nodes, to : nodes, orig : Int, reversed : BOOLEAN]
           link(s) == [from |-> s.from, to |-> s.to, orig |-> s.orig]
           heads == [i \in DOMAIN short |-> link(edges[short[i]])]
           tails == [i \in DOMAIN segments |-> link(segments[i])]
<1>1. /\ segments' = heads \o tails
      /\ flipped' = {i \in DOMAIN short : short[i] \in reversed} \union
                    {Len(short) + i : i \in {j \in DOMAIN segments :
                                               config.trackChains /\ segments[j].reversed}}
  BY DEF Rebuild
<1>2. P \in SUBSET Int /\ IsFiniteSet(P)
  <2>1. Positions = 1..EdgeCount /\ EdgeCount \in Nat
    BY DEF Shape, Positions, EdgeCount
  <2>2. IsFiniteSet(Positions) /\ Positions \in SUBSET Int
    BY <2>1, FS_Interval
  <2>3. P \subseteq Positions
    OBVIOUS
  <2> QED  BY <2>2, <2>3, FS_Subset
<1>3. /\ n \in Nat /\ short \in [1..n -> P]
      /\ \A v \in P : \E i \in 1..n : short[i] = v
      /\ \A i \in 1..n : Turn(P, short[i]) = i - 1
  <2> HIDE DEF P
  <2> QED  BY <1>2, InOrderFacts
<1>4. PICK S \in Nat : S = Len(segments) /\ DOMAIN segments = 1..S
  BY DEF ChainsInv
<1>5. /\ \A i \in 1..n : short[i] \in Positions /\ ~Long(short[i])
      /\ \A k \in Positions : ~Long(k) => \E i \in 1..n : short[i] = k
  <2>1. \A k : k \in P <=> k \in Positions /\ ~Long(k)
    OBVIOUS
  <2> HIDE DEF P, n, short
  <2> QED  BY <1>3, <2>1
<1>6. \A i, j \in 1..n : short[i] = short[j] => i = j
  <2> HIDE DEF P, n, short
  <2> QED  BY <1>3
<1>7. DOMAIN short = 1..n /\ Len(short) = n
  <2> HIDE DEF P, n, short
  <2> QED  BY <1>3
<1>8. heads \in [1..n -> R]
  <2>1. \A k \in Positions : edges[k].from \in nodes /\ edges[k].to \in nodes /\ edges[k].orig \in Int
    BY ShapeEnds
  <2> HIDE DEF P, n, short
  <2> QED  BY <1>5, <1>7, <2>1
<1>9. tails \in [1..S -> R]
  <2>1. segments \in Seq(E)
    BY DEF ChainsInv
  <2>2. \A i \in DOMAIN segments : segments[i] \in E
    <3> HIDE DEF E
    <3> QED  BY <2>1, EntryOf
  <2> QED  BY <1>4, <2>2
<1> HIDE DEF P, n, short, R
<1>10. /\ segments' \in [1..(n + S) -> R]
       /\ \A i \in 1..n : segments'[i] = heads[i]
       /\ \A x \in 1..S : segments'[n + x] = tails[x]
  <2> HIDE DEF heads, tails
  <2>1. PICK s \in [1..n -> R], t \in [1..S -> R] : s = heads /\ t = tails
    BY <1>8, <1>9
  <2>2. n \in Nat /\ S \in Nat
    BY <1>3, <1>4
  <2>3. s \o t \in [1..(n + S) -> R]
    BY <2>2, RowsJoined, Zenon
  <2>4. \A i \in 1..n : (s \o t)[i] = s[i]
    BY <2>2, RowsJoined, SMT
  <2>5. \A x \in 1..S : (s \o t)[n + x] = t[x]
    BY <2>2, RowsJoined, SMT
  <2> QED  BY <1>1, <2>1, <2>3, <2>4, <2>5
<1>11. \A i \in 1..n : /\ segments'[i].from = edges[short[i]].from
                       /\ segments'[i].to = edges[short[i]].to
                       /\ segments'[i].orig = edges[short[i]].orig
  <2> TAKE i \in 1..n
  <2>1. segments'[i] = link(edges[short[i]])
    BY <1>7, <1>10
  <2> QED  BY <2>1
<1>12. \A x \in 1..S : /\ segments'[n + x].from = segments[x].from
                       /\ segments'[n + x].to = segments[x].to
                       /\ segments'[n + x].orig = segments[x].orig
  <2> TAKE x \in 1..S
  <2>1. segments'[n + x] = link(segments[x])
    BY <1>4, <1>10
  <2> QED  BY <2>1
<1>13. \A i \in 1..n : i \in flipped' <=> short[i] \in reversed
  <2> TAKE i \in 1..n
  <2>1. \A j \in 1..S : i # n + j
    BY <1>3
  <2> QED  BY <1>1, <1>4, <1>7, <2>1
<1>14. \A x \in 1..S : n + x \in flipped' => config.trackChains
  <2> TAKE x \in 1..S
  <2>1. n + x \notin 1..n
    BY <1>3
  <2> QED  BY <1>1, <1>7, <2>1
<1>15. RebuiltAs(n, S, short)
  BY <1>4, <1>5, <1>6, <1>10, <1>11, <1>12, <1>13, <1>14 DEF RebuiltAs
<1> QED  BY <1>3, <1>15

\* Such a step, from the end of the loop.
Rebuilding(n, S, short) ==
  /\ Shape /\ OrigsDiffer /\ ScaffoldKept /\ RoomGiven /\ Steps /\ ChainsInv
  /\ stage = "chains" /\ Rebuild /\ RebuiltAs(n, S, short)

\* What rebuilding leaves as it was.
LEMMA RebuildGround ==
  ASSUME NEW n \in Nat, NEW S \in Nat, NEW short, Rebuilding(n, S, short)
  PROVE  /\ UNCHANGED <<nodes, edges, reversed, rank, chains, config, labels, minlen, missed>>
         /\ Passed = {k \in Positions : Long(k)} /\ Passed \in SUBSET Given
         /\ Given \in SUBSET (Positions \ excluded)
         /\ Drawn = Given /\ Drawn' = Given /\ Added' = Added /\ Scaffold = Added
         /\ Dummies' = Dummies
         /\ \A k : Source(k)' = Source(k) /\ Target(k)' = Target(k)
<1> USE DEF Rebuilding
<1>1. UNCHANGED <<nodes, edges, reversed, rank, chains, config, labels, minlen, missed,
                  unplaced, borders>>
  BY DEF Rebuild, graphVars, compoundVars, simplexVars
<1>2. chained = EdgeCount /\ EdgeCount \in Nat /\ Positions = 1..EdgeCount
  BY DEF Rebuild, Shape, EdgeCount, Positions
<1>3. Passed = {k \in Positions : Long(k)}
  BY <1>2 DEF Passed
<1>4. Passed \in SUBSET Given
  BY <1>3, LongAreGiven
<1>5. Given \in SUBSET (Positions \ excluded)
  BY DEF ScaffoldKept, Given
<1>6. ~FrameUp
  BY DEF FrameUp
<1>7. Scaffold = Added
  BY <1>6 DEF Scaffold
<1>8. Drawn = Given
  BY <1>7 DEF Drawn, Given, TouchesAdded
<1>9. Added' = Added
  BY <1>1 DEF Added
<1>10. Drawn' = Drawn
  BY <1>1, <1>9 DEF Drawn, TouchesAdded, Positions
<1>11. Dummies' = Dummies
  BY <1>1 DEF Dummies
<1>12. \A k : Source(k)' = Source(k) /\ Target(k)' = Target(k)
  BY <1>1 DEF Source, Target
<1> QED  BY <1>1, <1>3, <1>4, <1>5, <1>7, <1>8, <1>9, <1>10, <1>11, <1>12

\* The links that draw edges are the short edges of the graph and all of the chains.
LEMMA RebuiltLinks ==
  ASSUME NEW n \in Nat, NEW S \in Nat, NEW short, Rebuilding(n, S, short)
  PROVE  /\ \A i \in 1..n : i \in Links' <=> short[i] \in Given
         /\ \A x \in 1..S : n + x \in Links'
         /\ \A i \in Links' : i \in 1..n \/ \E x \in 1..S : i = n + x
         /\ \A i \in 1..n : EndsOf(i)' = {edges[short[i]].from, edges[short[i]].to}
         /\ \A x \in 1..S : EndsOf(n + x)' = {segments[x].from, segments[x].to}
<1>1. RebuiltAs(n, S, short) /\ ChainsInv
  BY DEF Rebuilding
<1>2. /\ Passed \in SUBSET Given /\ Added' = Added /\ Scaffold = Added
      /\ \A k : Source(k)' = Source(k)
  BY RebuildGround
<1>3. /\ DOMAIN segments' = 1..(n + S) /\ DOMAIN segments = 1..S
      /\ \A i \in 1..n : /\ segments'[i].from = edges[short[i]].from
                         /\ segments'[i].to = edges[short[i]].to
                         /\ short[i] \in Positions
      /\ \A x \in 1..S : /\ segments'[n + x].from = segments[x].from
                         /\ segments'[n + x].to = segments[x].to
  BY <1>1 DEF RebuiltAs
<1>4. \A i : i \in Links' <=> /\ i \in 1..(n + S)
                              /\ segments'[i].from \notin Added /\ segments'[i].to \notin Added
  BY <1>2, <1>3 DEF Links, TouchesAdded
<1>5. \A i \in 1..n : i \in Links' <=> short[i] \in Given
  <2> TAKE i \in 1..n
  <2>1. i \in 1..(n + S)
    OBVIOUS
  <2> QED  BY <1>2, <1>3, <1>4, <2>1 DEF Given
<1>6. \A x \in 1..S : n + x \in Links'
  <2> TAKE x \in 1..S
  <2>1. n + x \in 1..(n + S)
    OBVIOUS
  <2>2. PICK j \in Passed : OnChain(segments[x], j)
    BY <1>1, <1>3 DEF ChainsInv, LinksOnChains
  <2>3. Source(j) \notin Added /\ Target(j) \notin Added
    BY <1>2 DEF Given, Source, Target
  <2>4. \A v \in Dummies : v \notin Added
    BY <1>1, <1>2 DEF ChainsInv, DummiesApart
  <2>5. segments[x].from \notin Added /\ segments[x].to \notin Added
    BY <2>2, <2>3, <2>4 DEF OnChain
  <2> QED  BY <1>3, <1>4, <2>1, <2>5
<1>7. \A i \in Links' : i \in 1..n \/ \E x \in 1..S : i = n + x
  <2> TAKE i \in Links'
  <2>1. i \in 1..(n + S)
    BY <1>4
  <2>2. CASE i > n
    <3>1. i - n \in 1..S /\ i = n + (i - n)
      BY <2>1, <2>2
    <3> QED  BY <3>1
  <2>3. CASE ~(i > n)
    BY <2>1, <2>3
  <2> QED  BY <2>2, <2>3
<1>8. /\ \A i \in 1..n : EndsOf(i)' = {edges[short[i]].from, edges[short[i]].to}
      /\ \A x \in 1..S : EndsOf(n + x)' = {segments[x].from, segments[x].to}
  BY <1>3 DEF EndsOf
<1> QED  BY <1>5, <1>6, <1>7, <1>8

\* A short edge of the graph leads over one rank or none, and is its own link.
LEMMA ShortLink ==
  ASSUME NEW n \in Nat, NEW S \in Nat, NEW short, Rebuilding(n, S, short),
         missed = {}, NEW i \in 1..n, NEW k \in Given, short[i] = k, minlen[k] >= 0
  PROVE  /\ k \in Positions /\ ~Long(k)
         /\ rank[Source(k)] \in Int /\ rank[Target(k)] \in Int
         /\ rank[Target(k)] = rank[Source(k)] \/ rank[Target(k)] = rank[Source(k)] + 1
         /\ minlen[k] > 0 => rank[Source(k)] < rank[Target(k)]
         /\ EndsOf(i)' = {Source(k), Target(k)} /\ TopOf(i)' = rank[Source(k)]
         /\ segments'[i].orig = edges[k].orig
<1> USE DEF Rebuilding
<1>1. k \in Positions /\ k \notin excluded /\ rank' = rank
  BY RebuildGround
<1>2. ~Long(k) /\ segments'[i].orig = edges[k].orig
  BY DEF RebuiltAs
<1>3. PICK low \in Int, high \in Int : low = rank[Source(k)] /\ high = rank[Target(k)]
  BY <1>1, ShapeEnds
<1>4. high <= low + 1
  BY <1>1, <1>2, <1>3 DEF Long
<1>5. high - low >= 0 /\ (minlen[k] > 0 => high - low >= 1)
  BY <1>3 DEF Steps, Span
<1>6. EndsOf(i)' = {Source(k), Target(k)}
  <2>1. EndsOf(i)' = {edges[k].from, edges[k].to}
    BY RebuiltLinks
  <2> QED  BY <2>1 DEF Source, Target
<1>7. TopOf(i)' = low
  <2>1. {rank[v] : v \in {Source(k), Target(k)}} = {low, high}
    BY <1>3
  <2>2. TopOf(i)' = Min({low, high})
    BY <1>1, <1>6, <2>1 DEF TopOf
  <2>3. Min({low, high}) = low
    BY <1>5, PairFacts
  <2> QED  BY <2>2, <2>3
<1> QED  BY <1>1, <1>2, <1>3, <1>4, <1>5, <1>6, <1>7

\* A link of a chain leads one rank down.
LEMMA ChainLink ==
  ASSUME NEW n \in Nat, NEW S \in Nat, NEW short, Rebuilding(n, S, short), NEW x \in 1..S
  PROVE  /\ n + x \in Links'
         /\ segments'[n + x].orig = segments[x].orig
         /\ rank[segments[x].from] \in Int
         /\ rank[segments[x].to] = rank[segments[x].from] + 1
         /\ EndsOf(n + x)' = {segments[x].from, segments[x].to}
         /\ TopOf(n + x)' = rank[segments[x].from]
         /\ \E k \in Passed : OnChain(segments[x], k)
<1> USE DEF Rebuilding
<1>1. rank' = rank
  BY RebuildGround
<1>2. x \in DOMAIN segments /\ segments'[n + x].orig = segments[x].orig
  BY DEF RebuiltAs
<1>3. PICK k \in Passed : OnChain(segments[x], k)
  BY <1>2 DEF ChainsInv, LinksOnChains
<1>4. PICK top \in Int : top = rank[segments[x].from] /\ rank[segments[x].to] = top + 1
  BY <1>3 DEF Shape, OnChain
<1>5. n + x \in Links' /\ EndsOf(n + x)' = {segments[x].from, segments[x].to}
  BY RebuiltLinks
<1>6. TopOf(n + x)' = top
  <2>1. {rank[v] : v \in {segments[x].from, segments[x].to}} = {top, top + 1}
    BY <1>4
  <2>2. TopOf(n + x)' = Min({top, top + 1})
    BY <1>1, <1>5, <2>1 DEF TopOf
  <2>3. Min({top, top + 1}) = top
    BY PairFacts
  <2> QED  BY <2>2, <2>3
<1> QED  BY <1>2, <1>3, <1>4, <1>5, <1>6

\* Read with their reversals, links lead down.
LEMMA RebuiltLinksLeadDown ==
  ASSUME NEW n \in Nat, NEW S \in Nat, NEW short, Rebuilding(n, S, short),
         missed = {}, \A k \in Drawn : minlen[k] >= 0
  PROVE  LinksLeadDown'
<1> USE DEF Rebuilding
<1>1. rank' = rank /\ config' = config /\ Drawn = Given
  BY RebuildGround
<1>2. SUFFICES ASSUME NEW i \in Links', NEW span, span = rank[segments'[i].to] - rank[segments'[i].from]
               PROVE  /\ span \in {-1, 0, 1}
                      /\ ~config.trackChains => IF i \in flipped' THEN span <= 0 ELSE span >= 0
  BY <1>1 DEF LinksLeadDown
<1>3. CASE i \in 1..n
  <2>1. PICK k \in Given : short[i] = k
    BY <1>3, RebuiltLinks
  <2>2. minlen[k] >= 0
    BY <1>1
  <2>3. /\ rank[Source(k)] \in Int /\ rank[Target(k)] \in Int
        /\ rank[Target(k)] = rank[Source(k)] \/ rank[Target(k)] = rank[Source(k)] + 1
    BY <1>3, <2>1, <2>2, ShortLink
  <2>4. /\ segments'[i].from = edges[k].from /\ segments'[i].to = edges[k].to
        /\ i \in flipped' <=> k \in reversed
    BY <1>3, <2>1 DEF RebuiltAs
  <2>5. CASE k \in reversed
    <3>1. segments'[i].from = Target(k) /\ segments'[i].to = Source(k)
      BY <2>4, <2>5 DEF Source, Target
    <3> QED  BY <1>2, <2>3, <2>4, <2>5, <3>1
  <2>6. CASE k \notin reversed
    <3>1. segments'[i].from = Source(k) /\ segments'[i].to = Target(k)
      BY <2>4, <2>6 DEF Source, Target
    <3> QED  BY <1>2, <2>3, <2>4, <2>6, <3>1
  <2> QED  BY <2>5, <2>6
<1>4. CASE i \notin 1..n
  <2>1. PICK x \in 1..S : i = n + x
    BY <1>4, RebuiltLinks
  <2>2. /\ rank[segments[x].from] \in Int
        /\ rank[segments[x].to] = rank[segments[x].from] + 1
    BY ChainLink
  <2>3. /\ segments'[i].from = segments[x].from /\ segments'[i].to = segments[x].to
        /\ i \in flipped' => config.trackChains
    BY <2>1 DEF RebuiltAs
  <2>4. span = 1
    BY <1>2, <2>2, <2>3
  <2> QED  BY <2>3, <2>4
<1> QED  BY <1>3, <1>4

\* A set of two things.
LEMMA TwoThings ==
  ASSUME NEW a, NEW b, a # b
  PROVE  IsFiniteSet({a, b}) /\ Cardinality({a, b}) = 2
<1>1. IsFiniteSet({a}) /\ Cardinality({a}) = 1
  BY FS_Singleton, Zenon
<1>2. /\ IsFiniteSet({a} \union {b})
      /\ Cardinality({a} \union {b}) = IF b \in {a} THEN Cardinality({a}) ELSE Cardinality({a}) + 1
  BY <1>1, FS_AddElement, Zenon
<1>3. {a} \union {b} = {a, b}
  OBVIOUS
<1> QED  BY <1>1, <1>2, <1>3

\* Two links of an edge meet in a dummy node.
LEMMA RebuiltDummiesJoinTwo ==
  ASSUME NEW n \in Nat, NEW S \in Nat, NEW short, Rebuilding(n, S, short)
  PROVE  DummiesJoinTwo'
<1> USE DEF Rebuilding
<1>1. Dummies' = Dummies
  BY RebuildGround
<1>2. SUFFICES ASSUME NEW v \in Dummies, NEW at, at = {i \in Links' : v \in EndsOf(i)'}
               PROVE  Cardinality(at) = 2 /\ Cardinality({segments'[i].orig : i \in at}) = 1
  BY <1>1 DEF DummiesJoinTwo
<1>3. DOMAIN segments = 1..S
  BY DEF RebuiltAs
<1>4. PICK p \in DOMAIN segments, q \in DOMAIN segments :
        /\ segments[p].to = v /\ segments[q].from = v /\ segments[p].orig = segments[q].orig
        /\ \A m \in DOMAIN segments :
             (segments[m].to = v => m = p) /\ (segments[m].from = v => m = q)
  BY Zenon DEF ChainsInv, DummiesPassedOnce
<1>5. p # q
  <2>1. rank[segments[p].from] \in Int /\ rank[segments[p].to] = rank[segments[p].from] + 1
    BY <1>3, ChainLink
  <2> QED  BY <1>4, <2>1
<1>6. ASSUME NEW i \in 1..n PROVE i \notin at
  <2>1. short[i] \in Positions
    BY DEF RebuiltAs
  <2>2. EndsOf(i)' = {edges[short[i]].from, edges[short[i]].to}
    BY RebuiltLinks
  <2>3. edges[short[i]].from # v /\ edges[short[i]].to # v
    BY <2>1 DEF ChainsInv, DummiesApart
  <2> QED  BY <1>2, <2>2, <2>3
<1>7. ASSUME NEW x \in 1..S PROVE n + x \in at <=> x = p \/ x = q
  <2>1. n + x \in Links' /\ EndsOf(n + x)' = {segments[x].from, segments[x].to}
    BY RebuiltLinks
  <2> QED  BY <1>2, <1>3, <1>4, <2>1
<1>8. at = {n + p, n + q}
  <2>1. ASSUME NEW i \in at PROVE i = n + p \/ i = n + q
    <3>1. i \in Links' /\ i \notin 1..n
      BY <1>2, <1>6, <2>1
    <3>2. PICK x \in 1..S : i = n + x
      BY <3>1, RebuiltLinks
    <3> QED  BY <1>7, <2>1, <3>2
  <2>2. n + p \in at /\ n + q \in at
    BY <1>3, <1>7
  <2> QED  BY <2>1, <2>2
<1>9. n + p # n + q
  BY <1>3, <1>5
<1>10. Cardinality(at) = 2
  BY <1>8, <1>9, TwoThings
<1>11. segments'[n + p].orig = segments[p].orig /\ segments'[n + q].orig = segments[p].orig
  BY <1>3, <1>4, ChainLink
<1>12. {segments'[i].orig : i \in at} = {segments[p].orig}
  BY <1>8, <1>11
<1> QED  BY <1>10, <1>12, FS_Singleton

\* Labels that were given room have a dummy node.
LEMMA RebuiltLabels ==
  ASSUME NEW n \in Nat, NEW S \in Nat, NEW short, Rebuilding(n, S, short), missed = {}
  PROVE  RoomyLabelsHaveADummy'
<1> USE DEF Rebuilding
<1>1. /\ UNCHANGED <<edges, chains, config, labels, minlen>>
      /\ Drawn = Given /\ Drawn' = Given
      /\ Passed = {k \in Positions : Long(k)} /\ Given \in SUBSET (Positions \ excluded)
  BY RebuildGround
<1>2. SUFFICES ASSUME (\A k \in Given : edges[k].orig = k) \/ ~config.perLabel,
                      NEW k \in Given, edges[k].orig \in labels, minlen[k] > 0
               PROVE  HasLabelDummy(edges[k].orig)
  BY <1>1 DEF RoomyLabelsHaveADummy, NothingExtracted, HasLabelDummy
<1>3. minlen[k] >= 2 * factor
  BY <1>2 DEF RoomGiven
<1>4. Span(k) >= 2
  BY <1>3 DEF Steps
<1>5. Long(k)
  <2>1. rank[Source(k)] \in Int /\ rank[Target(k)] \in Int
    BY <1>1, ShapeEnds
  <2> QED  BY <1>1, <1>4, <2>1 DEF Long, Span
<1>6. k \in Passed
  BY <1>1, <1>5
<1> QED  BY <1>2, <1>6 DEF ChainsInv, LabelsPlaced

\* What LinksCoverEdges says of the edge k, its links the set mine.
CoveredBy(k, mine) ==
  LET low == rank[Source(k)]
      high == rank[Target(k)]
  IN  /\ Cardinality(mine) = Max({1, high - low})
      /\ {TopOf(i)' : i \in mine} = low..Max({low, high - 1})
      /\ \E i, j \in mine : Source(k) \in EndsOf(i)' /\ Target(k) \in EndsOf(j)'
      /\ minlen[k] > 0 => low < high

\* A short edge has one link.
LEMMA ShortIsCovered ==
  ASSUME NEW n \in Nat, NEW S \in Nat, NEW short, Rebuilding(n, S, short), missed = {},
         NEW k \in Given, minlen[k] >= 0, ~Long(k),
         NEW mine, mine = {i \in Links' : segments'[i].orig = edges[k].orig}
  PROVE  CoveredBy(k, mine)
<1> USE DEF Rebuilding
<1>1. Passed = {j \in Positions : Long(j)} /\ Passed \in SUBSET Given /\ Given \in SUBSET Positions
  BY RebuildGround
<1>2. PICK p \in 1..n : short[p] = k
  BY <1>1 DEF RebuiltAs
<1>3. /\ rank[Source(k)] \in Int /\ rank[Target(k)] \in Int
      /\ rank[Target(k)] = rank[Source(k)] \/ rank[Target(k)] = rank[Source(k)] + 1
      /\ minlen[k] > 0 => rank[Source(k)] < rank[Target(k)]
      /\ EndsOf(p)' = {Source(k), Target(k)} /\ TopOf(p)' = rank[Source(k)]
      /\ segments'[p].orig = edges[k].orig
  BY <1>2, ShortLink
<1>4. p \in mine
  BY <1>2, <1>3, RebuiltLinks
<1>5. ASSUME NEW i \in mine PROVE i = p
  <2>1. i \in Links' /\ segments'[i].orig = edges[k].orig
    BY <1>5
  <2>2. CASE i \in 1..n
    <3>1. short[i] \in Given
      BY <2>1, <2>2, RebuiltLinks
    <3>2. segments'[i].orig = edges[short[i]].orig
      BY <2>2 DEF RebuiltAs
    <3>3. short[i] = k
      BY <2>1, <3>1, <3>2 DEF OrigsDiffer
    <3> QED  BY <1>2, <2>2, <3>3 DEF RebuiltAs
  <2>3. CASE i \notin 1..n
    <3>1. PICK x \in 1..S : i = n + x
      BY <2>1, <2>3, RebuiltLinks
    <3>2. segments'[n + x].orig = segments[x].orig /\ \E j \in Passed : OnChain(segments[x], j)
      BY ChainLink
    <3>3. PICK j \in Passed : OnChain(segments[x], j)
      BY <3>2
    <3>4. edges[j].orig = edges[k].orig /\ j \in Given
      BY <1>1, <2>1, <3>1, <3>2, <3>3 DEF OnChain
    <3>5. j = k
      BY <3>4 DEF OrigsDiffer
    <3> QED  BY <1>1, <3>3, <3>5
  <2> QED  BY <2>2, <2>3
<1>6. mine = {p}
  BY <1>4, <1>5
<1>7. PICK low \in Int, high \in Int : low = rank[Source(k)] /\ high = rank[Target(k)]
  BY <1>3
<1>8. Max({1, high - low}) = 1 /\ Max({low, high - 1}) = low
  <2>1. high - low <= 1 /\ high - 1 <= low
    BY <1>3, <1>7
  <2>2. Max({1, high - low}) = IF 1 <= high - low THEN high - low ELSE 1
    <3>1. 1 \in Int /\ high - low \in Int
      OBVIOUS
    <3> QED  BY <3>1, PairFacts, Zenon
  <2>3. Max({low, high - 1}) = IF low <= high - 1 THEN high - 1 ELSE low
    <3>1. high - 1 \in Int
      OBVIOUS
    <3> QED  BY <3>1, PairFacts, Zenon
  <2> QED  BY <2>1, <2>2, <2>3
<1>9. Cardinality(mine) = 1
  BY <1>6, FS_Singleton
<1>10. {TopOf(i)' : i \in mine} = low..low
  BY <1>3, <1>6, <1>7
<1>11. \E i, j \in mine : Source(k) \in EndsOf(i)' /\ Target(k) \in EndsOf(j)'
  BY <1>3, <1>4
<1> QED  BY <1>3, <1>7, <1>8, <1>9, <1>10, <1>11 DEF CoveredBy

\* A chain has one link for each rank from its source to above its target.
LEMMA LongIsCovered ==
  ASSUME NEW n \in Nat, NEW S \in Nat, NEW short, Rebuilding(n, S, short),
         NEW k \in Given, Long(k),
         NEW mine, mine = {i \in Links' : segments'[i].orig = edges[k].orig}
  PROVE  CoveredBy(k, mine)
<1> USE DEF Rebuilding
<1>1. Passed = {j \in Positions : Long(j)} /\ Passed \in SUBSET Given /\ Given \in SUBSET Positions
  BY RebuildGround
<1>2. PICK low \in Int, high \in Int : low = rank[Source(k)] /\ high = rank[Target(k)]
  BY <1>1, ShapeEnds
<1>3. k \in Passed /\ high > low + 1
  BY <1>1, <1>2 DEF Long
<1>4. DOMAIN segments = 1..S
  BY DEF RebuiltAs
<1>5. ASSUME NEW i \in mine
      PROVE  \E x \in 1..S :
               /\ i = n + x /\ segments[x].orig = edges[k].orig
               /\ rank[segments[x].from] \in low..(high - 1)
               /\ TopOf(i)' = rank[segments[x].from]
  <2>1. i \in Links' /\ segments'[i].orig = edges[k].orig
    BY <1>5
  <2>2. i \notin 1..n
    <3>1. SUFFICES ASSUME i \in 1..n PROVE FALSE
      OBVIOUS
    <3>2. short[i] \in Given
      BY <2>1, <3>1, RebuiltLinks
    <3>3. segments'[i].orig = edges[short[i]].orig /\ ~Long(short[i])
      BY <3>1 DEF RebuiltAs
    <3>4. short[i] = k
      BY <2>1, <3>2, <3>3 DEF OrigsDiffer
    <3> QED  BY <3>3, <3>4
  <2>3. PICK x \in 1..S : i = n + x
    BY <2>1, <2>2, RebuiltLinks
  <2>4. /\ segments'[n + x].orig = segments[x].orig
        /\ rank[segments[x].from] \in Int
        /\ rank[segments[x].to] = rank[segments[x].from] + 1
        /\ TopOf(n + x)' = rank[segments[x].from]
        /\ \E j \in Passed : OnChain(segments[x], j)
    BY ChainLink
  <2>5. PICK j \in Passed : OnChain(segments[x], j)
    BY <2>4
  <2>6. edges[j].orig = edges[k].orig /\ j \in Given
    BY <1>1, <2>1, <2>3, <2>4, <2>5 DEF OnChain
  <2>7. j = k
    BY <2>6 DEF OrigsDiffer
  <2>8. low <= rank[segments[x].from] /\ rank[segments[x].to] <= high
    BY <1>2, <2>5, <2>7 DEF OnChain
  <2>9. rank[segments[x].from] \in low..(high - 1)
    BY <2>4, <2>8
  <2> QED  BY <2>1, <2>3, <2>4, <2>9
<1>6. ASSUME NEW r \in low..(high - 1)
      PROVE  \E x \in 1..S : n + x \in mine /\ TopOf(n + x)' = r /\ DownFrom(x, k, r)
  <2>1. PICK x \in 1..S : DownFrom(x, k, r)
    BY <1>2, <1>3, <1>4 DEF ChainsInv, ChainsComplete
  <2>2. /\ n + x \in Links' /\ segments'[n + x].orig = segments[x].orig
        /\ TopOf(n + x)' = rank[segments[x].from]
    BY ChainLink
  <2> QED  BY <2>1, <2>2 DEF DownFrom
<1>7. {TopOf(i)' : i \in mine} = low..(high - 1)
  <2>1. \A i \in mine : TopOf(i)' \in low..(high - 1)
    BY <1>5
  <2>2. \A r \in low..(high - 1) : \E i \in mine : TopOf(i)' = r
    BY <1>6
  <2> QED  BY <2>1, <2>2
<1>8. \A i, j \in mine : TopOf(i)' = TopOf(j)' => i = j
  <2> TAKE i, j \in mine
  <2> HAVE TopOf(i)' = TopOf(j)'
  <2>1. PICK x \in 1..S : /\ i = n + x /\ segments[x].orig = edges[k].orig
                          /\ TopOf(i)' = rank[segments[x].from]
    BY <1>5
  <2>2. PICK y \in 1..S : /\ j = n + y /\ segments[y].orig = edges[k].orig
                          /\ TopOf(j)' = rank[segments[y].from]
    BY <1>5
  <2>3. segments[x].orig = segments[y].orig /\ rank[segments[x].from] = rank[segments[y].from]
    BY <2>1, <2>2
  <2>4. x = y
    BY <1>4, <2>3 DEF ChainsInv, ChainsComplete
  <2> QED  BY <2>1, <2>2, <2>4
<1>9. Cardinality(mine) = high - low
  <2> DEFINE ranks == low..(high - 1)
  <2>1. PICK top : top = [i \in mine |-> TopOf(i)']
    OBVIOUS
  <2> DEFINE f == [r \in ranks |-> CHOOSE i \in mine : top[i] = r]
  <2>2. /\ \A i \in mine : top[i] \in ranks
        /\ \A r \in ranks : \E i \in mine : top[i] = r
        /\ \A i, j \in mine : top[i] = top[j] => i = j
    BY <1>7, <1>8, <2>1
  <2>3. ExistsBijection(ranks, mine)
    <3> HIDE DEF ranks
    <3>1. \A r \in ranks : f[r] \in mine /\ top[f[r]] = r
      BY <2>2
    <3>2. f \in [ranks -> mine]
      BY <3>1
    <3>3. \A i \in mine : f[top[i]] = i
      BY <2>2, <3>1
    <3> HIDE DEF f
    <3>4. f \in Injection(ranks, mine)
      BY <3>1, <3>2 DEF Injection, IsInjective
    <3>5. f \in Surjection(ranks, mine)
      BY <2>2, <3>2, <3>3 DEF Surjection
    <3> QED  BY <3>4, <3>5 DEF ExistsBijection, Bijection
  <2>4. IsFiniteSet(low..(high - 1)) /\ Cardinality(low..(high - 1)) = high - low
    BY <1>3, FS_Interval
  <2>5. Cardinality(mine) = Cardinality(low..(high - 1))
    BY <2>3, <2>4, FS_Bijection, Zenon
  <2> QED  BY <2>4, <2>5
<1>10. Max({1, high - low}) = high - low /\ Max({low, high - 1}) = high - 1
  <2>1. Max({1, high - low}) = IF 1 <= high - low THEN high - low ELSE 1
    <3>1. 1 \in Int /\ high - low \in Int
      OBVIOUS
    <3> QED  BY <3>1, PairFacts, Zenon
  <2>2. Max({low, high - 1}) = IF low <= high - 1 THEN high - 1 ELSE low
    <3>1. high - 1 \in Int
      OBVIOUS
    <3> QED  BY <3>1, PairFacts, Zenon
  <2> QED  BY <1>3, <2>1, <2>2
<1>11. \E i, j \in mine : Source(k) \in EndsOf(i)' /\ Target(k) \in EndsOf(j)'
  <2>1. low \in low..(high - 1) /\ high - 1 \in low..(high - 1)
    BY <1>3
  <2>2. PICK x \in 1..S : n + x \in mine /\ DownFrom(x, k, low)
    BY <1>6, <2>1
  <2>3. PICK y \in 1..S : n + y \in mine /\ DownFrom(y, k, high - 1)
    BY <1>6, <2>1
  <2>4. segments[x].from = Source(k) /\ segments[y].to = Target(k)
    BY <1>2, <2>2, <2>3 DEF DownFrom
  <2>5. /\ EndsOf(n + x)' = {segments[x].from, segments[x].to}
        /\ EndsOf(n + y)' = {segments[y].from, segments[y].to}
    BY RebuiltLinks
  <2> QED  BY <2>2, <2>3, <2>4, <2>5
<1>12. low < high
  BY <1>3
<1> QED  BY <1>2, <1>7, <1>9, <1>10, <1>11, <1>12 DEF CoveredBy

\* Every edge is covered by its links.
LEMMA RebuiltLinksCoverEdges ==
  ASSUME NEW n \in Nat, NEW S \in Nat, NEW short, Rebuilding(n, S, short), missed = {},
         \A k \in Drawn : minlen[k] >= 0
  PROVE  LinksCoverEdges'
<1>1. /\ UNCHANGED <<edges, reversed, rank, minlen>> /\ Drawn = Given /\ Drawn' = Given
      /\ \A k : Source(k)' = Source(k) /\ Target(k)' = Target(k)
  BY RebuildGround
<1>2. ASSUME NEW k \in Given, NEW mine, mine = {i \in Links' : segments'[i].orig = edges[k].orig}
      PROVE  CoveredBy(k, mine)
  <2>1. minlen[k] >= 0
    BY <1>1
  <2>2. CASE Long(k)
    BY <1>2, <2>2, LongIsCovered
  <2>3. CASE ~Long(k)
    BY <1>2, <2>1, <2>3, ShortIsCovered
  <2> QED  BY <2>2, <2>3
<1> QED  BY <1>1, <1>2 DEF LinksCoverEdges, CoveredBy

\* The rebuilt list replaces the edges.
LEMMA RebuildReplaces ==
  ASSUME ChainsIInv, Rebuild
  PROVE  ChainsIInv'
<1>1. /\ stage = "chains" /\ stage' \in {"order", "parents"}
      /\ titled' = titled
  BY DEF Rebuild, compoundVars
<1>2. /\ Shape /\ OrigsDiffer /\ ScaffoldKept /\ RoomGiven /\ Steps /\ ChainsInv
      /\ titled \in SUBSET Int /\ IsFiniteSet(titled)
  BY <1>1 DEF ChainsIInv, UpToChains, BeforeRanking
<1>3. PICK n \in Nat, S \in Nat : \E short : RebuiltAs(n, S, short)
  BY <1>2, Rebuilt
<1>4. PICK short : RebuiltAs(n, S, short)
  BY <1>3
<1>5. Rebuilding(n, S, short)
  BY <1>1, <1>2, <1>4 DEF Rebuilding
<1>6. missed' = missed /\ minlen' = minlen /\ Drawn' = Drawn
  BY <1>5, RebuildGround
<1>7. ChainsReplace'
  <2>1. SUFFICES ASSUME missed = {}, \A k \in Drawn : minlen[k] >= 0
                 PROVE  LinksLeadDown' /\ LinksCoverEdges' /\ DummiesJoinTwo' /\ RoomyLabelsHaveADummy'
    BY <1>6 DEF ChainsReplace
  <2> QED  BY <1>5, <2>1, RebuiltLinksLeadDown, RebuiltLinksCoverEdges, RebuiltDummiesJoinTwo,
              RebuiltLabels
<1>8. ~FrameUp'
  BY <1>1 DEF FrameUp
<1> QED  BY <1>1, <1>2, <1>7, <1>8 DEF ChainsIInv, UpToChains, BeforeRanking
-----------------------------------------------------------------------------
(* The chains in the pipeline.                                             *)

\* What the property says depends on few variables.
LEMMA ReplacedStays ==
  ASSUME UNCHANGED <<edges, reversed, rank, minlen, missed, config, labels, unplaced, borders,
                     chains, segments, flipped>>,
         ChainsReplace
  PROVE  ChainsReplace'
<1>1. Added' = Added /\ Dummies' = Dummies
  BY DEF Added, Dummies
<1>2. Drawn' = Drawn /\ Links' = Links
  BY <1>1 DEF Drawn, Links, TouchesAdded, Positions
<1>3. \A k : Source(k)' = Source(k) /\ Target(k)' = Target(k)
  BY DEF Source, Target
<1>4. \A i : EndsOf(i)' = EndsOf(i)
  BY DEF EndsOf
<1>5. \A i : TopOf(i)' = TopOf(i)
  BY <1>4 DEF TopOf
<1>6. LinksLeadDown' <=> LinksLeadDown
  BY <1>2 DEF LinksLeadDown
<1>7. LinksCoverEdges => LinksCoverEdges'
  <2> SUFFICES ASSUME LinksCoverEdges, NEW k \in Drawn,
                      NEW mine, mine = {i \in Links : segments[i].orig = edges[k].orig}
               PROVE  /\ Cardinality(mine) = Max({1, rank[Target(k)] - rank[Source(k)]})
                      /\ {TopOf(i)' : i \in mine} =
                           rank[Source(k)]..Max({rank[Source(k)], rank[Target(k)] - 1})
                      /\ \E i, j \in mine : Source(k) \in EndsOf(i)' /\ Target(k) \in EndsOf(j)'
                      /\ minlen[k] > 0 => rank[Source(k)] < rank[Target(k)]
    BY <1>2, <1>3 DEF LinksCoverEdges
  <2>1. /\ Cardinality(mine) = Max({1, rank[Target(k)] - rank[Source(k)]})
        /\ {TopOf(i) : i \in mine} =
             rank[Source(k)]..Max({rank[Source(k)], rank[Target(k)] - 1})
        /\ \E i, j \in mine : Source(k) \in EndsOf(i) /\ Target(k) \in EndsOf(j)
        /\ minlen[k] > 0 => rank[Source(k)] < rank[Target(k)]
    BY DEF LinksCoverEdges
  <2>2. {TopOf(i)' : i \in mine} = {TopOf(i) : i \in mine}
    BY <1>5
  <2> QED  BY <1>4, <2>1, <2>2
<1>8. DummiesJoinTwo => DummiesJoinTwo'
  <2> SUFFICES ASSUME DummiesJoinTwo, NEW v \in Dummies,
                      NEW at, at = {i \in Links' : v \in EndsOf(i)'}
               PROVE  Cardinality(at) = 2 /\ Cardinality({segments'[i].orig : i \in at}) = 1
    BY <1>1 DEF DummiesJoinTwo
  <2>1. at = {i \in Links : v \in EndsOf(i)}
    BY <1>2, <1>4
  <2> QED  BY <2>1 DEF DummiesJoinTwo
<1>9. RoomyLabelsHaveADummy' <=> RoomyLabelsHaveADummy
  BY <1>2 DEF RoomyLabelsHaveADummy, NothingExtracted, HasLabelDummy
<1> QED  BY <1>2, <1>6, <1>7, <1>8, <1>9 DEF ChainsReplace

\* Dummy nodes get parents.
LEMMA AssignParentsKeepsReplaced ==
  ASSUME ChainsIInv, AssignParents
  PROVE  ChainsIInv'
<1>1. /\ stage = "parents" /\ stage' = "order"
      /\ UNCHANGED <<edges, reversed, rank, minlen, missed, config, labels, unplaced, borders,
                     chains, segments, flipped, titled>>
  BY DEF AssignParents, graphVars, simplexVars, treeVars, nestingVars, chainVars
<1>2. ChainsReplace /\ titled \in SUBSET Int /\ IsFiniteSet(titled)
  BY <1>1 DEF ChainsIInv
<1>3. ChainsReplace'
  BY <1>1, <1>2, ReplacedStays
<1>4. ~FrameUp'
  BY <1>1 DEF FrameUp
<1> QED  BY <1>1, <1>2, <1>3, <1>4 DEF ChainsIInv, UpToChains, BeforeRanking

\* The pipeline keeps the invariant.
LEMMA ChainsInductive ==
  RankingIInv /\ RankingIInv' /\ ChainsIInv /\ [LayeringNext \/ LayeringDone]_layeringVars
    => ChainsIInv'
<1> SUFFICES ASSUME RankingIInv, RankingIInv', ChainsIInv,
                    [LayeringNext \/ LayeringDone]_layeringVars
             PROVE  ChainsIInv'
  OBVIOUS
<1>1. CASE ExtractSelfEdges
  BY <1>1, ExtractKeepsShape
<1>2. CASE Search \/ EndSearch \/ CompoundFeedback
  BY <1>2, ReversalsKeepShape
<1>3. CASE MakeSpace
  BY <1>3, MakeSpaceKeepsShape
<1>4. CASE FrameCompounds
  BY <1>4, FramesKeepShape
<1>5. CASE Rank
  BY <1>5, RankKeepsShape
<1>6. CASE NormalizeRanks
  BY <1>6, NormalizeRanksKeepsShape
<1>7. CASE Unframe
  BY <1>7, RemoveEmptyRanksKeepsShape, CleanUpKeepsShape, InsertTitlesKeepsShape,
     MarkClimbingKeepsShape DEF Unframe
<1>8. CASE KeepEdge
  BY <1>8, KeepEdgeKeepsChains
<1>9. CASE BreakEdge
  BY <1>9, BreakEdgeKeepsChains
<1>10. CASE Rebuild
  BY <1>10, RebuildReplaces
<1>11. CASE AssignParents
  BY <1>11, AssignParentsKeepsReplaced
<1>12. CASE LayeringDone \/ UNCHANGED layeringVars
  <2>1. /\ UNCHANGED <<edges, reversed, rank, minlen, missed, config, labels, unplaced, borders,
                       chains, segments, flipped>>
        /\ UNCHANGED <<nodes, parents, weight, titled, nesting, excluded, factor, chained, stage>>
    BY <1>12 DEF LayeringDone, layeringVars, graphVars, compoundVars, simplexVars, treeVars,
                 nestingVars
  <2>2. CASE stage \in {"parents", "order"}
    <3>1. ChainsReplace'
      BY <2>1, <2>2, ReplacedStays DEF ChainsIInv
    <3>2. ~FrameUp' /\ stage' \notin UpToChains /\ stage' \notin BeforeRanking
      BY <2>1, <2>2 DEF FrameUp, UpToChains, BeforeRanking
    <3> QED  BY <2>1, <2>2, <3>1, <3>2 DEF ChainsIInv, BeforeRanking
  <2>3. CASE stage \notin {"parents", "order"}
    <3>1. /\ Positions' = Positions /\ NodeCount' = NodeCount /\ Compounds' = Compounds
          /\ EdgeCount' = EdgeCount /\ (FrameUp' <=> FrameUp)
      BY <2>1 DEF Positions, NodeCount, Compounds, EdgeCount, FrameUp
    <3>2. /\ Scaffold' = Scaffold /\ Given' = Given /\ BordersKept' = BordersKept
      BY <2>1, <3>1, GivenStays
    <3>3. /\ \A k : Source(k)' = Source(k) /\ Target(k)' = Target(k)
          /\ \A k : Span(k)' = Span(k) /\ (Long(k)' <=> Long(k))
      BY <2>1 DEF Source, Target, Span, Long
    <3>4. (Shape => Shape') /\ (FramesStand => FramesStand')
      BY <2>1, <3>1, <3>2 DEF Shape, FramesStand
    <3>5. /\ OrigsDiffer => OrigsDiffer'
          /\ RoomGiven => RoomGiven'
          /\ Steps => Steps'
          /\ ScaffoldKept => ScaffoldKept'
      BY <2>1, <3>1, <3>2, <3>3 DEF OrigsDiffer, RoomGiven, Steps, ScaffoldKept
    <3>6. ChainsInv => ChainsInv'
      <4>1. Dummies' = Dummies /\ Passed' = Passed /\ \A o : HasLabelDummy(o) => HasLabelDummy(o)'
        BY <2>1, <3>3 DEF Dummies, Passed, HasLabelDummy
      <4>2. \A s, k : OnChain(s, k) => OnChain(s, k)'
        BY <2>1, <3>3, <4>1 DEF OnChain
      <4>3. \A i, k, r : DownFrom(i, k, r) => DownFrom(i, k, r)'
        BY <2>1, <3>3 DEF DownFrom
      <4>4. DummiesApart => DummiesApart'
        BY <2>1, <3>1, <3>2, <4>1 DEF DummiesApart
      <4>5. LinksOnChains => LinksOnChains'
        BY <2>1, <4>1, <4>2 DEF LinksOnChains
      <4>6. ChainsComplete => ChainsComplete'
        BY <2>1, <3>3, <4>1, <4>3 DEF ChainsComplete
      <4>7. DummiesPassedOnce => DummiesPassedOnce'
        BY <2>1, <4>1 DEF DummiesPassedOnce
      <4>8. LabelsPlaced => LabelsPlaced'
        BY <2>1, <4>1 DEF LabelsPlaced
      <4> QED  BY <2>1, <3>1, <4>4, <4>5, <4>6, <4>7, <4>8 DEF ChainsInv
    <3> QED  BY <2>1, <2>3, <3>1, <3>4, <3>5, <3>6 DEF ChainsIInv
  <2> QED  BY <2>2, <2>3
<1> QED
  BY <1>1, <1>2, <1>3, <1>4, <1>5, <1>6, <1>7, <1>8, <1>9, <1>10, <1>11, <1>12 DEF LayeringNext

\* Where the phases are done, the rebuilt list replaces the edges: every edge of the graph
\* is drawn once, from end to end, over one rank a link, through nodes of its own.
THEOREM ChainsCorrect == LayeringSpec => []ChainsReplaceEdges
<1>1. LayeringInit => RankingIInv /\ ChainsIInv
  BY InitIsRanked, InitIsShaped
<1>2. RankingIInv /\ [LayeringNext \/ LayeringDone]_layeringVars => RankingIInv'
  BY RankingInductive
<1>3. ChainsIInv => ChainsReplaceEdges
  BY DEF ChainsIInv, ChainsReplace, ChainsReplaceEdges
<1> QED  BY <1>1, <1>2, <1>3, ChainsInductive, PTL DEF LayeringSpec
-----------------------------------------------------------------------------
(* Frames: what compounds hold.                                            *)

\* No compound is around itself.
NoCircle == \A C \in SUBSET Compounds : C # {} => \E c \in C : parents[c] \notin C

\* What a compound holds: an inner frame, a node, or its own borders.
Holds(c, v) ==
  IF v \in Compounds THEN MinRank(c) < MinRank(v) /\ MaxRank(v) < MaxRank(c)
  ELSE v \notin {borders[c][1], borders[c][2]} => MinRank(c) < rank[v] /\ rank[v] < MaxRank(c)

\* Where the ranks are feasible, every frame has room and holds what is in it.
FramesHold ==
  missed = {} =>
    /\ \A c \in Compounds : MinRank(c) < MaxRank(c)
    /\ \A v \in nodes \ (unplaced \union Dummies) : parents[v] # 0 => Holds(parents[v], v)

\* Where the edges of a frame end: at a node, or at the borders of an inner frame.
TopEnd(v) == IF v \in Compounds THEN borders[v][1] ELSE v
BottomEnd(v) == IF v \in Compounds THEN borders[v][2] ELSE v

\* The two edges that keep v in the frame of c.
Framing(c, v) ==
  \E j, k \in Positions \ reversed :
    /\ edges[j].from = borders[c][1] /\ edges[j].to = TopEnd(v) /\ minlen[j] >= 1
    /\ edges[k].from = BottomEnd(v) /\ edges[k].to = borders[c][2] /\ minlen[k] >= 1

\* They are there for whatever is in a frame, and every compound has something in it.
FramesLink ==
  /\ \A v \in nodes : parents[v] # 0 =>
       v \in {borders[parents[v]][1], borders[parents[v]][2]} \/ Framing(parents[v], v)
  /\ \A c \in Compounds : \E v \in nodes :
       parents[v] = c /\ v \notin {borders[c][1], borders[c][2]}

\* Compounds are in no circle, no frame, on no chain, and no edge of the graph ends there.
CompoundsApart ==
  /\ parents \in [nodes -> nodes \union {0}]
  /\ NoCircle
  /\ Compounds \intersect (Scaffold \union Dummies) = {}
  /\ \A k \in Given : edges[k].from \notin Compounds /\ edges[k].to \notin Compounds

\* A node of the graph as given.
OnGraph(v) == v \in nodes \ (Scaffold \union Dummies \union Compounds)

\* Where the nodes of chains are: in no compound yet, on one chain only, between the ranks of
\* its ends, and one rank below the node before.
ChainsStand ==
  /\ Dummies \in SUBSET nodes
  /\ \A v \in Dummies : parents[v] = 0
  /\ \A i \in DOMAIN chains :
       /\ OnGraph(chains[i].from) /\ OnGraph(chains[i].to)
       /\ ~chains[i].reversed =>
            \A v \in ToSet(chains[i].dummies) :
              rank[chains[i].from] < rank[v] /\ rank[v] < rank[chains[i].to]
  /\ \A i, j \in DOMAIN chains : \A v \in ToSet(chains[i].dummies) :
        v \in ToSet(chains[j].dummies) => i = j
  /\ \A s \in DOMAIN segments, i \in DOMAIN chains :
       segments[s].to \in ToSet(chains[i].dummies) /\ ~chains[i].reversed =>
         /\ rank[segments[s].to] = rank[segments[s].from] + 1
         /\ segments[s].from \in {chains[i].from} \union ToSet(chains[i].dummies)

\* A set of nodes that the edges read as written do not leave, nor do they lead from it into c.
AwayFrom(M, c) ==
  \A k \in Given \ reversed : edges[k].from \in M =>
    \A u \in {edges[k].to} : u \in M /\ c \notin Around(u)

\* The edge k leaves its compound c for u, from where no edges lead back.
Exit(k, c, u) ==
  /\ parents[edges[k].from] = c /\ edges[k].to = u
  /\ c # 0 /\ c \notin Around(u)
  /\ \E M : u \in M /\ AwayFrom(M, c)

\* An edge keeps u below the bottom border of c.
KeptBelow(c, u) ==
  \E j \in Positions \ reversed :
    edges[j].from = borders[c][2] /\ edges[j].to = u /\ minlen[j] >= 1

\* There is one for every exit.
ExitsLink ==
  ~config.dfsOnly =>
    \A k \in Given \ reversed : \A c, u : Exit(k, c, u) => KeptBelow(c, u)

\* Edges that need no negative length are never turned by the frames.
NoneShrinks == missed = {} /\ \A k \in Given : minlen[k] >= 0

\* So what exits lead to is below the frame they leave.
ExitsHold ==
  ~config.dfsOnly /\ NoneShrinks =>
    \A k \in Given \ reversed : \A c, u : Exit(k, c, u) => MaxRank(c) < rank[u]

\* The nodes of chains are on no edge of the graph.
ChainsOff == \A k \in Given : edges[k].from \notin Dummies /\ edges[k].to \notin Dummies

\* Each round of the loop adds to the tree.
TreeGrows ==
  /\ phase = "initial" => rounds = 0 /\ inTree = {}
  /\ phase = "grow" =>
       \/ rounds < Cardinality(inTree)
       \/ /\ rounds = Cardinality(inTree) /\ inTree # RankNodes
          /\ \E v \in ToSet(work) : TightFrom(v) # {}
  /\ inTree \in SUBSET RankNodes /\ rounds \in Nat

\* The inductive invariant of the pipeline, as far as the frames go.
FramesIInv ==
  /\ Shape /\ CompoundsApart /\ TreeGrows
  /\ stage \in {"rank"} \union AfterRanking => DOMAIN borders = Compounds
  /\ stage = "rank" /\ Compounds # {} => FramesLink /\ ExitsLink
  /\ stage \in AfterRanking \ {"order"} => FramesHold
  /\ stage \in AfterRanking => ExitsHold
  /\ stage \in {"chains", "parents"} => ChainsStand
  /\ stage = "parents" => ChainsOff
  /\ stage = "order" => CompoundsHoldTheirNodes
-----------------------------------------------------------------------------
(* The compounds around a node.                                            *)

\* The compounds around a node are the least set that holds its parent and those of its members.
LEMMA AroundClosed ==
  ASSUME DOMAIN parents = nodes, Compounds \in SUBSET nodes, NEW v \in nodes
  PROVE  /\ Around(v) \in SUBSET Compounds
         /\ \A w \in Around(v) \union {v} : parents[w] # 0 => parents[w] \in Around(v)
         /\ \A S \in SUBSET Compounds :
              (\A w \in S \union {v} : parents[w] # 0 => parents[w] \in S) => Around(v) \subseteq S
<1>1. Around(v) \in SUBSET Compounds
  BY DEF Around
<1>2. ASSUME NEW w \in Around(v) \union {v}, parents[w] # 0
      PROVE  parents[w] \in Around(v)
  <2>1. w \in nodes
    BY <1>1
  <2>2. parents[w] \in Compounds
    BY <1>2, <2>1 DEF Compounds
  <2>3. ASSUME NEW C \in SUBSET Compounds, {parents[x] : x \in C \union {v}} \ {0} \subseteq C
        PROVE  parents[w] \in C
    <3>1. w \in C \union {v}
      BY <1>2, <2>3 DEF Around
    <3> QED  BY <3>1, <2>3, <1>2
  <2> QED  BY <2>2, <2>3 DEF Around
<1>3. ASSUME NEW S \in SUBSET Compounds, \A w \in S \union {v} : parents[w] # 0 => parents[w] \in S
      PROVE  Around(v) \subseteq S
  <2>1. {parents[x] : x \in S \union {v}} \ {0} \subseteq S
    BY <1>3
  <2> QED  BY <2>1 DEF Around
<1> QED  BY <1>1, <1>2, <1>3

\* Whatever is around a compound around v is around v.
LEMMA AroundOut ==
  ASSUME DOMAIN parents = nodes, Compounds \in SUBSET nodes, NEW v \in nodes, NEW c \in Around(v)
  PROVE  Around(c) \subseteq Around(v)
<1>1. c \in nodes /\ Around(v) \in SUBSET Compounds
  BY AroundClosed
<1>2. \A w \in Around(v) \union {c} : parents[w] # 0 => parents[w] \in Around(v)
  BY AroundClosed
<1> QED  BY <1>1, <1>2, AroundClosed

\* The compounds around a node: the one it is in and those around that.
LEMMA AroundStep ==
  ASSUME DOMAIN parents = nodes, Compounds \in SUBSET nodes, NEW v \in nodes
  PROVE  Around(v) = IF parents[v] = 0 THEN {} ELSE {parents[v]} \union Around(parents[v])
<1>1. CASE parents[v] = 0
  <2>1. {} \in SUBSET Compounds /\ \A w \in {} \union {v} : parents[w] # 0 => parents[w] \in {}
    BY <1>1
  <2>2. \A S \in SUBSET Compounds :
          (\A w \in S \union {v} : parents[w] # 0 => parents[w] \in S) => Around(v) \subseteq S
    BY AroundClosed
  <2>3. Around(v) \subseteq {}
    BY <2>1, <2>2
  <2> QED  BY <1>1, <2>3
<1>2. CASE parents[v] # 0
  <2> DEFINE p == parents[v]
  <2>1. p \in Around(v) /\ p \in Compounds /\ p \in nodes
    BY <1>2, AroundClosed
  <2>2. Around(p) \subseteq Around(v)
    BY <2>1, AroundOut
  <2>3. Around(p) \in SUBSET Compounds /\ \A w \in Around(p) \union {p} : parents[w] # 0 => parents[w] \in Around(p)
    BY <2>1, AroundClosed
  <2>4. Around(v) \subseteq {p} \union Around(p)
    <3>1. {p} \union Around(p) \in SUBSET Compounds
      BY <2>1, <2>3
    <3>2. \A w \in ({p} \union Around(p)) \union {v} : parents[w] # 0 => parents[w] \in {p} \union Around(p)
      BY <2>3
    <3> QED  BY <3>1, <3>2, AroundClosed
  <2> QED  BY <1>2, <2>1, <2>2, <2>4
<1> QED  BY <1>1, <1>2

\* Nothing is in itself.
LEMMA AroundOuter ==
  ASSUME DOMAIN parents = nodes, Compounds \in SUBSET nodes, NoCircle
  PROVE  \A v \in nodes : v \notin Around(v)
<1> SUFFICES ASSUME NEW v \in nodes, v \in Around(v) PROVE FALSE
  OBVIOUS
<1> DEFINE C == {c \in Compounds : v \in Around(c)}
<1>1. v \in Compounds
  BY AroundClosed
<1>2. v \in C
  BY <1>1
<1>3. ASSUME NEW c \in C PROVE parents[c] \in C
  <2>1. c \in nodes /\ c \in Compounds /\ v \in Around(c)
    OBVIOUS
  <2>2. /\ parents[c] # 0
        /\ v \in {parents[c]} \union Around(parents[c])
    BY <2>1, AroundStep
  <2>3. parents[c] \in Compounds
    BY <2>1, <2>2 DEF Compounds
  <2> QED  BY <2>2, <2>3, <1>2
<1>4. C \in SUBSET Compounds /\ C # {}
  BY <1>2
<1> QED  BY <1>3, <1>4 DEF NoCircle

\* Two compounds around a node lie one in the other.
LEMMA AroundCompared ==
  ASSUME DOMAIN parents = nodes, Compounds \in SUBSET nodes, NEW v \in nodes,
         NEW c \in Around(v), NEW d \in Around(v), c # d
  PROVE  c \in Around(d) \/ d \in Around(c)
<1> DEFINE S == {x \in Around(v) : \A y \in Around(v) : y = x \/ y \in Around(x) \/ x \in Around(y)}
<1>1. S \in SUBSET Compounds /\ S \subseteq Around(v)
  BY AroundClosed
<1>2. ASSUME NEW w \in S \union {v}, parents[w] # 0
      PROVE  parents[w] \in S
  <2> DEFINE q == parents[w]
  <2>1. q \in Around(v)
    BY <1>2, AroundClosed
  <2>2. w \in nodes /\ Around(w) = {q} \union Around(q)
    BY <1>1, <1>2, AroundStep
  <2>3. ASSUME NEW y \in Around(v) PROVE y = q \/ y \in Around(q) \/ q \in Around(y)
    <3>1. y \in nodes
      BY AroundClosed
    <3>2. CASE w = v
      BY <2>2, <2>3, <3>2
    <3>3. CASE w \in S
      <4>1. y = w \/ y \in Around(w) \/ w \in Around(y)
        BY <3>3
      <4>2. w \in Around(y) => q \in Around(y)
        BY <2>2, <3>1, AroundOut
      <4> QED  BY <4>1, <4>2, <2>2
    <3> QED  BY <3>2, <3>3, <1>2
  <2> QED  BY <2>1, <2>3
<1>3. \A C \in SUBSET Compounds :
        (\A w \in C \union {v} : parents[w] # 0 => parents[w] \in C) => Around(v) \subseteq C
  BY AroundClosed
<1>4. Around(v) \subseteq S
  <2> HIDE DEF S
  <2> QED  BY <1>1, <1>2, <1>3
<1> QED  BY <1>4

\* The compounds around a node depend on the parents of compounds only.
LEMMA AroundStays ==
  ASSUME Compounds' = Compounds, NEW v, parents'[v] = parents[v],
         \A c \in Compounds : parents'[c] = parents[c]
  PROVE  Around(v)' = Around(v)
<1>1. \A C \in SUBSET Compounds :
        {parents'[w] : w \in C \union {v}} = {parents[w] : w \in C \union {v}}
  OBVIOUS
<1> QED  BY <1>1 DEF Around

\* A set of compounds around a node has an innermost one.
LEMMA InnermostIs ==
  ASSUME DOMAIN parents = nodes, Compounds \in SUBSET nodes, IsFiniteSet(nodes), NoCircle,
         NEW v \in nodes, NEW S, S \subseteq Around(v), S # {}
  PROVE  Innermost(S) \in S /\ S \subseteq {Innermost(S)} \union Around(Innermost(S))
<1> DEFINE inner == {c \in S : \A d \in S \ {c} : d \in Around(c)}
           C == {x \in Compounds : \E d \in S : x \in Around(d)}
<1>1. S \in SUBSET Compounds /\ S \in SUBSET nodes
  BY AroundClosed
<1>2. \A c, d \in S : c # d => c \in Around(d) \/ d \in Around(c)
  BY AroundCompared
<1>3. \E c \in S : Cardinality(Around(c)) \in Nat /\ \A d \in S : Cardinality(Around(d)) <= Cardinality(Around(c))
  <2> DEFINE N == {Cardinality(Around(c)) : c \in S}
  <2>1. ASSUME NEW c \in S
        PROVE  IsFiniteSet(Around(c)) /\ Cardinality(Around(c)) \in 0..Cardinality(nodes)
    <3>1. Around(c) \subseteq nodes
      BY <1>1, AroundClosed
    <3> QED  BY <3>1, FS_Subset, FS_CardinalityType
  <2>2. N \in SUBSET (0..Cardinality(nodes)) /\ N # {} /\ Cardinality(nodes) \in Nat
    BY <2>1, FS_CardinalityType
  <2> HIDE DEF N
  <2>3. IsFiniteSet(N) /\ N \in SUBSET Int
    <3>1. IsFiniteSet(0..Cardinality(nodes))
      BY <2>2, FS_Interval
    <3>2. IsFiniteSet(N)
      BY <2>2, <3>1, FS_Subset
    <3> QED  BY <2>2, <3>2
  <2>4. \E n \in N : \A m \in N : m <= n
    <3>1. Max(N) \in N /\ Max(N) \in Int /\ \A y \in N : Max(N) >= y
      BY <2>2, <2>3, GreatestInteger
    <3> QED  BY <2>3, <3>1
  <2>5. PICK n \in N : \A m \in N : m <= n
    BY <2>4
  <2> QED  BY <2>1, <2>5 DEF N
<1>4. PICK c \in S : Cardinality(Around(c)) \in Nat /\ \A d \in S : Cardinality(Around(d)) <= Cardinality(Around(c))
  BY <1>3
<1>5. ASSUME NEW d \in S \ {c} PROVE d \in Around(c)
  <2> SUFFICES ASSUME d \notin Around(c) PROVE FALSE
    OBVIOUS
  <2>1. c \in Around(d) /\ c \in nodes /\ d \in nodes
    BY <1>1, <1>2
  <2>2. {c} \union Around(c) \subseteq Around(d) /\ c \notin Around(c)
    BY <2>1, AroundOut, AroundOuter
  <2>3. IsFiniteSet(Around(d)) /\ IsFiniteSet(Around(c))
    <3>1. Around(c) \subseteq nodes /\ Around(d) \subseteq nodes
      BY <2>1, AroundClosed
    <3> QED  BY <3>1, FS_Subset
  <2>4. Cardinality(Around(c) \union {c}) = Cardinality(Around(c)) + 1
    BY <2>2, <2>3, FS_AddElement
  <2>5. Cardinality(Around(c) \union {c}) <= Cardinality(Around(d))
    <3>1. Around(c) \union {c} \subseteq Around(d)
      BY <2>2
    <3> QED  BY <3>1, <2>3, FS_Subset
  <2>6. Cardinality(Around(d)) \in Nat /\ Cardinality(Around(c)) \in Nat
    BY <2>3, FS_CardinalityType
  <2> QED  BY <1>4, <2>4, <2>5, <2>6
<1>6. \E x \in S : \A d \in S \ {x} : d \in Around(x)
  BY <1>5
<1>7. Innermost(S) \in S /\ \A d \in S \ {Innermost(S)} : d \in Around(Innermost(S))
  BY <1>6 DEF Innermost
<1> QED  BY <1>7
-----------------------------------------------------------------------------
(* parent_dummy_chains, on frames that hold.                               *)

\* The graph between its frames.
Framed == Shape /\ CompoundsApart /\ DOMAIN borders = Compounds /\ FramesHold /\ missed = {}

\* Compounds are nodes, to be placed and on no chain.
LEMMA ApartFacts ==
  ASSUME Shape, CompoundsApart
  PROVE  /\ DOMAIN parents = nodes /\ Compounds \in SUBSET nodes /\ IsFiniteSet(nodes) /\ NoCircle
         /\ 0 \notin nodes
         /\ \A c \in Compounds : c \notin unplaced /\ c \notin Dummies
<1>1. parents \in [nodes -> nodes \union {0}]
  BY DEF CompoundsApart
<1>2. Compounds \in SUBSET nodes
  BY <1>1 DEF Compounds
<1>3. nodes = 1..NodeCount /\ NodeCount \in Nat
  BY DEF Shape
<1>4. IsFiniteSet(nodes)
  BY <1>3, FS_Interval
<1>5. 0 \notin nodes
  BY <1>3
<1> QED  BY <1>1, <1>2, <1>4, <1>5 DEF CompoundsApart, Scaffold, Added

\* Every compound has a frame, and the frame has room.
LEMMA FramedFacts ==
  ASSUME Framed
  PROVE  /\ \A v \in nodes : rank[v] \in Int
         /\ \A c \in Compounds : /\ borders[c][1] \in nodes /\ borders[c][2] \in nodes
                                 /\ MinRank(c) \in Int /\ MaxRank(c) \in Int
                                 /\ MinRank(c) < MaxRank(c)
<1>1. rank \in [nodes -> Int]
  BY DEF Framed, Shape
<1>2. \A c \in Compounds : borders[c][1] \in nodes /\ borders[c][2] \in nodes
  BY DEF Framed, Shape, BordersKept
<1> QED  BY <1>1, <1>2 DEF Framed, FramesHold, MinRank, MaxRank

\* An outer frame begins before an inner one and ends after it.
LEMMA FramesGrow ==
  ASSUME Framed, NEW c \in Compounds, NEW d \in Around(c)
  PROVE  MinRank(d) < MinRank(c) /\ MaxRank(c) < MaxRank(d)
<1> DEFINE S == {x \in Compounds : MinRank(x) < MinRank(c) /\ MaxRank(c) < MaxRank(x)}
<1>1. /\ DOMAIN parents = nodes /\ Compounds \in SUBSET nodes
      /\ \A x \in Compounds : x \notin unplaced /\ x \notin Dummies
  BY ApartFacts DEF Framed
<1>2. ASSUME NEW w \in Compounds, parents[w] # 0
      PROVE  /\ parents[w] \in Compounds
             /\ MinRank(parents[w]) < MinRank(w) /\ MaxRank(w) < MaxRank(parents[w])
  <2>1. parents[w] \in Compounds
    BY <1>1, <1>2 DEF Compounds
  <2>2. w \in nodes \ (unplaced \union Dummies)
    BY <1>1
  <2>3. Holds(parents[w], w)
    BY <1>2, <2>2 DEF Framed, FramesHold
  <2> QED  BY <2>1, <2>3 DEF Holds
<1>3. \A x \in Compounds : MinRank(x) \in Int /\ MaxRank(x) \in Int
  BY FramedFacts
<1>4. ASSUME NEW w \in S \union {c}, parents[w] # 0
      PROVE  parents[w] \in S
  BY <1>2, <1>3, <1>4
<1>5. \A C \in SUBSET Compounds :
        (\A w \in C \union {c} : parents[w] # 0 => parents[w] \in C) => Around(c) \subseteq C
  BY <1>1, AroundClosed
<1>6. S \in SUBSET Compounds
  OBVIOUS
<1>7. Around(c) \subseteq S
  <2> HIDE DEF S
  <2> QED  BY <1>4, <1>5, <1>6
<1> QED  BY <1>7

\* All frames around a node of the graph hold it.
LEMMA FramesHoldNodes ==
  ASSUME Framed, NEW v \in nodes \ (Compounds \union unplaced \union Dummies), NEW c \in Around(v)
  PROVE  /\ MinRank(c) <= rank[v] /\ rank[v] <= MaxRank(c)
         /\ v \notin {borders[c][1], borders[c][2]} => MinRank(c) < rank[v] /\ rank[v] < MaxRank(c)
<1> DEFINE p == parents[v]
<1>1. /\ DOMAIN parents = nodes /\ Compounds \in SUBSET nodes
  BY ApartFacts DEF Framed
<1>2. Around(v) = IF p = 0 THEN {} ELSE {p} \union Around(p)
  BY <1>1, AroundStep
<1>3. p # 0 /\ (c = p \/ c \in Around(p))
  BY <1>2
<1>4. p \in Compounds /\ c \in Compounds
  BY <1>1, <1>3 DEF Compounds, Around
<1>5. Holds(p, v)
  BY <1>3 DEF Framed, FramesHold
<1>6. rank[v] \in Int /\ \A x \in Compounds : MinRank(x) \in Int /\ MaxRank(x) \in Int /\ MinRank(x) < MaxRank(x)
  BY FramedFacts
<1>7. v \notin {borders[p][1], borders[p][2]} => MinRank(p) < rank[v] /\ rank[v] < MaxRank(p)
  BY <1>5 DEF Holds
<1>8. MinRank(p) <= rank[v] /\ rank[v] <= MaxRank(p)
  BY <1>4, <1>6, <1>7 DEF MinRank, MaxRank
<1>9. CASE c = p
  BY <1>7, <1>8, <1>9
<1>10. CASE c \in Around(p)
  <2>1. MinRank(c) < MinRank(p) /\ MaxRank(p) < MaxRank(c)
    BY <1>4, <1>10, FramesGrow
  <2> QED  BY <1>4, <1>6, <1>8, <2>1
<1> QED  BY <1>3, <1>9, <1>10
-----------------------------------------------------------------------------
\* What parent_dummy_chains finds on its way up from one end, and down to the other.
UpAt(from, to, r) ==
  {c \in Around(from) \ (Around(from) \intersect Around(to)) : MaxRank(c) >= r}
DownAt(from, to, r) ==
  {c \in Around(to) \ (Around(from) \intersect Around(to)) :
     \A d \in {c} \union (Around(c) \ (Around(from) \intersect Around(to))) : MinRank(d) <= r}

\* The compounds that parent_dummy_chains puts around the node of a chain on a rank.
HeldAt(from, to, r) ==
  (Around(from) \intersect Around(to)) \union
  (IF UpAt(from, to, r) # {} THEN UpAt(from, to, r) ELSE DownAt(from, to, r))

\* The parent it chooses has these around it, itself included, and no others.
LEMMA ParentOnRankHolds ==
  ASSUME Framed, NEW from \in nodes, NEW to \in nodes, NEW r \in Int
  PROVE  LET p == ParentOnRank(from, to, r)
         IN  /\ p \in Compounds \union {0}
             /\ HeldAt(from, to, r) = IF p = 0 THEN {} ELSE {p} \union Around(p)
<1> DEFINE p == ParentOnRank(from, to, r)
           common == Around(from) \intersect Around(to)
           up == UpAt(from, to, r)
           down == DownAt(from, to, r)
           held == IF up # {} THEN up ELSE IF down # {} THEN down ELSE common
<1>1. p = IF held = {} THEN 0 ELSE Innermost(held)
  BY DEF ParentOnRank, UpAt, DownAt
<1>2. /\ DOMAIN parents = nodes /\ Compounds \in SUBSET nodes /\ IsFiniteSet(nodes) /\ NoCircle
      /\ 0 \notin nodes
  BY ApartFacts DEF Framed
<1>3. Around(from) \in SUBSET Compounds /\ Around(to) \in SUBSET Compounds
  BY DEF Around
<1>4. up \subseteq Around(from) /\ down \subseteq Around(to)
  BY DEF UpAt, DownAt
<1>5. 0 \notin Compounds
  BY <1>2
<1>6. ASSUME NEW x \in Compounds \ common, NEW v \in {from, to}, x \in Around(v)
      PROVE  common \subseteq Around(x)
  <2> SUFFICES ASSUME NEW c \in common PROVE c \in Around(x)
    OBVIOUS
  <2>1. c \in Around(v) /\ c # x /\ c \in nodes
    BY <1>2, <1>3, <1>6
  <2>2. c \in Around(x) \/ x \in Around(c)
    BY <1>2, <1>6, <2>1, AroundCompared
  <2>3. x \notin Around(c)
    <3>1. Around(c) \subseteq Around(from) /\ Around(c) \subseteq Around(to)
      BY <1>2, AroundOut
    <3> QED  BY <3>1, <1>6
  <2> QED  BY <2>2, <2>3
<1>7. CASE up # {}
  <2>1. p = Innermost(up)
    BY <1>1, <1>7
  <2>2. p \in up /\ up \subseteq {p} \union Around(p)
    <3> HIDE DEF up, p
    <3> QED  BY <1>2, <1>4, <1>7, <2>1, InnermostIs
  <2>3. p \in Around(from) /\ p \notin common /\ MaxRank(p) >= r /\ p \in Compounds
    BY <1>3, <2>2 DEF UpAt
  <2>4. ASSUME NEW c \in Around(p) PROVE c \in common \union up
    <3>1. c \in Around(from)
      BY <1>2, <2>3, AroundOut
    <3>2. MaxRank(p) < MaxRank(c) /\ MaxRank(p) \in Int /\ MaxRank(c) \in Int
      BY <1>3, <2>3, <3>1, FramesGrow, FramedFacts
    <3>3. MaxRank(c) >= r
      BY <2>3, <3>2
    <3> QED  BY <3>1, <3>3 DEF UpAt
  <2>5. common \subseteq Around(p)
    BY <2>3, <1>6
  <2>6. HeldAt(from, to, r) = common \union up
    BY <1>7 DEF HeldAt
  <2> HIDE DEF common, up, p
  <2> QED  BY <1>5, <2>2, <2>3, <2>4, <2>5, <2>6 DEF p
<1>8. CASE up = {} /\ down # {}
  <2>1. p = Innermost(down)
    BY <1>1, <1>8
  <2>2. p \in down /\ down \subseteq {p} \union Around(p)
    <3> HIDE DEF down, p
    <3> QED  BY <1>2, <1>4, <1>8, <2>1, InnermostIs
  <2>3. /\ p \in Around(to) /\ p \notin common /\ p \in Compounds
        /\ \A d \in {p} \union (Around(p) \ common) : MinRank(d) <= r
    BY <1>3, <2>2 DEF DownAt
  <2>4. ASSUME NEW c \in Around(p) PROVE c \in common \union down
    <3>1. c \in Around(to) /\ c \in nodes
      BY <1>2, <1>3, <2>3, AroundOut
    <3>2. Around(c) \subseteq Around(p)
      BY <1>2, <2>3, AroundOut
    <3>3. c \notin common => \A d \in {c} \union (Around(c) \ common) : MinRank(d) <= r
      BY <2>3, <3>2
    <3> QED  BY <3>1, <3>3 DEF DownAt
  <2>5. common \subseteq Around(p)
    BY <2>3, <1>6
  <2>6. HeldAt(from, to, r) = common \union down
    BY <1>8 DEF HeldAt
  <2> HIDE DEF common, down, p
  <2> QED  BY <1>5, <2>2, <2>3, <2>4, <2>5, <2>6 DEF p
<1>9. CASE up = {} /\ down = {} /\ common # {}
  <2>1. p = Innermost(common)
    BY <1>1, <1>9
  <2>2. p \in common /\ common \subseteq {p} \union Around(p)
    <3>1. common \subseteq Around(to)
      OBVIOUS
    <3> HIDE DEF common, p
    <3> QED  BY <1>2, <1>9, <2>1, <3>1, InnermostIs
  <2>3. Around(p) \subseteq common
    BY <1>2, <2>2, AroundOut
  <2>4. HeldAt(from, to, r) = common
    BY <1>9 DEF HeldAt
  <2> HIDE DEF p
  <2> QED  BY <1>3, <1>5, <2>2, <2>3, <2>4 DEF p
<1>10. CASE up = {} /\ down = {} /\ common = {}
  BY <1>1, <1>10 DEF HeldAt
<1> QED  BY <1>7, <1>8, <1>9, <1>10

\* The node of a chain on a rank between its ends lies in the frames it gets.
LEMMA HeldAtHolds ==
  ASSUME Framed, NEW from, NEW to, OnGraph(from), OnGraph(to),
         NEW r \in Int, rank[from] < r, r < rank[to],
         NEW c \in HeldAt(from, to, r)
  PROVE  MinRank(c) <= r /\ r <= MaxRank(c)
<1>1. /\ from \in nodes \ (Compounds \union unplaced \union Dummies)
      /\ to \in nodes \ (Compounds \union unplaced \union Dummies)
  BY DEF OnGraph, Scaffold, Added
<1>2. /\ \A d \in Around(from) : MinRank(d) <= rank[from] /\ rank[from] <= MaxRank(d)
      /\ \A d \in Around(to) : MinRank(d) <= rank[to] /\ rank[to] <= MaxRank(d)
  BY <1>1, FramesHoldNodes
<1>3. c \in Compounds /\ (c \in Around(from) \/ c \in Around(to))
  BY DEF HeldAt, UpAt, DownAt, Around
<1>4. MinRank(c) \in Int /\ MaxRank(c) \in Int /\ rank[from] \in Int /\ rank[to] \in Int
  BY <1>1, <1>3, FramedFacts
<1>5. CASE c \in Around(from) \intersect Around(to)
  BY <1>2, <1>4, <1>5
<1>6. CASE c \in UpAt(from, to, r)
  <2>1. c \in Around(from) /\ MaxRank(c) >= r
    BY <1>6 DEF UpAt
  <2> QED  BY <1>2, <1>4, <2>1
<1>7. CASE c \in DownAt(from, to, r)
  <2>1. c \in Around(to) /\ MinRank(c) <= r
    BY <1>7 DEF DownAt
  <2> QED  BY <1>2, <1>4, <2>1
<1> QED  BY <1>5, <1>6, <1>7 DEF HeldAt

\* From its source to its first node a chain leaves no frame.
LEMMA NothingLeftAtSource ==
  ASSUME Framed, NEW from, NEW to, OnGraph(from), OnGraph(to), NEW r \in Int, r = rank[from] + 1
  PROVE  Around(from) \subseteq HeldAt(from, to, r)
<1> SUFFICES ASSUME NEW c \in Around(from) PROVE c \in HeldAt(from, to, r)
  OBVIOUS
<1>1. from \in nodes \ (Compounds \union unplaced \union Dummies) /\ c \in Compounds
  BY DEF OnGraph, Scaffold, Added, Around
<1>2. from \notin {borders[c][1], borders[c][2]}
  BY <1>1 DEF OnGraph, Framed, Shape, BordersKept
<1>3. rank[from] < MaxRank(c) /\ rank[from] \in Int /\ MaxRank(c) \in Int
  BY <1>1, <1>2, FramesHoldNodes, FramedFacts
<1>4. MaxRank(c) >= r
  BY <1>3
<1> QED  BY <1>4 DEF HeldAt, UpAt

\* From one node to the next it leaves only frames that end there.
LEMMA LeftAtTheEnd ==
  ASSUME Framed, NEW from \in nodes, NEW to \in nodes, NEW r \in Int,
         NEW c \in HeldAt(from, to, r), c \notin HeldAt(from, to, r + 1)
  PROVE  r = MaxRank(c)
<1>1. \A d \in Compounds : MinRank(d) \in Int /\ MaxRank(d) \in Int
  BY FramedFacts
<1>2. Around(from) \in SUBSET Compounds /\ Around(to) \in SUBSET Compounds
      /\ \A d : Around(d) \in SUBSET Compounds
  BY DEF Around
<1>3. UpAt(from, to, r + 1) \subseteq UpAt(from, to, r)
  BY <1>1, <1>2 DEF UpAt
<1>4. DownAt(from, to, r) \subseteq DownAt(from, to, r + 1)
  <2> SUFFICES ASSUME NEW d \in DownAt(from, to, r) PROVE d \in DownAt(from, to, r + 1)
    OBVIOUS
  <2> DEFINE D == {d} \union (Around(d) \ (Around(from) \intersect Around(to)))
  <2>1. d \in Around(to) \ (Around(from) \intersect Around(to)) /\ \A x \in D : MinRank(x) <= r
    BY DEF DownAt
  <2>2. \A x \in D : MinRank(x) \in Int
    BY <1>1, <1>2, <2>1
  <2>3. \A x \in D : MinRank(x) <= r + 1
    BY <2>1, <2>2
  <2> QED  BY <2>1, <2>3 DEF DownAt
<1>5. c \notin Around(from) \intersect Around(to)
  BY DEF HeldAt
<1>6. CASE UpAt(from, to, r) # {}
  <2>1. c \in UpAt(from, to, r) /\ c \notin UpAt(from, to, r + 1)
    BY <1>5, <1>6 DEF HeldAt
  <2>2. c \in Around(from) /\ MaxRank(c) >= r /\ ~(MaxRank(c) >= r + 1)
    BY <2>1 DEF UpAt
  <2> QED  BY <1>1, <1>2, <2>2
<1>7. CASE UpAt(from, to, r) = {}
  <2>1. UpAt(from, to, r + 1) = {} /\ c \in DownAt(from, to, r)
    BY <1>3, <1>5, <1>7 DEF HeldAt
  <2> QED  BY <1>4, <2>1 DEF HeldAt
<1> QED  BY <1>6, <1>7

\* It chooses a compound or none.
LEMMA ParentOnRankTyped ==
  ASSUME Shape, CompoundsApart, NEW from \in nodes, NEW to \in nodes, NEW r
  PROVE  ParentOnRank(from, to, r) \in Compounds \union {0}
<1> DEFINE common == Around(from) \intersect Around(to)
           up == UpAt(from, to, r)
           down == DownAt(from, to, r)
           held == IF up # {} THEN up ELSE IF down # {} THEN down ELSE common
<1>1. ParentOnRank(from, to, r) = IF held = {} THEN 0 ELSE Innermost(held)
  BY DEF ParentOnRank, UpAt, DownAt
<1>2. DOMAIN parents = nodes /\ Compounds \in SUBSET nodes /\ IsFiniteSet(nodes) /\ NoCircle
  BY ApartFacts
<1>3. held \subseteq Around(from) \/ held \subseteq Around(to)
  BY DEF UpAt, DownAt
<1>4. Around(from) \in SUBSET Compounds /\ Around(to) \in SUBSET Compounds
  BY DEF Around
<1> HIDE DEF held
<1>5. held # {} => Innermost(held) \in held
  BY <1>2, <1>3, InnermostIs
<1> QED  BY <1>1, <1>3, <1>4, <1>5

\* What AroundStep says of every node, in a form that can be primed.
ParentsAreNodes == DOMAIN parents = nodes /\ Compounds \in SUBSET nodes

AroundFollowsParents ==
  \A w \in nodes, q \in Compounds \union {0} :
    parents[w] = q => Around(w) = IF q = 0 THEN {} ELSE {q} \union Around(q)

\* The compounds around a node: the one it is in and those around that.
LEMMA AroundSteps == ParentsAreNodes => AroundFollowsParents
  BY AroundStep DEF ParentsAreNodes, AroundFollowsParents

\* parent_dummy_chains::run gives parents to the nodes of chains.
LEMMA ParentsAssigned ==
  ASSUME Shape, CompoundsApart, ChainsStand, AssignParents
  PROVE  /\ nodes' = nodes /\ parents' \in [nodes -> nodes \union {0}]
         /\ \A v \in nodes \ Dummies : parents'[v] = parents[v]
         /\ \A i \in DOMAIN chains : \A v \in ToSet(chains[i].dummies) :
              parents'[v] = ParentOnRank(chains[i].from, chains[i].to, rank[v])
         /\ Compounds' = Compounds
         /\ \A v \in nodes \ Dummies : Around(v)' = Around(v)
<1> DEFINE chainOf(v) == CHOOSE i \in DOMAIN chains : v \in ToSet(chains[i].dummies)
           on(v) == ParentOnRank(chains[chainOf(v)].from, chains[chainOf(v)].to, rank[v])
<1>1. nodes' = nodes /\ parents' = [v \in nodes |-> IF v \in Dummies THEN on(v) ELSE parents[v]]
  BY DEF AssignParents, Dummies, graphVars
<1>2. /\ DOMAIN parents = nodes /\ Compounds \in SUBSET nodes
      /\ \A c \in Compounds : c \notin Dummies
  BY ApartFacts
<1>3. Dummies \in SUBSET nodes
  BY DEF ChainsStand
<1>4. ASSUME NEW v \in Dummies PROVE chainOf(v) \in DOMAIN chains /\ v \in ToSet(chains[chainOf(v)].dummies)
  <2>1. \E i \in DOMAIN chains : v \in ToSet(chains[i].dummies)
    BY DEF Dummies
  <2> QED  BY <2>1
<1>5. ASSUME NEW v \in Dummies PROVE on(v) \in Compounds \union {0}
  <2>1. chains[chainOf(v)].from \in nodes /\ chains[chainOf(v)].to \in nodes
    BY <1>4 DEF ChainsStand, OnGraph
  <2> HIDE DEF chainOf
  <2> QED  BY <2>1, ParentOnRankTyped
<1>6. ASSUME NEW i \in DOMAIN chains, NEW v \in ToSet(chains[i].dummies)
      PROVE  parents'[v] = ParentOnRank(chains[i].from, chains[i].to, rank[v])
  <2>1. v \in Dummies
    BY DEF Dummies
  <2>2. chainOf(v) = i
    BY <1>4, <2>1 DEF ChainsStand
  <2> HIDE DEF chainOf
  <2> QED  BY <1>1, <1>3, <2>1, <2>2
<1>7. \A v \in nodes \ Dummies : parents'[v] = parents[v]
  BY <1>1
<1> HIDE DEF on
<1>8. parents' \in [nodes -> nodes \union {0}]
  BY <1>1, <1>2, <1>5 DEF CompoundsApart
<1>9. Compounds' = Compounds
  <2>1. Compounds' = {parents'[v] : v \in nodes} \ {0} /\ Compounds = {parents[v] : v \in nodes} \ {0}
    BY <1>2, <1>8 DEF Compounds
  <2>2. Compounds' \subseteq Compounds
    BY <1>1, <1>2, <1>5, <2>1
  <2>3. ASSUME NEW c \in Compounds PROVE c \in Compounds'
    <3>1. PICK v \in nodes : parents[v] = c /\ c # 0
      BY <2>1
    <3>2. v \notin Dummies
      BY <3>1 DEF ChainsStand
    <3> QED  BY <1>7, <2>1, <3>1, <3>2
  <2> QED  BY <2>2, <2>3
<1>10. \A v \in nodes \ Dummies : Around(v)' = Around(v)
  <2>1. \A c \in Compounds : parents'[c] = parents[c]
    BY <1>2, <1>7
  <2> QED  BY <1>7, <1>9, <2>1, AroundStays
<1> QED  BY <1>1, <1>6, <1>7, <1>8, <1>9, <1>10

\* What is around them then.
LEMMA AroundAssigned ==
  ASSUME Framed, ChainsStand, AssignParents,
         NEW i \in DOMAIN chains, NEW v \in ToSet(chains[i].dummies)
  PROVE  Around(v)' = HeldAt(chains[i].from, chains[i].to, rank[v])
<1>0. Shape /\ CompoundsApart
  BY DEF Framed
<1>1. /\ DOMAIN parents = nodes /\ Compounds \in SUBSET nodes
      /\ \A c \in Compounds : c \notin Dummies
  BY <1>0, ApartFacts
<1>2. v \in nodes /\ chains[i].from \in nodes /\ chains[i].to \in nodes /\ rank[v] \in Int
  BY FramedFacts DEF ChainsStand, OnGraph, Dummies
<1>3. PICK p \in Compounds \union {0} : p = ParentOnRank(chains[i].from, chains[i].to, rank[v])
  BY <1>2, ParentOnRankHolds
<1>4. HeldAt(chains[i].from, chains[i].to, rank[v]) = IF p = 0 THEN {} ELSE {p} \union Around(p)
  BY <1>2, <1>3, ParentOnRankHolds
<1>5. /\ nodes' = nodes /\ parents' \in [nodes -> nodes \union {0}]
      /\ parents'[v] = p
      /\ Compounds' = Compounds
      /\ \A w \in nodes \ Dummies : Around(w)' = Around(w)
  BY <1>0, <1>3, ParentsAssigned
<1>6. Around(v)' = IF p = 0 THEN {} ELSE {p} \union Around(p)'
  <2>1. ParentsAreNodes'
    BY <1>1, <1>5 DEF ParentsAreNodes
  <2>2. AroundFollowsParents'
    BY <2>1, AroundSteps, PTL
  <2> QED  BY <1>2, <1>5, <2>2 DEF AroundFollowsParents
<1>7. p \in Compounds => Around(p)' = Around(p)
  BY <1>1, <1>5
<1> QED  BY <1>1, <1>4, <1>6, <1>7

\* What AssignParents leaves alone.
LEMMA AssigningGround ==
  ASSUME AssignParents, nodes' = nodes, Compounds' = Compounds
  PROVE  /\ UNCHANGED <<nodes, edges, reversed, rank, missed, unplaced, borders, chains, segments,
                        minlen, weight, factor, phase, rounds, inTree, work, config>>
         /\ stage = "parents" /\ stage' = "order"
         /\ PositionNodes' = PositionNodes /\ Dummies' = Dummies /\ BackDummies' = BackDummies
         /\ Added' = Added /\ Links' = Links
         /\ \A c : MinRank(c)' = MinRank(c) /\ MaxRank(c)' = MaxRank(c)
<1>1. /\ UNCHANGED <<nodes, edges, reversed, rank, missed, unplaced, borders, chains, segments,
                     minlen, weight, factor, phase, rounds, inTree, work, config>>
      /\ stage = "parents" /\ stage' = "order"
  BY DEF AssignParents, graphVars, simplexVars, nestingVars, chainVars
<1>2. Added' = Added
  BY <1>1 DEF Added
<1>3. Links' = Links
  BY <1>1, <1>2 DEF Links, TouchesAdded
<1> QED  BY <1>1, <1>2, <1>3 DEF PositionNodes, Dummies, BackDummies, MinRank, MaxRank

\* Nodes lie in the frames around them.
LEMMA AssignedAreHeld ==
  ASSUME Framed, ChainsStand, AssignParents,
         NEW v \in (PositionNodes \ BackDummies)', NEW c \in Around(v)'
  PROVE  HeldBy(c, v)'
<1>0. Shape /\ CompoundsApart
  BY DEF Framed
<1>1. /\ nodes' = nodes /\ Compounds' = Compounds
      /\ \A w \in nodes \ Dummies : Around(w)' = Around(w)
  BY <1>0, ParentsAssigned
<1>2. /\ rank' = rank /\ borders' = borders
      /\ PositionNodes' = PositionNodes /\ Dummies' = Dummies /\ BackDummies' = BackDummies
      /\ MinRank(c)' = MinRank(c) /\ MaxRank(c)' = MaxRank(c)
  BY <1>1, AssigningGround
<1>3. v \in PositionNodes /\ v \notin BackDummies
  BY <1>2
<1>4. /\ MinRank(c) <= rank[v] /\ rank[v] <= MaxRank(c)
      /\ v \notin Dummies \union {borders[c][1], borders[c][2]} =>
           MinRank(c) < rank[v] /\ rank[v] < MaxRank(c)
  <2>1. CASE v \notin Dummies
    <3>1. v \in nodes \ (Compounds \union unplaced \union Dummies) /\ c \in Around(v)
      BY <1>1, <1>3, <2>1 DEF PositionNodes
    <3> QED  BY <3>1, FramesHoldNodes
  <2>2. CASE v \in Dummies
    <3>1. PICK i \in DOMAIN chains : v \in ToSet(chains[i].dummies)
      BY <2>2 DEF Dummies
    <3>2. ~chains[i].reversed
      BY <1>3, <3>1 DEF BackDummies
    <3>3. /\ OnGraph(chains[i].from) /\ OnGraph(chains[i].to)
          /\ rank[chains[i].from] < rank[v] /\ rank[v] < rank[chains[i].to]
          /\ v \in nodes
      BY <2>2, <3>1, <3>2 DEF ChainsStand
    <3>4. c \in HeldAt(chains[i].from, chains[i].to, rank[v])
      BY <3>1, AroundAssigned
    <3>5. rank[v] \in Int
      BY <3>3, FramedFacts
    <3> QED  BY <2>2, <3>3, <3>4, <3>5, HeldAtHolds
  <2> QED  BY <2>1, <2>2
<1> QED  BY <1>2, <1>4 DEF HeldBy, MinRank, MaxRank

\* A chain leaves the frames where they end.
LEMMA AssignedLeave ==
  ASSUME Framed, ChainsStand, AssignParents,
         NEW i \in DOMAIN segments, NEW u, NEW w, segments[i].from = u, segments[i].to = w,
         w \in Dummies \ BackDummies, NEW c \in Around(u)' \ Around(w)'
  PROVE  rank[u] = MaxRank(c)
<1>0. Shape /\ CompoundsApart
  BY DEF Framed
<1>1. \A v \in nodes \ Dummies : Around(v)' = Around(v)
  BY <1>0, ParentsAssigned
<1>2. PICK j \in DOMAIN chains : w \in ToSet(chains[j].dummies)
  BY DEF Dummies
<1>3. ~chains[j].reversed
  BY <1>2 DEF BackDummies
<1>4. /\ rank[w] = rank[u] + 1 /\ u \in {chains[j].from} \union ToSet(chains[j].dummies)
      /\ OnGraph(chains[j].from) /\ OnGraph(chains[j].to)
      /\ Dummies \in SUBSET nodes
  BY <1>2, <1>3 DEF ChainsStand
<1>5. Around(w)' = HeldAt(chains[j].from, chains[j].to, rank[w])
  BY <1>2, AroundAssigned
<1>6. rank[w] \in Int
  BY <1>4, FramedFacts
<1>7. CASE u = chains[j].from
  <2>1. u \in nodes \ Dummies /\ rank[u] \in Int
    BY <1>4, <1>7, FramedFacts DEF OnGraph
  <2>2. Around(u)' = Around(u)
    BY <1>1, <2>1
  <2>3. Around(u) \subseteq HeldAt(chains[j].from, chains[j].to, rank[w])
    BY <1>4, <1>6, <1>7, NothingLeftAtSource
  <2> QED  BY <1>5, <2>2, <2>3
<1>8. CASE u \in ToSet(chains[j].dummies)
  <2>1. Around(u)' = HeldAt(chains[j].from, chains[j].to, rank[u])
    BY <1>8, AroundAssigned
  <2>2. u \in nodes /\ rank[u] \in Int /\ chains[j].from \in nodes /\ chains[j].to \in nodes
    BY <1>4, <1>8, FramedFacts DEF Dummies, OnGraph
  <2> QED  BY <1>4, <1>5, <2>1, <2>2, LeftAtTheEnd
<1> QED  BY <1>4, <1>7, <1>8

\* Once the nodes of chains have parents, the frames hold all nodes.
LEMMA AssignParentsHolds ==
  ASSUME FramesIInv, AssignParents
  PROVE  CompoundsHoldTheirNodes'
<1>1. stage = "parents" /\ stage' = "order" /\ missed' = missed
  BY DEF AssignParents, simplexVars
<1>2. Shape /\ CompoundsApart /\ ChainsStand /\ DOMAIN borders = Compounds /\ FramesHold
  BY <1>1 DEF FramesIInv, AfterRanking
<1>3. CASE missed # {}
  BY <1>1, <1>3 DEF CompoundsHoldTheirNodes
<1>4. CASE missed = {}
  <2>1. Framed
    BY <1>2, <1>4 DEF Framed
  <2>2. nodes' = nodes /\ Compounds' = Compounds
    BY <1>2, ParentsAssigned
  <2>3. /\ rank' = rank /\ segments' = segments
        /\ Dummies' = Dummies /\ BackDummies' = BackDummies /\ Links' = Links
        /\ \A c : MaxRank(c)' = MaxRank(c)
    BY <2>2, AssigningGround
  <2>4. (\A v \in PositionNodes \ BackDummies : \A c \in Around(v) : HeldBy(c, v))'
    BY <1>2, <2>1, AssignedAreHeld
  <2>5. ASSUME NEW i \in Links, segments[i].to \in Dummies \ BackDummies
        PROVE  LeavesWhereItEnds(segments[i])'
    <3>1. PICK u, w : segments[i].from = u /\ segments[i].to = w
      OBVIOUS
    <3>2. \A c \in Around(u)' \ Around(w)' : rank[u] = MaxRank(c)
      BY <1>2, <2>1, <2>5, <3>1, AssignedLeave DEF Links
    <3>3. \A c \in Around(u)' \ Around(w)' : rank'[u] = MaxRank(c)'
      BY <2>3, <3>2
    <3>4. u = (segments[i].from)' /\ w = (segments[i].to)'
      BY <2>3, <3>1
    <3> QED  BY <3>3, <3>4 DEF LeavesWhereItEnds, Around
  <2> QED  BY <1>1, <2>3, <2>4, <2>5 DEF CompoundsHoldTheirNodes
<1> QED  BY <1>3, <1>4
-----------------------------------------------------------------------------
(* Frames up to the ranking.                                               *)

\* Where the compounds stand depends on few variables.
LEMMA ApartStays ==
  ASSUME CompoundsApart, UNCHANGED <<nodes, edges, parents, borders, unplaced, chains>>,
         FrameUp' <=> FrameUp
  PROVE  CompoundsApart' /\ Compounds' = Compounds /\ NodeCount' = NodeCount
<1>1. Compounds' = Compounds /\ Scaffold' = Scaffold /\ Given' = Given /\ NodeCount' = NodeCount
  BY GivenStays
<1>2. Dummies' = Dummies
  BY DEF Dummies
<1> QED  BY <1>1, <1>2 DEF CompoundsApart, NoCircle

\* So does what the frames hold.
LEMMA HoldStays ==
  ASSUME FramesHold, UNCHANGED <<nodes, parents, borders, unplaced, chains, rank, missed>>
  PROVE  FramesHold'
<1>1. Compounds' = Compounds
  BY DEF Compounds
<1>2. Dummies' = Dummies
  BY DEF Dummies
<1>3. \A c : MinRank(c)' = MinRank(c) /\ MaxRank(c)' = MaxRank(c)
  BY DEF MinRank, MaxRank
<1>4. \A c, v : Holds(c, v)' <=> Holds(c, v)
  BY <1>1, <1>3 DEF Holds
<1>5. \A v : Holds(parents[v], v) => Holds(parents[v], v)'
  <2> TAKE v
  <2>1. PICK p : p = parents[v]
    OBVIOUS
  <2>2. p = parents'[v]
    BY <2>1
  <2>3. Holds(p, v)' <=> Holds(p, v)
    BY <1>4
  <2> QED  BY <1>1, <1>3, <2>1, <2>2, <2>3 DEF Holds, MinRank, MaxRank
<1> QED  BY <1>1, <1>2, <1>3, <1>5 DEF FramesHold

\* Outside its loop the tree stays as it is, and its nodes stay nodes to be ranked.
LEMMA TreeStays ==
  ASSUME TreeGrows, phase # "grow", UNCHANGED <<phase, rounds, inTree, config>>,
         Compounds' = Compounds, nodes \subseteq nodes'
  PROVE  TreeGrows'
<1>1. RankNodes \subseteq RankNodes'
  BY DEF RankNodes
<1> QED  BY <1>1 DEF TreeGrows

\* What can_reach_compound has seen at the end: the least set that holds v and what the edges
\* K lead to from its members.
LEMMA LedSettles ==
  ASSUME IsFiniteSet(nodes), NEW K, \A k \in K : edges[k].to \in nodes, NEW v \in nodes
  PROVE  \E M :
           /\ v \in M /\ \A k \in K : edges[k].from \in M => edges[k].to \in M
           /\ \A S : (v \in S /\ \A k \in K : edges[k].from \in S => edges[k].to \in S) => M \subseteq S
           /\ \A c : LeadsInto(K, v, c) <=> \E k \in K : edges[k].from \in M /\ IsDescendant(edges[k].to, c)
<1> DEFINE B(f) == f = [n \in Nat |->
                          IF n = 0 THEN {v}
                          ELSE LET before == f[n - 1]
                               IN  before \union {edges[k].to : k \in {j \in K : edges[j].from \in before}}]
           V == SUBSET nodes
           next(S) == S \union {edges[k].to : k \in {j \in K : edges[j].from \in S}}
           step == [S \in V |-> next(S)]
<1>1. step \in [V -> V]
  OBVIOUS
<1>2. PICK f : Iterates(f, V, {v}, step)
  <2>1. {v} \in V
    OBVIOUS
  <2> HIDE DEF V, step
  <2> QED  BY <1>1, <2>1, IterationExists
<1>3. B(f)
  <2>1. f \in [Nat -> V] /\ f[0] = {v}
    BY <1>2 DEF Iterates
  <2>2. ASSUME NEW n \in Nat, n # 0 PROVE f[n] = next(f[n - 1])
    <3>1. n - 1 \in Nat /\ (n - 1) + 1 = n
      BY <2>2
    <3>2. f[(n - 1) + 1] = step[f[n - 1]]
      BY <1>2, <3>1 DEF Iterates
    <3>3. f[n - 1] \in V
      BY <2>1, <3>1
    <3> HIDE DEF next, V
    <3> QED  BY <3>1, <3>2, <3>3
  <2> QED  BY <2>1, <2>2
<1> DEFINE g == CHOOSE h : B(h)
<1>4. B(g)
  <2> HIDE DEF B
  <2> QED  BY <1>3
<1>5. \A c : LeadsInto(K, v, c) <=>
               \E k \in K : edges[k].from \in g[NodeCount] /\ IsDescendant(edges[k].to, c)
  BY DEF LeadsInto
<1> HIDE DEF g
<1>6. g[0] = {v} /\ \A n \in Nat : g[n + 1] = next(g[n])
  <2>1. ASSUME NEW n \in Nat PROVE g[n + 1] = next(g[n])
    <3>1. n + 1 \in Nat /\ n + 1 # 0 /\ (n + 1) - 1 = n
      OBVIOUS
    <3> QED  BY <1>4, <3>1
  <2> QED  BY <1>4, <2>1
<1>7. \A n \in Nat : g[n] \in V
  <2> DEFINE good == {n \in Nat : g[n] \in V}
  <2>1. 0 \in good
    BY <1>6
  <2>2. ASSUME NEW n \in Nat, n \in good PROVE n + 1 \in good
    BY <1>6, <2>2
  <2>3. Nat \subseteq good
    <3> HIDE DEF good
    <3> QED  BY <2>1, <2>2, Inductive
  <2> QED  BY <2>3
<1>8. Grows(g, nodes)
  <2>1. g = [n \in Nat |-> g[n]]
    BY <1>4
  <2>2. g \in [Nat -> SUBSET nodes]
    <3> HIDE DEF B
    <3> QED  BY <1>7, <2>1
  <2>3. \A n \in Nat : g[n] \subseteq g[n + 1]
    BY <1>6
  <2>4. \A n \in Nat : g[n + 1] = g[n] => g[n + 2] = g[n + 1]
    <3> TAKE n \in Nat
    <3>1. n + 1 \in Nat /\ (n + 1) + 1 = n + 2
      OBVIOUS
    <3>2. g[n + 1] = next(g[n]) /\ g[n + 2] = next(g[n + 1])
      BY <1>6, <3>1
    <3> HIDE DEF next
    <3> QED  BY <3>2
  <2> QED  BY <2>2, <2>3, <2>4 DEF Grows
<1> DEFINE M == g[NodeCount]
<1>9. NodeCount \in Nat /\ g[NodeCount + 1] = g[NodeCount]
  BY <1>8, GrowthEnds, FS_CardinalityType DEF NodeCount
<1>10. \A k \in K : edges[k].from \in M => edges[k].to \in M
  BY <1>6, <1>9
<1>11. v \in M
  <2> DEFINE good == {n \in Nat : v \in g[n]}
  <2>1. 0 \in good
    BY <1>6
  <2>2. ASSUME NEW n \in Nat, n \in good PROVE n + 1 \in good
    BY <1>6, <2>2
  <2>3. Nat \subseteq good
    <3> HIDE DEF good
    <3> QED  BY <2>1, <2>2, Inductive
  <2> QED  BY <1>9, <2>3
<1>12. ASSUME NEW S, v \in S, \A k \in K : edges[k].from \in S => edges[k].to \in S
       PROVE  M \subseteq S
  <2> DEFINE good == {n \in Nat : g[n] \subseteq S}
  <2>1. 0 \in good
    BY <1>6, <1>12
  <2>2. ASSUME NEW n \in Nat, n \in good PROVE n + 1 \in good
    BY <1>6, <1>12, <2>2
  <2>3. Nat \subseteq good
    <3> HIDE DEF good
    <3> QED  BY <2>1, <2>2, Inductive
  <2> QED  BY <1>9, <2>3
<1> QED  BY <1>5, <1>10, <1>11, <1>12

\* The edges K do not lead from v into c: a set that they do not leave parts them.
LEMMA LeadsIntoMeans ==
  ASSUME IsFiniteSet(nodes), NEW K, \A k \in K : edges[k].to \in nodes, NEW v \in nodes, NEW c
  PROVE  ~LeadsInto(K, v, c) <=>
           \E M : /\ v \in M
                  /\ \A k \in K : edges[k].from \in M =>
                       edges[k].to \in M /\ ~IsDescendant(edges[k].to, c)
<1>1. PICK M : /\ v \in M /\ \A k \in K : edges[k].from \in M => edges[k].to \in M
               /\ \A S : (v \in S /\ \A k \in K : edges[k].from \in S => edges[k].to \in S) => M \subseteq S
               /\ LeadsInto(K, v, c) <=> \E k \in K : edges[k].from \in M /\ IsDescendant(edges[k].to, c)
  BY LedSettles
<1> QED  BY <1>1

\* What an exit is depends on the edges as written and on the parents of their ends.
LEMMA ExitStays ==
  ASSUME Given' \ reversed' = Given \ reversed, \A k \in Given : edges'[k] = edges[k],
         Compounds' = Compounds, \A c \in Compounds : parents'[c] = parents[c],
         \A k \in Given : /\ parents'[edges[k].from] = parents[edges[k].from]
                          /\ parents'[edges[k].to] = parents[edges[k].to]
  PROVE  \A k \in Given : \A c, u : Exit(k, c, u)' => Exit(k, c, u)
<1>1. ASSUME NEW k \in Given, NEW u, u = edges[k].to PROVE Around(u)' = Around(u)
  <2>1. parents'[u] = parents[u]
    BY <1>1
  <2> QED  BY <2>1, AroundStays
<1>2. ASSUME NEW M, NEW c, AwayFrom(M, c)' PROVE AwayFrom(M, c)
  <2> SUFFICES ASSUME NEW k \in Given \ reversed, edges[k].from \in M, NEW u, u = edges[k].to
               PROVE  u \in M /\ c \notin Around(u)
    BY DEF AwayFrom
  <2>1. k \in Given' \ reversed' /\ edges'[k].from \in M /\ u \in {edges'[k].to}
    OBVIOUS
  <2>2. u \in M /\ c \notin Around(u)'
    BY <1>2, <2>1 DEF AwayFrom
  <2> QED  BY <1>1, <2>2
<1> TAKE k \in Given
<1> TAKE c, u
<1>3. HAVE Exit(k, c, u)'
<1>4. parents[edges[k].from] = c /\ edges[k].to = u /\ c # 0 /\ c \notin Around(u)'
  BY <1>3 DEF Exit
<1>5. PICK M : u \in M /\ AwayFrom(M, c)'
  BY <1>3 DEF Exit
<1>6. AwayFrom(M, c)
  BY <1>2, <1>5
<1> QED  BY <1>1, <1>4, <1>5, <1>6 DEF Exit

\* What they lead to stays below the frames as long as ranks keep their order.
LEMMA ExitsMove ==
  ASSUME Shape, CompoundsApart, DOMAIN borders = Compounds, ExitsHold,
         UNCHANGED <<config, missed, borders>>, Compounds' = Compounds, Given' = Given,
         \A k \in Given : edges'[k] = edges[k] /\ minlen'[k] = minlen[k],
         NoneShrinks => Given \ reversed' = Given \ reversed,
         \A c \in Compounds : parents'[c] = parents[c],
         \A k \in Given : /\ parents'[edges[k].from] = parents[edges[k].from]
                          /\ parents'[edges[k].to] = parents[edges[k].to],
         \A v, w \in nodes : rank[v] < rank[w] => rank'[v] < rank'[w]
  PROVE  ExitsHold'
<1> SUFFICES ASSUME ~config.dfsOnly, NoneShrinks', NEW k \in Given' \ reversed', NEW c, NEW u, Exit(k, c, u)'
             PROVE  MaxRank(c)' < rank'[u]
  BY DEF ExitsHold
<1>1. NoneShrinks
  BY DEF NoneShrinks
<1>2. k \in Given /\ k \in Given \ reversed /\ Given' \ reversed' = Given \ reversed
  BY <1>1
<1>3. Exit(k, c, u)
  BY <1>2, ExitStays
<1>4. MaxRank(c) < rank[u]
  BY <1>1, <1>2, <1>3 DEF ExitsHold
<1>5. edges[k].from \in nodes /\ edges[k].to \in nodes /\ DOMAIN parents = nodes
  BY <1>2, ShapeEnds, ApartFacts DEF Given
<1>6. u \in nodes /\ c \in Compounds
  BY <1>3, <1>5 DEF Exit, Compounds
<1>7. borders[c][2] \in nodes
  BY <1>6 DEF Shape, BordersKept
<1> QED  BY <1>4, <1>6, <1>7 DEF MaxRank

\* The phases up to the chains give no node another parent.
LEMMA ExitsKeep ==
  ASSUME Shape, CompoundsApart, DOMAIN borders = Compounds, ExitsHold,
         UNCHANGED <<config, missed, borders>>, Compounds' = Compounds, Given' = Given,
         \A k \in Given : edges'[k] = edges[k] /\ minlen'[k] = minlen[k],
         NoneShrinks => Given \ reversed' = Given \ reversed,
         \A v \in nodes : parents'[v] = parents[v],
         \A v, w \in nodes : rank[v] < rank[w] => rank'[v] < rank'[w]
  PROVE  ExitsHold'
<1>1. \A k \in Given : edges[k].from \in nodes /\ edges[k].to \in nodes
  BY ShapeEnds DEF Given
<1>2. Compounds \in SUBSET nodes
  BY ApartFacts
<1> QED  BY <1>1, <1>2, ExitsMove

\* What keeps exits below the frames is there as long as the graph is not written.
LEMMA ExitsLinkStays ==
  ASSUME ExitsLink, UNCHANGED <<nodes, edges, reversed, config, parents, borders, unplaced, minlen>>,
         FrameUp' <=> FrameUp
  PROVE  ExitsLink'
<1>1. Compounds' = Compounds /\ Given' = Given /\ Positions' = Positions
  BY GivenStays
<1>2. \A k \in Given : \A c, u : Exit(k, c, u)' => Exit(k, c, u)
  BY <1>1, ExitStays
<1>3. \A c, u : KeptBelow(c, u)' <=> KeptBelow(c, u)
  BY <1>1 DEF KeptBelow
<1> QED  BY <1>1, <1>2, <1>3 DEF ExitsLink

\* Without compounds nothing is left.
LEMMA NoExits ==
  ASSUME CompoundsApart, Shape, Compounds = {}
  PROVE  ExitsHold
<1>1. \A v \in nodes : parents[v] = 0
  BY ApartFacts DEF Compounds
<1>2. \A k \in Given : edges[k].from \in nodes
  BY ShapeEnds DEF Given
<1> QED  BY <1>1, <1>2 DEF ExitsHold, Exit

\* The pipeline starts with compounds as given.
LEMMA InitIsApart ==
  ASSUME LayeringInit
  PROVE  FramesIInv
<1>1. GraphOK /\ stage = "self_edges" /\ phase = "initial"
  BY InitIsGraph
<1>2. ChainsIInv
  BY InitIsShaped
<1>3. Shape
  BY <1>1, <1>2 DEF ChainsIInv, UpToChains, BeforeRanking
<1>4. /\ borders = <<>> /\ unplaced = {} /\ chains = <<>> /\ inTree = {} /\ rounds = 0
  BY DEF LayeringInit, RankingStart, NestingStart
<1>5. Scaffold = {} /\ Given = Positions
  BY <1>1, <1>4, NothingAdded DEF FrameUp
<1>6. Dummies = {}
  BY <1>4 DEF Dummies
<1>7. NoCircle
  <2>1. PICK input \in Inputs : nodes = input.nodes /\ parents = input.parents
    BY DEF LayeringInit
  <2>2. parents \in [nodes -> nodes \union {0}]
    BY <2>1, InputsAreGraphs
  <2>3. Compounds = {input.parents[v] : v \in input.nodes} \ {0}
    BY <2>1, <2>2 DEF Compounds
  <2> QED  BY <2>1, <2>3, InputsAreGraphs DEF NoCircle
<1>8. \A k \in Positions : edges[k].from \notin Compounds /\ edges[k].to \notin Compounds
  BY <1>1, EdgesJoinNodes DEF GraphOK
<1>9. CompoundsApart
  BY <1>1, <1>5, <1>6, <1>7, <1>8 DEF CompoundsApart, GraphOK
<1>10. TreeGrows
  BY <1>1, <1>4 DEF TreeGrows
<1> QED  BY <1>1, <1>3, <1>9, <1>10 DEF FramesIInv, AfterRanking

\* The phases before the frames: the search, the loop over the compounds, the room for labels.
LEMMA BeforeFramesKeeps ==
  ASSUME RankingIInv, RankingIInv', ChainsIInv', FramesIInv,
         ExtractSelfEdges \/ Search \/ EndSearch \/ CompoundFeedback \/ MakeSpace
  PROVE  FramesIInv'
<1>1. /\ stage \in BeforeRanking \ {"nest"} /\ phase = "initial"
      /\ UNCHANGED <<nodes, parents, borders, unplaced, chains, config, phase, rounds, inTree>>
  <2>1. CASE ExtractSelfEdges
    BY <2>1 DEF ExtractSelfEdges, graphVars, compoundVars, treeVars, nestingVars, chainVars, RankingIInv, BeforeRanking
  <2>2. CASE Search
    BY <2>2 DEF Search, AcyclicNext, Begin, Descend, MarkBack, Pass, Return, Examine, graphVars,
                compoundVars, simplexVars, nestingVars, chainVars, RankingIInv, BeforeRanking
  <2>3. CASE EndSearch
    BY <2>3 DEF EndSearch, graphVars, compoundVars, simplexVars, nestingVars, chainVars, RankingIInv, BeforeRanking
  <2>4. CASE CompoundFeedback
    BY <2>4 DEF CompoundFeedback, ReverseFeedback, graphVars, compoundVars, simplexVars, nestingVars, chainVars, RankingIInv, BeforeRanking
  <2>5. CASE MakeSpace
    BY <2>5 DEF MakeSpace, graphVars, compoundVars, treeVars, nestingVars, chainVars, RankingIInv, BeforeRanking
  <2> QED  BY <2>1, <2>2, <2>3, <2>4, <2>5
<1>2. stage' \in BeforeRanking \/ (stage' = "rank" /\ Compounds = {})
  BY <1>1 DEF ExtractSelfEdges, Search, EndSearch, CompoundFeedback, MakeSpace, BeforeRanking
<1>3. Compounds' = Compounds /\ Dummies' = Dummies
  BY <1>1 DEF Compounds, Dummies
<1>4. Shape' /\ GraphOK'
  BY <1>2 DEF ChainsIInv, RankingIInv, UpToChains, BeforeRanking
<1>5. Scaffold' = {} /\ Given' = Positions'
  <2>1. (borders = <<>> /\ unplaced = {} /\ ~FrameUp)'
    BY <1>1, <1>2, <1>3 DEF FrameUp, BeforeRanking, ChainsIInv
  <2>2. (Scaffold = {})' /\ (Given = Positions)'
    BY <2>1, NothingAdded, PTL
  <2> QED  BY <2>2
<1>6. \A k \in Positions' : edges'[k].from \notin Compounds' /\ edges'[k].to \notin Compounds'
  <2>1. edges' \in Seq([from : nodes' \ Compounds', to : nodes' \ Compounds', orig : Int])
    BY <1>4 DEF GraphOK, NetworkOK
  <2>2. ASSUME NEW k \in DOMAIN edges'
        PROVE  edges'[k] \in [from : nodes' \ Compounds', to : nodes' \ Compounds', orig : Int]
    BY <2>1, EntryOf, Zenon
  <2> QED  BY <2>2 DEF Positions
<1>7. CompoundsApart'
  BY <1>1, <1>3, <1>5, <1>6 DEF FramesIInv, CompoundsApart, NoCircle
<1>8. TreeGrows'
  BY <1>1, <1>3, TreeStays DEF FramesIInv
<1>9. stage' = "rank" => Compounds' = {} /\ DOMAIN borders' = {}
  BY <1>1, <1>2, <1>3 DEF BeforeRanking, ChainsIInv
<1> QED  BY <1>2, <1>4, <1>7, <1>8, <1>9 DEF FramesIInv, AfterRanking, BeforeRanking

\* A compound is one level above what it holds, and no level is below the height.
LEMMA ChildrenAreDeeper ==
  ASSUME GraphOK, NoCircle, NEW c \in Compounds, NEW v \in Children(c)
  PROVE  Height \in Nat /\ Depth(c) \in Nat /\ Height - Depth(c) + 1 >= 1
<1>1. /\ DOMAIN parents = nodes /\ Compounds \in SUBSET nodes /\ IsFiniteSet(nodes)
      /\ IsFiniteSet(Compounds) /\ v \in nodes /\ c \in nodes /\ parents[v] = c /\ c # 0
  BY CompoundsFacts DEF GraphOK, Children, Compounds
<1>2. Around(v) = {c} \union Around(c) /\ c \notin Around(c)
  BY <1>1, AroundStep, AroundOuter
<1>3. IsFiniteSet(Around(c))
  <2>1. Around(c) \subseteq Compounds
    BY DEF Around
  <2> QED  BY <1>1, <2>1, FS_Subset
<1>4. Cardinality(Around(v)) = Cardinality(Around(c)) + 1 /\ Cardinality(Around(c)) \in Nat
  <2>1. Around(v) = Around(c) \union {c}
    BY <1>2
  <2> QED  BY <1>2, <1>3, <2>1, FS_AddElement, FS_CardinalityType
<1>5. Depth(v) = Depth(c) + 1 /\ Depth(c) \in Nat
  BY <1>4 DEF Depth
<1>6. Height \in Nat
  BY <1>1, HeightIsNumber
<1>7. Height + 1 >= Depth(v)
  <2> DEFINE depth == [w \in nodes |-> Depth(w)]
             S == {depth[w] : w \in nodes}
  <2>1. S = {Depth(w) : w \in nodes}
    OBVIOUS
  <2>2. IsFiniteSet(S)
    <3>1. DOMAIN depth = nodes
      OBVIOUS
    <3> HIDE DEF depth
    <3> QED  BY <1>1, <3>1, FiniteImage
  <2>3. S \in SUBSET Int
    BY HeightIsNumber
  <2>4. Depth(v) \in S
    BY <1>1, <2>1
  <2> HIDE DEF S
  <2>5. Max(S) >= Depth(v) /\ Max(S) \in Int
    BY <2>2, <2>3, <2>4, GreatestInteger
  <2> QED  BY <2>1, <2>5 DEF Height
<1> QED  BY <1>5, <1>6, <1>7

\* Edges join the borders of a compound with what it holds.
LEMMA NestLinks ==
  ASSUME GraphOK, NoCircle, Compounds # {}, Nest, NEW c \in Compounds, NEW v \in Children(c)
  PROVE  \E j, k \in Positions' \ Positions :
           /\ edges'[j].from = FrameOf[c][1] /\ minlen'[j] >= 1
           /\ edges'[j].to = IF v \in Compounds THEN FrameOf[v][1] ELSE v
           /\ edges'[k].from = IF v \in Compounds THEN FrameOf[v][2] ELSE v
           /\ edges'[k].to = FrameOf[c][2] /\ minlen'[k] >= 1
<1> DEFINE R == LinksIn(FrameEnds)
           rest == ExitLinks \o RootLinks(FrameOf, Root)
<1>1. AllFrames \in Seq(R) /\ FrameLinks(AllFrames, FrameOf, c, v)
  BY AllFramesTyped
<1>2. ExitLinks \in Seq(R) /\ RootLinks(FrameOf, Root) \in Seq(R)
  <2>1. nodes # {}
    BY CompoundsFacts
  <2> QED  BY <2>1, ExitLinksTyped, RootLinksTyped
<1> HIDE DEF R
<1>3. rest \in Seq(R)
  BY <1>2, Concatenated
<1>4. AddedLinks = AllFrames \o rest
  BY <1>1, <1>2 DEF AddedLinks
<1> HIDE DEF rest
<1>5. \A x \in DOMAIN AllFrames : x \in 1..Len(AddedLinks) /\ AddedLinks[x] = AllFrames[x]
  <2>1. PICK s, t, l : s = AllFrames /\ t = rest /\ l = AddedLinks
    OBVIOUS
  <2>2. s \in Seq(R) /\ t \in Seq(R) /\ l = s \o t
    BY <1>1, <1>3, <1>4, <2>1
  <2>3. Len(l) = Len(s) + Len(t) /\ \A i \in 1..Len(s) : l[i] = s[i]
    BY <2>2, Concatenated
  <2>4. DOMAIN s = 1..Len(s) /\ Len(s) \in Nat /\ Len(t) \in Nat
    BY <2>2
  <2> QED  BY <2>1, <2>3, <2>4
<1> DEFINE len == IF v \in Compounds THEN 1 ELSE Height - Depth(c) + 1
<1>6. PICK x, y \in DOMAIN AllFrames :
        /\ AllFrames[x].from = FrameOf[c][1] /\ AllFrames[x].minlen = len
        /\ AllFrames[x].to = IF v \in Compounds THEN FrameOf[v][1] ELSE v
        /\ AllFrames[y].from = IF v \in Compounds THEN FrameOf[v][2] ELSE v
        /\ AllFrames[y].to = FrameOf[c][2] /\ AllFrames[y].minlen = len
  BY <1>1 DEF FrameLinks
<1>7. len >= 1
  BY ChildrenAreDeeper
<1> HIDE DEF len
<1>8. \A i \in 1..Len(AddedLinks) :
        /\ Len(edges) + i \in Positions' \ Positions
        /\ edges'[Len(edges) + i].from = AddedLinks[i].from
        /\ edges'[Len(edges) + i].to = AddedLinks[i].to
        /\ minlen'[Len(edges) + i] = AddedLinks[i].minlen
  BY NestKeeps
<1>9. PICK j, k : j = Len(edges) + x /\ k = Len(edges) + y
  OBVIOUS
<1>10. x \in 1..Len(AddedLinks) /\ y \in 1..Len(AddedLinks)
       /\ AddedLinks[x] = AllFrames[x] /\ AddedLinks[y] = AllFrames[y]
  BY <1>5
<1>11. /\ j \in Positions' \ Positions /\ k \in Positions' \ Positions
       /\ edges'[j].from = AllFrames[x].from /\ edges'[j].to = AllFrames[x].to
       /\ minlen'[j] = AllFrames[x].minlen
       /\ edges'[k].from = AllFrames[y].from /\ edges'[k].to = AllFrames[y].to
       /\ minlen'[k] = AllFrames[y].minlen
  BY <1>8, <1>9, <1>10
<1> QED  BY <1>6, <1>7, <1>11

\* An edge keeps what an exit leads to below the bottom border.
LEMMA NestExits ==
  ASSUME GraphOK, Compounds # {}, Nest, NEW e \in Exits
  PROVE  \E j \in Positions' \ Positions :
           /\ edges'[j].from = FrameOf[parents[edges[e].from]][2] /\ edges'[j].to = edges[e].to
           /\ minlen'[j] = 1
<1> DEFINE R == LinksIn(FrameEnds)
           roots == RootLinks(FrameOf, Root)
<1>1. AllFrames \in Seq(R)
  <2>1. PICK c \in Compounds : TRUE
    OBVIOUS
  <2>2. PICK v \in nodes : parents[v] = c
    BY <2>1 DEF Compounds, GraphOK
  <2>3. v \in Children(c)
    BY <2>2 DEF Children
  <2> QED  BY <2>1, <2>3, AllFramesTyped
<1>2. ExitLinks \in Seq(R) /\ roots \in Seq(R)
  <2>1. nodes # {}
    BY CompoundsFacts
  <2> QED  BY <2>1, ExitLinksTyped, RootLinksTyped
<1>3. PICK i \in DOMAIN ExitLinks : ExitLinks[i] = Link(FrameOf[parents[edges[e].from]][2], edges[e].to, 1, 0)
  <2> DEFINE exits == InOrder(Exits)
  <2>1. Exits \in SUBSET Int /\ IsFiniteSet(Exits)
    <3>1. Exits \in SUBSET Positions /\ IsFiniteSet(Positions) /\ Positions \in SUBSET Nat
      BY NumbersOfNodes DEF Exits, GraphOK
    <3>2. IsFiniteSet(Exits)
      BY <3>1, FS_Subset, Zenon
    <3> QED  BY <3>1, <3>2
  <2>2. PICK i \in DOMAIN exits : exits[i] = e
    BY <2>1, InOrderFacts
  <2>3. ExitLinks = [x \in DOMAIN exits |->
                       Link(FrameOf[parents[edges[exits[x]].from]][2], edges[exits[x]].to, 1, 0)]
    BY DEF ExitLinks
  <2> HIDE DEF exits
  <2> QED  BY <2>2, <2>3
<1> HIDE DEF R, roots
<1>4. PICK s, t, r, l : s = AllFrames /\ t = ExitLinks /\ r = roots /\ l = AddedLinks
  OBVIOUS
<1>5. l = (s \o t) \o r
  <2>1. AddedLinks = AllFrames \o ExitLinks \o roots
    BY DEF AddedLinks, roots
  <2> QED  BY <1>4, <2>1
<1>6. s \in Seq(R) /\ t \in Seq(R) /\ r \in Seq(R)
  BY <1>1, <1>2, <1>4
<1>7. /\ s \o t \in Seq(R) /\ Len(s \o t) = Len(s) + Len(t)
      /\ \A x \in 1..Len(t) : (s \o t)[Len(s) + x] = t[x]
  BY <1>6, Concatenated
<1>8. Len(s) \in Nat /\ Len(t) \in Nat /\ Len(r) \in Nat /\ DOMAIN t = 1..Len(t)
  BY <1>6
<1>9. PICK m : m = s \o t
  OBVIOUS
<1>10. l = m \o r /\ m \in Seq(R) /\ Len(m) = Len(s) + Len(t)
       /\ m[Len(s) + i] = t[i] /\ i \in 1..Len(t)
  BY <1>3, <1>4, <1>5, <1>7, <1>8, <1>9
<1>11. Len(l) = Len(m) + Len(r) /\ \A x \in 1..Len(m) : l[x] = m[x]
  BY <1>6, <1>10, Concatenated
<1>12. Len(s) + i \in 1..Len(AddedLinks) /\ AddedLinks[Len(s) + i] = ExitLinks[i]
  <2>1. Len(s) + i \in 1..Len(m) /\ Len(s) + i \in 1..Len(l)
    BY <1>8, <1>10, <1>11
  <2> QED  BY <1>4, <1>10, <1>11, <2>1
<1>13. \A x \in 1..Len(AddedLinks) :
         /\ Len(edges) + x \in Positions' \ Positions
         /\ edges'[Len(edges) + x].from = AddedLinks[x].from
         /\ edges'[Len(edges) + x].to = AddedLinks[x].to
         /\ minlen'[Len(edges) + x] = AddedLinks[x].minlen
  BY NestKeeps
<1>14. PICK j : j = Len(edges) + (Len(s) + i)
  OBVIOUS
<1>15. /\ j \in Positions' \ Positions
       /\ edges'[j].from = ExitLinks[i].from /\ edges'[j].to = ExitLinks[i].to
       /\ minlen'[j] = ExitLinks[i].minlen
  BY <1>12, <1>13, <1>14
<1> QED  BY <1>3, <1>15 DEF Link

\* nesting::run_with_policy.
LEMMA FramesAreLinked ==
  ASSUME RankingIInv, RankingIInv', ChainsIInv, ChainsIInv', FramesIInv, FrameCompounds
  PROVE  FramesIInv'
<1>1. /\ stage = "nest" /\ stage' = "rank" /\ Nest
      /\ UNCHANGED <<reversed, config, phase, rounds, inTree, chains>>
      /\ borders' = FrameOf
  BY DEF FrameCompounds, Nest, chainVars, treeVars
<1>2. GraphOK /\ GraphOK' /\ Compounds # {} /\ phase = "initial"
  BY <1>1 DEF RankingIInv, BeforeRanking
<1>3. /\ Shape /\ borders = <<>> /\ unplaced = {} /\ chains = <<>>
      /\ Shape'
  BY <1>1 DEF ChainsIInv, UpToChains, BeforeRanking
<1>4. Dummies = {} /\ Dummies' = {}
  BY <1>1, <1>3 DEF Dummies
<1>5. /\ Scaffold' = (NodeCount + 1)..Root
      /\ Given' = Positions /\ FramesStand'
  BY <1>1, <1>2, NestScaffold
<1>6. /\ Compounds' = Compounds /\ nodes' = 1..Root
      /\ \A k \in Positions : edges'[k] = edges[k]
      /\ \A v \in nodes : parents'[v] = parents[v]
      /\ \A v \in nodes' \ nodes :
           IF v = Root THEN parents'[v] = 0
           ELSE /\ parents'[v] \in Compounds
                /\ v \in {FrameOf[parents'[v]][1], FrameOf[parents'[v]][2]}
  BY <1>1, <1>2, NestKeeps
<1>7. /\ nodes = 1..NodeCount /\ NodeCount \in Nat /\ Root \in Nat /\ NodeCount < Root
      /\ Compounds \in SUBSET nodes /\ DOMAIN parents = nodes
      /\ nodes \subseteq nodes'
      /\ \A d \in Compounds : FrameOf[d][1] > NodeCount /\ FrameOf[d][2] > NodeCount
  BY <1>2, <1>6, CompoundsFacts, FrameEndsFacts DEF GraphOK
<1>8. NoCircle
  BY DEF FramesIInv, CompoundsApart
<1>9. CompoundsApart'
  <2>1. parents' \in [nodes' -> nodes' \union {0}]
    BY <1>2 DEF GraphOK
  <2>2. NoCircle'
    BY <1>6, <1>7, <1>8 DEF NoCircle
  <2>3. Compounds' \intersect (Scaffold' \union Dummies') = {}
    BY <1>4, <1>5, <1>6, <1>7
  <2>4. ASSUME NEW k \in Given' PROVE edges'[k].from \notin Compounds' /\ edges'[k].to \notin Compounds'
    <3>1. k \in Positions
      BY <1>5
    <3>2. edges[k].from \in nodes \ Compounds /\ edges[k].to \in nodes \ Compounds
      BY <1>2, <3>1, EdgesJoinNodes DEF GraphOK
    <3> QED  BY <1>6, <3>1, <3>2
  <2> QED  BY <2>1, <2>2, <2>3, <2>4 DEF CompoundsApart
<1>10. TreeGrows'
  BY <1>1, <1>2, <1>6, <1>7, TreeStays DEF FramesIInv
<1>11. DOMAIN borders' = Compounds'
  BY <1>5 DEF FramesStand
<1>12. FramesLink'
  <2>1. ASSUME NEW v \in nodes', parents'[v] # 0
        PROVE  \/ v \in {borders'[parents'[v]][1], borders'[parents'[v]][2]}
               \/ \E p : p = parents'[v] /\ Framing(p, v)'
    <3>1. CASE v \in nodes
      <4>1. PICK p : p = parents[v]
        OBVIOUS
      <4>2. p = parents'[v] /\ p \in Compounds /\ v \in Children(p)
        BY <1>6, <1>7, <2>1, <3>1, <4>1 DEF Compounds, Children
      <4>3. PICK j, k \in Positions' \ Positions :
              /\ edges'[j].from = FrameOf[p][1] /\ minlen'[j] >= 1
              /\ edges'[j].to = IF v \in Compounds THEN FrameOf[v][1] ELSE v
              /\ edges'[k].from = IF v \in Compounds THEN FrameOf[v][2] ELSE v
              /\ edges'[k].to = FrameOf[p][2] /\ minlen'[k] >= 1
        BY <1>1, <1>2, <1>8, <4>2, NestLinks
      <4>4. reversed' \in SUBSET Positions
        BY <1>1, <1>3 DEF Shape
      <4>5. Framing(p, v)'
        BY <1>1, <1>6, <4>3, <4>4 DEF Framing, TopEnd, BottomEnd
      <4> QED  BY <4>2, <4>5
    <3>2. CASE v \notin nodes
      BY <1>1, <1>6, <2>1, <3>2
    <3> QED  BY <3>1, <3>2
  <2>2. ASSUME NEW c \in Compounds'
        PROVE  \E v \in nodes' : parents'[v] = c /\ v \notin {borders'[c][1], borders'[c][2]}
    <3>1. PICK v \in nodes : parents[v] = c
      BY <1>6, <1>7 DEF Compounds
    <3>2. v \notin {FrameOf[c][1], FrameOf[c][2]}
      BY <1>6, <1>7
    <3> QED  BY <1>1, <1>6, <1>7, <3>1, <3>2
  <2>3. \A v \in nodes' : parents'[v] # 0 =>
          v \in {borders'[parents'[v]][1], borders'[parents'[v]][2]} \/ Framing(parents[v], v)'
    <3> SUFFICES ASSUME NEW v \in nodes', parents'[v] # 0,
                        v \notin {borders'[parents'[v]][1], borders'[parents'[v]][2]}
                 PROVE  Framing(parents[v], v)'
      OBVIOUS
    <3>1. PICK p : p = parents'[v] /\ Framing(p, v)'
      BY <2>1
    <3> QED  BY <3>1 DEF Framing
  <2> QED  BY <2>2, <2>3 DEF FramesLink
<1>13. ExitsLink'
  <2>1. Given = Positions /\ IsFiniteSet(nodes)
    <3>1. Given = Positions
      BY <1>1, <1>3, NothingAdded DEF FrameUp
    <3> QED  BY <1>3, <3>1, ApartFacts DEF FramesIInv
  <2>2. \A k \in Positions : edges[k].from \in nodes /\ edges[k].to \in nodes
    BY <1>2, EdgesJoinNodes DEF GraphOK
  <2>3. ASSUME ~config.dfsOnly, NEW k \in Positions \ reversed, NEW c, NEW u, Exit(k, c, u)'
        PROVE  \E j \in Positions' \ Positions :
                 edges'[j].from = FrameOf[c][2] /\ edges'[j].to = u /\ minlen'[j] >= 1
    <3>1. Exit(k, c, u)
      <4>1. \A d \in Compounds : parents'[d] = parents[d]
        BY <1>6, <1>7
      <4>2. \A j \in Given : /\ parents'[edges[j].from] = parents[edges[j].from]
                             /\ parents'[edges[j].to] = parents[edges[j].to]
        BY <1>6, <2>1, <2>2
      <4>3. Given' \ reversed' = Given \ reversed /\ \A j \in Given : edges'[j] = edges[j]
        BY <1>1, <1>5, <1>6, <2>1
      <4> QED  BY <1>6, <2>1, <2>3, <4>1, <4>2, <4>3, ExitStays
    <3>2. /\ parents[edges[k].from] = c /\ edges[k].to = u /\ c # 0 /\ c \notin Around(u)
          /\ \E M : u \in M /\ AwayFrom(M, c)
      BY <3>1 DEF Exit
    <3>3. ~LeadsInto(Positions \ reversed, u, c)
      <4>1. PICK M : u \in M /\ AwayFrom(M, c)
        BY <3>2
      <4>2. \A j \in Positions \ reversed : edges[j].from \in M =>
              edges[j].to \in M /\ ~IsDescendant(edges[j].to, c)
        BY <2>1, <4>1 DEF AwayFrom, IsDescendant
      <4>3. \A j \in Positions \ reversed : edges[j].to \in nodes
        BY <2>2
      <4>4. u \in nodes
        BY <2>2, <3>2
      <4> QED  BY <2>1, <4>1, <4>2, <4>3, <4>4, LeadsIntoMeans
    <3>4. k \in Exits
      BY <2>3, <3>2, <3>3 DEF Exits, Leaves, IsDescendant
    <3>5. PICK j \in Positions' \ Positions :
            /\ edges'[j].from = FrameOf[parents[edges[k].from]][2] /\ edges'[j].to = edges[k].to
            /\ minlen'[j] = 1
      BY <1>1, <1>2, <3>4, NestExits
    <3> QED  BY <3>2, <3>5
  <2>4. reversed' \in SUBSET Positions
    BY <1>1, <1>3 DEF Shape
  <2>5. ASSUME ~config.dfsOnly, NEW k \in Positions \ reversed, NEW c, NEW u, Exit(k, c, u)'
        PROVE  KeptBelow(c, u)'
    <3>1. PICK j \in Positions' \ Positions :
             edges'[j].from = FrameOf[c][2] /\ edges'[j].to = u /\ minlen'[j] >= 1
      BY <2>3, <2>5
    <3>2. j \in Positions' \ reversed'
      BY <2>4, <3>1
    <3> QED  BY <1>1, <3>1, <3>2 DEF KeptBelow
  <2> QED  BY <1>1, <1>5, <2>5 DEF ExitsLink
<1> QED  BY <1>1, <1>3, <1>9, <1>10, <1>11, <1>12, <1>13 DEF FramesIInv, AfterRanking

\* More of a tree is more nodes.
LEMMA TreeIsLarger ==
  ASSUME NEW N, IsFiniteSet(N), NEW S, NEW T, S \subseteq T, T \subseteq N
  PROVE  /\ Cardinality(S) \in Nat /\ Cardinality(T) \in Nat /\ Cardinality(S) <= Cardinality(T)
         /\ S # T => Cardinality(S) < Cardinality(T)
<1>1. IsFiniteSet(T)
  BY FS_Subset
<1>2. IsFiniteSet(S) /\ Cardinality(S) <= Cardinality(T)
  BY <1>1, FS_Subset
<1>3. Cardinality(S) \in Nat /\ Cardinality(T) \in Nat
  BY <1>1, <1>2, FS_CardinalityType
<1>4. S # T => Cardinality(S) < Cardinality(T)
  <2>1. Cardinality(S) = Cardinality(T) => S = T
    BY <1>1, FS_Subset
  <2> QED  BY <1>2, <1>3, <2>1
<1> QED  BY <1>2, <1>3, <1>4

\* From a node of the tree with a tight edge out of it the tree goes on.
TightGround == NetworkOK /\ inTree \in SUBSET nodes
TightProgress ==
  \A v : \A k \in Positions, w \in RankNodes \ inTree :
    Slack(k) = 0 /\ Joins(k, v, w) => TightFrom(v) # {}

LEMMA TightGoesOn == TightGround => TightProgress
  BY TightFromFacts DEF TightGround, TightProgress

\* The stack without its last element.
LEMMA OthersOnStack ==
  ASSUME NEW R, NEW s \in Seq(R), s # <<>>, NEW x \in ToSet(s), x # Last(s)
  PROVE  x \in ToSet(Front(s))
<1>1. PICK i \in DOMAIN s : s[i] = x
  BY DEF ToSet
<1>2. i \in 1..Len(s) /\ i # Len(s) /\ Len(s) \in Nat
  BY <1>1 DEF Last
<1>3. i \in 1..(Len(s) - 1) /\ Front(s) = [j \in 1..(Len(s) - 1) |-> s[j]]
  BY <1>2 DEF Front
<1>4. i \in DOMAIN Front(s) /\ Front(s)[i] = x
  BY <1>1, <1>3
<1> QED  BY <1>4 DEF ToSet

\* A node off the stack of tight_tree brings nodes, or another on the stack will.
LEMMA GrowTreeGrows ==
  ASSUME NetworkOK, RanksInv, TreeGrows, GrowTree
  PROVE  TreeGrows'
<1>1. /\ NetworkUnchanged /\ phase = "grow" /\ work # <<>>
      /\ UNCHANGED <<rank, missed, rounds>> /\ phase' = "grow"
  BY DEF GrowTree, NetworkUnchanged
<1>2. /\ Positions' = Positions /\ RankNodes' = RankNodes /\ nodes' = nodes /\ edges' = edges
      /\ \A k : Source(k)' = Source(k) /\ Target(k)' = Target(k)
      /\ minlen' = minlen
      /\ \A k, u, w : Joins(k, u, w)' = Joins(k, u, w)
  BY <1>1, NetworkStays
<1>3. \A k : Slack(k)' = Slack(k)
  BY <1>1, <1>2 DEF Slack
<1>4. work \in Seq(inTree) /\ inTree \in SUBSET nodes
  BY <1>1 DEF RanksInv, GrowInv, Tree
<1>5. PICK v \in inTree : v = Last(work)
  BY <1>1, <1>4, LastAndFront
<1> DEFINE tight == TightFrom(v)
           new == {Other(k, v) : k \in tight}
           added == InOrder(tight)
<1>6. /\ tight \in SUBSET Positions
      /\ \A k \in tight : Other(k, v) \in RankNodes \ inTree
  BY <1>4, TightFromFacts
<1> HIDE DEF tight
<1>7. /\ inTree' = inTree \union new
      /\ work' = Front(work) \o [i \in DOMAIN added |-> Other(added[i], v)]
  BY <1>5 DEF GrowTree, Other, tight
<1>8. RankNodes \in SUBSET nodes /\ IsFiniteSet(RankNodes)
  BY RankNodesFacts
<1>9. inTree \in SUBSET RankNodes /\ inTree' \in SUBSET RankNodes /\ rounds \in Nat
  BY <1>6, <1>7 DEF TreeGrows
<1>10. /\ Cardinality(inTree) \in Nat /\ Cardinality(inTree') \in Nat
       /\ Cardinality(inTree) <= Cardinality(inTree')
       /\ inTree # inTree' => Cardinality(inTree) < Cardinality(inTree')
  BY <1>7, <1>8, <1>9, TreeIsLarger
<1>11. CASE rounds < Cardinality(inTree)
  <2>1. rounds < Cardinality(inTree')
    BY <1>9, <1>10, <1>11
  <2> QED  BY <1>1, <1>2, <1>9, <2>1 DEF TreeGrows
<1>12. CASE ~(rounds < Cardinality(inTree))
  <2>1. /\ rounds = Cardinality(inTree) /\ inTree # RankNodes
        /\ \E x \in ToSet(work) : TightFrom(x) # {}
    BY <1>1, <1>12 DEF TreeGrows
  <2>2. CASE tight # {}
    <3>1. inTree # inTree'
      BY <1>6, <1>7, <2>2
    <3>2. rounds < Cardinality(inTree')
      BY <1>10, <2>1, <3>1
    <3> QED  BY <1>1, <1>2, <1>9, <3>2 DEF TreeGrows
  <2>3. CASE tight = {}
    <3>1. inTree' = inTree
      BY <1>7, <2>3
    <3>2. PICK x \in ToSet(work) : TightFrom(x) # {}
      BY <2>1
    <3>3. x # v
      BY <2>3, <3>2 DEF tight
    <3>4. x \in ToSet(Front(work)) /\ Front(work) \in Seq(inTree)
      BY <1>1, <1>4, <1>5, <3>3, OthersOnStack, LastAndFront
    <3>5. work' = Front(work)
      <4>1. added = <<>>
        <5>1. Cardinality({}) = 0 /\ IsFiniteSet({})
          BY FS_EmptySet
        <5>2. {} \in SUBSET Int
          OBVIOUS
        <5>3. InOrder({}) \in [1..0 -> {}]
          <6>1. InOrder({}) \in [1..Cardinality({}) -> {}]
            BY <5>1, <5>2, InOrderFacts
          <6> QED  BY <5>1, <6>1
        <5> QED  BY <2>3, <5>3
      <4>2. Front(work) \o <<>> = Front(work)
        BY <3>4
      <4>3. [i \in DOMAIN added |-> Other(added[i], v)] = <<>>
        BY <4>1
      <4> QED  BY <1>7, <4>2, <4>3
    <3>6. TightFrom(x)' = TightFrom(x)
      BY <1>2, <1>3, <3>1 DEF TightFrom
    <3>7. \E y \in ToSet(work') : TightFrom(y)' # {}
      BY <3>2, <3>4, <3>5, <3>6
    <3> QED  BY <1>1, <1>2, <1>9, <2>1, <3>1, <3>7 DEF TreeGrows
  <2> QED  BY <2>2, <2>3
<1> QED  BY <1>11, <1>12

\* A shift makes an edge tight that leads out of the tree.
LEMMA ShiftTreeGrows ==
  ASSUME NetworkOK, RanksInv, TreeGrows, ShiftTree
  PROVE  TreeGrows'
<1>1. /\ NetworkUnchanged /\ phase = "grow" /\ Crossing # {} /\ work = <<>> /\ inTree # RankNodes
      /\ inTree' = inTree /\ phase' = "grow"
      /\ work' = InOrder(inTree) /\ rounds' = rounds + 1
  BY DEF ShiftTree, NetworkUnchanged
<1>2. /\ NetworkOK' /\ Positions' = Positions /\ RankNodes' = RankNodes /\ nodes' = nodes
      /\ edges' = edges /\ minlen' = minlen
      /\ \A k : Source(k)' = Source(k) /\ Target(k)' = Target(k)
      /\ \A k, u, w : Joins(k, u, w)' = Joins(k, u, w)
  BY <1>1, NetworkStays
<1>3. inTree \in SUBSET nodes /\ rank \in [nodes -> Int] /\ inTree \in SUBSET RankNodes
      /\ rounds \in Nat
  BY <1>1 DEF RanksInv, GrowInv, Tree, TreeGrows
<1>4. RankNodes \in SUBSET nodes /\ IsFiniteSet(RankNodes) /\ RankNodes \in SUBSET Int
      /\ \A k \in Positions : edges[k].from \in RankNodes /\ edges[k].to \in RankNodes
  BY RankNodesFacts
<1>5. Cardinality(inTree) \in Nat
  BY <1>3, <1>4, TreeIsLarger
<1>6. rounds < Cardinality(inTree)
  <2>1. ToSet(work) = {}
    BY <1>1 DEF ToSet
  <2> QED  BY <1>1, <2>1 DEF TreeGrows
<1> DEFINE m == LeastSlackCrossing
           d == IF Source(m) \in inTree THEN Slack(m) ELSE -Slack(m)
<1>7. m \in Crossing /\ m \in Positions
  <2>1. m \in Crossing
    BY <1>1, <1>3, LeastSlackCrossingFacts
  <2> QED  BY <2>1 DEF Crossing
<1>8. rank' = Moved(inTree, d)
  BY DEF ShiftTree, Moved
<1>9. PICK k \in Positions : k = m /\ k \in Crossing
  BY <1>7
<1>10. Slack(k) \in Int
  BY <1>3, SlackIsInt
<1>11. ~(Source(k) \in inTree <=> Target(k) \in inTree)
  BY <1>9 DEF Crossing, Source, Target
<1>12. PICK e \in Int : e = d
  BY <1>9, <1>10
<1>13. SlackIn(Moved(inTree, e), k) = 0
  <2>1. CASE Source(k) \in inTree
    <3>1. Target(k) \notin inTree /\ e = Slack(k)
      BY <1>9, <1>11, <1>12, <2>1
    <3>2. SlackIn(Moved(inTree, e), k) = Slack(k) - e
      BY <1>3, <2>1, <3>1, MovedSlack
    <3> QED  BY <1>10, <3>1, <3>2
  <2>2. CASE Source(k) \notin inTree
    <3>1. Target(k) \in inTree /\ e = -Slack(k)
      BY <1>9, <1>11, <1>12, <2>2
    <3>2. SlackIn(Moved(inTree, e), k) = Slack(k) + e
      BY <1>3, <2>2, <3>1, MovedSlack
    <3> QED  BY <1>10, <3>1, <3>2
  <2> QED  BY <2>1, <2>2
<1> HIDE DEF m, d
<1>14. Slack(k)' = 0
  BY <1>2, <1>8, <1>12, <1>13 DEF Slack, SlackIn
<1>15. PICK v \in inTree, w \in RankNodes \ inTree : Joins(k, v, w)
  <2>1. (edges[k].from \in inTree) # (edges[k].to \in inTree)
    BY <1>9 DEF Crossing
  <2>2. CASE edges[k].from \in inTree
    BY <1>4, <2>1, <2>2 DEF Joins
  <2>3. CASE edges[k].from \notin inTree
    <3>1. edges[k].to \in inTree /\ Joins(k, edges[k].to, edges[k].from)
      BY <2>1, <2>3 DEF Joins
    <3> QED  BY <1>4, <2>3, <3>1
  <2> QED  BY <2>2, <2>3
<1>16. TightFrom(v)' # {}
  <2>1. TightGround'
    BY <1>1, <1>2, <1>3 DEF TightGround
  <2>2. TightProgress'
    BY <2>1, TightGoesOn, PTL
  <2>3. Joins(k, v, w)' /\ k \in Positions' /\ w \in RankNodes' \ inTree'
    BY <1>1, <1>2, <1>15 DEF Joins
  <2> QED  BY <1>14, <2>2, <2>3 DEF TightProgress
<1>17. v \in ToSet(work')
  <2>1. IsFiniteSet(inTree) /\ inTree \in SUBSET Int
    BY <1>3, <1>4, FS_Subset
  <2>2. InOrder(inTree) \in [1..Cardinality(inTree) -> inTree]
        /\ \E i \in 1..Cardinality(inTree) : InOrder(inTree)[i] = v
    BY <2>1, InOrderFacts
  <2> QED  BY <1>1, <2>2 DEF ToSet
<1>18. \E y \in ToSet(work') : TightFrom(y)' # {}
  BY <1>16, <1>17
<1>19. rounds' < Cardinality(inTree) \/ rounds' = Cardinality(inTree)
  BY <1>1, <1>3, <1>5, <1>6
<1> QED  BY <1>1, <1>2, <1>3, <1>18, <1>19 DEF TreeGrows

\* A step of the ranking.
LEMMA RankingGrows ==
  ASSUME NetworkOK, phase # "initial" => RanksInv, TreeGrows, RankingNext
  PROVE  TreeGrows'
<1>1. RankNodes' = RankNodes
  <2>1. NetworkUnchanged
    BY DEF RankingNext, InitialRanks, GrowTree, ShiftTree, FinishTree, Pivot, FinishRanks,
           NetworkUnchanged
  <2> QED  BY <2>1, NetworkStays
<1>2. CASE InitialRanks
  <2>1. rounds = 0 /\ inTree = {} /\ rounds' = rounds
    BY <1>2 DEF InitialRanks, TreeGrows
  <2>2. CASE phase' = "ranked"
    <3>1. inTree' = inTree
      BY <1>2, <2>2 DEF InitialRanks
    <3> QED  BY <1>1, <2>1, <2>2, <3>1 DEF TreeGrows
  <2>3. CASE phase' = "grow"
    <3>1. inTree' = {First} /\ Cardinality(RankNodes) > 1
      BY <1>2, <2>3 DEF InitialRanks
    <3>2. First \in RankNodes
      <4>1. RankNodes # {}
        BY <3>1, FS_EmptySet
      <4> QED  BY <4>1, RankNodesFacts
    <3>3. Cardinality({First}) = 1
      BY FS_Singleton
    <3> QED  BY <1>1, <2>1, <2>3, <3>1, <3>2, <3>3 DEF TreeGrows
  <2> QED  BY <1>2, <2>2, <2>3 DEF InitialRanks
<1>3. CASE GrowTree
  <2>1. RanksInv
    BY <1>3 DEF GrowTree
  <2> QED  BY <1>3, <2>1, GrowTreeGrows
<1>4. CASE ShiftTree
  <2>1. RanksInv
    BY <1>4 DEF ShiftTree
  <2> QED  BY <1>4, <2>1, ShiftTreeGrows
<1>5. CASE FinishTree
  BY <1>1, <1>5 DEF FinishTree, TreeGrows
<1>6. CASE Pivot
  <2>1. rounds' \in Nat
    BY <1>6 DEF Pivot, TreeGrows
  <2> QED  BY <1>1, <1>6, <2>1 DEF Pivot, TreeGrows
<1>7. CASE FinishRanks
  BY <1>1, <1>7 DEF FinishRanks, TreeGrows
<1> QED  BY <1>2, <1>3, <1>4, <1>5, <1>6, <1>7 DEF RankingNext

\* The frames' edges are there for as long as the graph is not written.
LEMMA LinkStays ==
  ASSUME FramesLink, UNCHANGED <<nodes, edges, reversed, parents, borders, minlen>>
  PROVE  FramesLink'
<1>1. Compounds' = Compounds /\ Positions' = Positions
  BY DEF Compounds, Positions
<1>2. \A v : TopEnd(v)' = TopEnd(v) /\ BottomEnd(v)' = BottomEnd(v)
  BY <1>1 DEF TopEnd, BottomEnd
<1>3. \A v : Framing(parents[v], v) => Framing(parents[v], v)'
  BY <1>1, <1>2 DEF Framing, TopEnd, BottomEnd
<1> QED  BY <1>1, <1>3 DEF FramesLink

\* A step of the ranking.
LEMMA RankKeepsFrames ==
  ASSUME RankingIInv, RankingIInv', ChainsIInv, ChainsIInv', FramesIInv, Rank
  PROVE  FramesIInv'
<1>1. /\ stage = "rank" /\ stage' = "rank" /\ RankingNext
      /\ UNCHANGED <<nodes, edges, reversed, config, parents, unplaced, minlen, borders, chains>>
  BY DEF Rank, RankingNext, InitialRanks, GrowTree, ShiftTree, FinishTree, Pivot, FinishRanks,
         graphVars, compoundVars, nestingVars, chainVars
<1>2. NetworkOK /\ (phase # "initial" => RanksInv)
  BY <1>1 DEF RankingIInv, GraphOK
<1>3. Shape'
  BY <1>1 DEF ChainsIInv, UpToChains
<1>4. Compounds' = Compounds
  BY <1>1 DEF Compounds
<1>5. CompoundsApart'
  BY <1>1, <1>4, ApartStays DEF FramesIInv, FrameUp
<1>6. TreeGrows'
  BY <1>1, <1>2, RankingGrows DEF FramesIInv
<1>7. Compounds # {} => FramesLink'
  BY <1>1, LinkStays DEF FramesIInv
<1>8. DOMAIN borders' = Compounds'
  BY <1>1, <1>4 DEF FramesIInv
<1>9. Compounds # {} => ExitsLink'
  BY <1>1, <1>4, ExitsLinkStays DEF FramesIInv, FrameUp
<1> QED  BY <1>1, <1>3, <1>4, <1>5, <1>6, <1>7, <1>8, <1>9 DEF FramesIInv, AfterRanking
-----------------------------------------------------------------------------
(* Frames taken down again.                                                *)

\* Feasible ranks keep what is in a frame between its borders.
LEMMA LinkedFrames ==
  ASSUME Shape, Feasible, FramesLink,
         NEW v \in nodes, NEW c, parents[v] = c, c # 0, c \in Compounds, v \notin {borders[c][1], borders[c][2]}
  PROVE  MinRank(c) < rank[TopEnd(v)] /\ rank[BottomEnd(v)] < MaxRank(c)
<1>1. Framing(c, v)
  <2>1. PICK p : p = parents[v]
    OBVIOUS
  <2>2. v \in {borders[p][1], borders[p][2]} \/ Framing(p, v)
    BY <2>1 DEF FramesLink
  <2> QED  BY <2>1, <2>2
<1>2. PICK j, k \in Positions \ reversed :
        /\ edges[j].from = borders[c][1] /\ edges[j].to = TopEnd(v) /\ minlen[j] >= 1
        /\ edges[k].from = BottomEnd(v) /\ edges[k].to = borders[c][2] /\ minlen[k] >= 1
  BY <1>1 DEF Framing
<1>3. Slack(j) >= 0 /\ Slack(k) >= 0
  BY DEF Feasible
<1>4. /\ Source(j) = borders[c][1] /\ Target(j) = TopEnd(v)
      /\ Source(k) = BottomEnd(v) /\ Target(k) = borders[c][2]
  BY <1>2 DEF Source, Target
<1>5. /\ minlen[j] \in Int /\ rank[Source(j)] \in Int /\ rank[Target(j)] \in Int
      /\ minlen[k] \in Int /\ rank[Source(k)] \in Int /\ rank[Target(k)] \in Int
  BY ShapeEnds
<1>6. /\ rank[Target(j)] - rank[Source(j)] - minlen[j] >= 0
      /\ rank[Target(k)] - rank[Source(k)] - minlen[k] >= 0
  BY <1>3 DEF Slack
<1>7. rank[Source(j)] < rank[Target(j)] /\ rank[Source(k)] < rank[Target(k)]
  BY <1>2, <1>5, <1>6
<1> QED  BY <1>4, <1>7 DEF MinRank, MaxRank

\* So every frame has room, and holds what is in it.
LEMMA FeasibleFramesHold ==
  ASSUME Shape, CompoundsApart, DOMAIN borders = Compounds, Feasible, FramesLink
  PROVE  FramesHold
<1>1. /\ DOMAIN parents = nodes /\ Compounds \in SUBSET nodes /\ IsFiniteSet(nodes)
      /\ IsFiniteSet(Compounds)
  <2>1. DOMAIN parents = nodes /\ Compounds \in SUBSET nodes /\ IsFiniteSet(nodes)
    BY ApartFacts
  <2> QED  BY <2>1, FS_Subset
<1>2. \A c \in Compounds : MinRank(c) \in Int /\ MaxRank(c) \in Int
  <2>1. \A c \in Compounds : borders[c][1] \in nodes /\ borders[c][2] \in nodes
    BY DEF Shape, BordersKept
  <2> QED  BY <2>1 DEF Shape, MinRank, MaxRank
<1>3. \A v \in nodes : rank[v] \in Int
  BY DEF Shape
<1>4. ASSUME NEW c \in Compounds PROVE MinRank(c) < MaxRank(c)
  <2> DEFINE bad == {d \in Compounds : ~(MinRank(d) < MaxRank(d))}
             f == [d \in bad |-> -MinRank(d)]
  <2> SUFFICES ASSUME c \in bad PROVE FALSE
    OBVIOUS
  <2>1. bad \in SUBSET Nat /\ IsFiniteSet(bad) /\ f \in [bad -> Int]
    <3>1. bad \subseteq Compounds /\ nodes \in SUBSET Nat
      BY DEF Shape
    <3>2. IsFiniteSet(bad)
      BY <1>1, <3>1, FS_Subset
    <3>3. \A d \in bad : -MinRank(d) \in Int
      BY <1>2, <3>1
    <3> HIDE DEF bad
    <3> QED  BY <1>1, <3>1, <3>2, <3>3
  <2>2. PICK d \in bad : \A e \in bad : MinRank(e) <= MinRank(d)
    <3>1. \A e \in bad : f[e] = -MinRank(e)
      OBVIOUS
    <3>2. \A e \in bad : MinRank(e) \in Int
      BY <1>2
    <3> HIDE DEF bad, f
    <3>3. PICK d \in bad : \A e \in bad : f[d] < f[e] \/ (f[d] = f[e] /\ d <= e)
      BY <2>1, FirstLeast
    <3>4. \A e \in bad : -MinRank(d) <= -MinRank(e)
      BY <3>1, <3>2, <3>3
    <3>5. \A e \in bad : MinRank(e) <= MinRank(d)
      BY <3>2, <3>4
    <3> QED  BY <3>5
  <2>3. PICK v \in nodes : parents[v] = d /\ v \notin {borders[d][1], borders[d][2]}
    BY DEF FramesLink
  <2>4. MinRank(d) < rank[TopEnd(v)] /\ rank[BottomEnd(v)] < MaxRank(d)
    <3>1. d # 0
      BY DEF Compounds
    <3> QED  BY <2>3, <3>1, LinkedFrames
  <2>5. CASE v \in Compounds
    <3>1. MinRank(d) < MinRank(v) /\ MaxRank(v) < MaxRank(d)
      BY <2>4, <2>5 DEF TopEnd, BottomEnd, MinRank, MaxRank
    <3>2. v \notin bad
      BY <1>2, <2>2, <2>5, <3>1
    <3> QED  BY <1>2, <2>5, <3>1, <3>2
  <2>6. CASE v \notin Compounds
    BY <1>2, <1>3, <2>4, <2>6 DEF TopEnd, BottomEnd
  <2> QED  BY <2>5, <2>6
<1>5. ASSUME NEW v \in nodes, NEW c, c = parents[v], c # 0
      PROVE  Holds(c, v)
  <2>1. c \in Compounds
    BY <1>1, <1>5 DEF Compounds
  <2>2. CASE v \in {borders[c][1], borders[c][2]}
    <3>1. v \in Scaffold
      BY <2>1, <2>2 DEF Shape, BordersKept
    <3>2. v \notin Compounds
      BY <3>1 DEF CompoundsApart
    <3> QED  BY <2>2, <3>2 DEF Holds
  <2>3. CASE v \notin {borders[c][1], borders[c][2]}
    <3>1. MinRank(c) < rank[TopEnd(v)] /\ rank[BottomEnd(v)] < MaxRank(c)
      BY <1>5, <2>1, <2>3, LinkedFrames
    <3> QED  BY <3>1 DEF Holds, TopEnd, BottomEnd, MinRank, MaxRank
  <2> QED  BY <2>2, <2>3
<1>6. \A v \in nodes : parents[v] # 0 => Holds(parents[v], v)
  BY <1>5
<1> QED  BY <1>4, <1>6 DEF FramesHold

\* And what an exit leads to is below the frame.
LEMMA FeasibleExitsHold ==
  ASSUME Shape, Feasible, ExitsLink
  PROVE  ExitsHold
<1> SUFFICES ASSUME ~config.dfsOnly, NEW k \in Given \ reversed, NEW c, NEW u, Exit(k, c, u)
             PROVE  MaxRank(c) < rank[u]
  BY DEF ExitsHold
<1>1. PICK j \in Positions \ reversed :
        edges[j].from = borders[c][2] /\ edges[j].to = u /\ minlen[j] >= 1
  BY DEF ExitsLink, KeptBelow
<1>2. Slack(j) >= 0
  BY DEF Feasible
<1>3. Source(j) = borders[c][2] /\ Target(j) = u
  BY <1>1 DEF Source, Target
<1>4. minlen[j] \in Int /\ rank[Source(j)] \in Int /\ rank[Target(j)] \in Int
  BY ShapeEnds
<1>5. rank[Target(j)] - rank[Source(j)] - minlen[j] >= 0
  BY <1>2 DEF Slack
<1>6. rank[Source(j)] < rank[Target(j)]
  BY <1>1, <1>4, <1>5
<1> QED  BY <1>3, <1>6 DEF MaxRank

\* They hold it through whatever keeps the order of ranks.
LEMMA HoldMoves ==
  ASSUME Shape, CompoundsApart, DOMAIN borders = Compounds, FramesHold,
         UNCHANGED <<nodes, parents, borders, chains, missed>>, unplaced \subseteq unplaced',
         \A v, w \in nodes : rank[v] < rank[w] => rank'[v] < rank'[w]
  PROVE  FramesHold'
<1>1. Compounds' = Compounds /\ Dummies' = Dummies
  BY DEF Compounds, Dummies
<1>2. DOMAIN parents = nodes /\ Compounds \in SUBSET nodes
  BY ApartFacts
<1>3. \A c \in Compounds : borders[c][1] \in nodes /\ borders[c][2] \in nodes
  BY DEF Shape, BordersKept
<1>4. ASSUME missed = {}, NEW c \in Compounds PROVE MinRank(c)' < MaxRank(c)'
  <2>1. MinRank(c) < MaxRank(c)
    BY <1>4 DEF FramesHold
  <2> QED  BY <1>3, <2>1 DEF MinRank, MaxRank
<1>5. ASSUME missed = {}, NEW v \in nodes \ (unplaced' \union Dummies'), NEW c, c = parents'[v], c # 0
      PROVE  Holds(c, v)'
  <2>1. c \in Compounds
    BY <1>2, <1>5 DEF Compounds
  <2>2. Holds(c, v)
    <3>1. v \in nodes \ (unplaced \union Dummies) /\ c = parents[v]
      BY <1>1, <1>5
    <3>2. Holds(parents[v], v)
      BY <1>5, <3>1 DEF FramesHold
    <3> QED  BY <3>1, <3>2 DEF Holds, MinRank, MaxRank
  <2>3. CASE v \in Compounds
    <3>1. MinRank(c) < MinRank(v) /\ MaxRank(v) < MaxRank(c)
      BY <2>2, <2>3 DEF Holds
    <3>2. MinRank(c)' < MinRank(v)' /\ MaxRank(v)' < MaxRank(c)'
      BY <1>3, <2>1, <2>3, <3>1 DEF MinRank, MaxRank
    <3> QED  BY <1>1, <2>3, <3>2 DEF Holds
  <2>4. CASE v \notin Compounds
    <3>1. v \notin {borders[c][1], borders[c][2]} => MinRank(c) < rank[v] /\ rank[v] < MaxRank(c)
      BY <2>2, <2>4 DEF Holds
    <3>2. v \notin {borders'[c][1], borders'[c][2]} => MinRank(c)' < rank'[v] /\ rank'[v] < MaxRank(c)'
      BY <1>3, <2>1, <3>1 DEF MinRank, MaxRank
    <3> QED  BY <1>1, <2>4, <3>2 DEF Holds
  <2> QED  BY <2>3, <2>4
<1>6. ASSUME missed' = {}, NEW v \in nodes' \ (unplaced' \union Dummies'), parents'[v] # 0
      PROVE  Holds(parents[v], v)'
  <2>1. PICK c : c = parents'[v]
    OBVIOUS
  <2>2. Holds(c, v)'
    BY <1>5, <1>6, <2>1
  <2> QED  BY <2>1, <2>2 DEF Holds, MinRank, MaxRank
<1> QED  BY <1>1, <1>4, <1>6 DEF FramesHold

\* rank::remove_empty_ranks and the cleanup.
LEMMA RemoveEmptyRanksHolds ==
  ASSUME RankingIInv, RankingIInv', ChainsIInv, ChainsIInv', FramesIInv,
         stage = "rank", phase = "ranked", Compounds # {}, RemoveEmptyRanks, stage' = "clean_up",
         UNCHANGED <<searchVars, labels, chainVars>>
  PROVE  FramesIInv'
<1>1. UNCHANGED <<nodes, edges, reversed, config, parents, titled, unplaced, minlen, weight,
                  missed, borders, nesting, excluded, factor, chains, phase, rounds, inTree>>
  BY DEF RemoveEmptyRanks, graphVars, compoundVars, treeVars, nestingVars, chainVars
<1>2. Shape /\ CompoundsApart /\ DOMAIN borders = Compounds /\ FramesLink /\ ExitsLink /\ TreeGrows
  BY DEF FramesIInv
<1>3. GraphOK /\ (missed = {} => Feasible)
  BY DEF RankingIInv, RanksInv
<1>4. FramesHold
  BY <1>2, <1>3, FeasibleFramesHold DEF FramesHold
<1>5. \A v, w \in nodes : rank[v] < rank[w] => rank'[v] < rank'[w]
  <2>1. nodes # {} /\ IsFiniteSet(nodes)
    BY <1>3, CompoundsFacts
  <2>2. rank \in [nodes -> Int] /\ factor \in Nat \ {0}
    BY <1>2 DEF Shape
  <2> QED  BY <2>1, <2>2, RanksTakenOut
<1>6. FramesHold'
  BY <1>1, <1>2, <1>4, <1>5, HoldMoves
<1>7. Compounds' = Compounds
  BY <1>1 DEF Compounds
<1>8. CompoundsApart'
  BY <1>1, <1>2, <1>7, ApartStays DEF FrameUp
<1>9. TreeGrows'
  BY <1>1, <1>2, <1>7, TreeStays
<1>10. Shape'
  BY DEF ChainsIInv, UpToChains
<1>11. ExitsHold'
  <2>1. ExitsHold
    BY <1>2, <1>3, FeasibleExitsHold DEF ExitsHold, NoneShrinks
  <2>2. Given' = Given
    BY <1>1, <1>7, GivenStays DEF FrameUp
  <2> QED  BY <1>1, <1>2, <1>5, <1>7, <2>1, <2>2, ExitsKeep
<1> QED  BY <1>1, <1>2, <1>6, <1>7, <1>8, <1>9, <1>10, <1>11 DEF FramesIInv

\* The cleanup takes the root away and shifts all ranks alike.
LEMMA CleanUpHolds ==
  ASSUME RankingIInv, ChainsIInv, ChainsIInv', FramesIInv, stage = "clean_up", CleanUp,
         stage' = "titles", UNCHANGED <<searchVars, labels, chainVars>>
  PROVE  FramesIInv'
<1>1. /\ UNCHANGED <<nodes, edges, reversed, config, parents, titled, minlen,
                     missed, borders, factor, chains, phase, rounds, inTree>>
      /\ unplaced' = unplaced \union {NodeCount}
      /\ rank' = Normalized(rank, PositionNodes \ {NodeCount})
  BY DEF CleanUp, graphVars, treeVars, chainVars
<1>2. Shape /\ CompoundsApart /\ DOMAIN borders = Compounds /\ FramesHold /\ ExitsHold /\ TreeGrows
      /\ phase = "ranked"
  BY DEF FramesIInv, AfterRanking, RankingIInv
<1>3. Compounds' = Compounds /\ NodeCount' = NodeCount /\ Dummies' = Dummies
  BY <1>1 DEF Compounds, NodeCount, Dummies
<1>4. Compounds # {} /\ FrameUp /\ ~FrameUp' /\ FramesStand
  BY DEF ChainsIInv, FrameUp
<1>5. Scaffold' = Scaffold
  <2>1. Added' = Added \union {NodeCount}
    BY <1>1 DEF Added
  <2> QED  BY <1>4, <2>1 DEF Scaffold
<1>6. Given' = Given
  BY <1>1, <1>5 DEF Given, Positions
<1>7. CompoundsApart'
  BY <1>1, <1>2, <1>3, <1>5, <1>6 DEF CompoundsApart, NoCircle
<1>8. PICK d \in Int : rank' = [v \in nodes |-> rank[v] - d]
  <2>1. PositionNodes \ {NodeCount} \in SUBSET nodes
    BY DEF PositionNodes
  <2>2. PICK c \in Compounds : TRUE
    BY <1>4
  <2>3. borders[c][1] \in PositionNodes \ {NodeCount}
    BY <1>4, <2>2 DEF FramesStand, PositionNodes
  <2>4. rank \in [nodes -> Int] /\ IsFiniteSet(nodes)
    BY <1>2, FS_Interval DEF Shape
  <2> QED  BY <1>1, <2>1, <2>3, <2>4, NormalizedShifts
<1>9. \A v, w \in nodes : rank[v] < rank[w] => rank'[v] < rank'[w]
  <2>1. \A v \in nodes : rank[v] \in Int /\ rank'[v] = rank[v] - d
    BY <1>2, <1>8 DEF Shape
  <2> QED  BY <2>1
<1>10. FramesHold'
  BY <1>1, <1>2, <1>9, HoldMoves
<1>11. TreeGrows'
  BY <1>1, <1>2, <1>3, TreeStays
<1>12. Shape'
  BY DEF ChainsIInv, UpToChains
<1>13. ExitsHold'
  BY <1>1, <1>2, <1>3, <1>6, <1>9, ExitsKeep
<1> QED  BY <1>1, <1>2, <1>3, <1>7, <1>10, <1>11, <1>12, <1>13 DEF FramesIInv

\* New nodes that are not to be placed, or on chains, are held by nothing.
LEMMA HoldExtends ==
  ASSUME Shape, CompoundsApart, DOMAIN borders = Compounds, FramesHold,
         UNCHANGED <<borders, missed>>, Compounds' = Compounds, nodes \subseteq nodes',
         \A v \in nodes : parents'[v] = parents[v] /\ rank'[v] = rank[v],
         nodes' \ nodes \subseteq unplaced' \union Dummies',
         unplaced \subseteq unplaced', Dummies \subseteq Dummies'
  PROVE  FramesHold'
<1>1. DOMAIN parents = nodes /\ Compounds \in SUBSET nodes
  BY ApartFacts
<1>2. \A c \in Compounds : borders[c][1] \in nodes /\ borders[c][2] \in nodes
  BY DEF Shape, BordersKept
<1>3. \A c \in Compounds : MinRank(c)' = MinRank(c) /\ MaxRank(c)' = MaxRank(c)
  BY <1>2 DEF MinRank, MaxRank
<1>4. ASSUME missed = {}, NEW c \in Compounds PROVE MinRank(c)' < MaxRank(c)'
  BY <1>3, <1>4 DEF FramesHold
<1>5. ASSUME missed = {}, NEW v \in nodes' \ (unplaced' \union Dummies'), NEW c, c = parents'[v], c # 0
      PROVE  Holds(c, v)'
  <2>1. v \in nodes \ (unplaced \union Dummies) /\ c = parents[v]
    BY <1>5
  <2>2. c \in Compounds
    BY <1>1, <1>5, <2>1 DEF Compounds
  <2>3. Holds(c, v)
    <3>1. Holds(parents[v], v)
      BY <1>5, <2>1 DEF FramesHold
    <3> QED  BY <2>1, <3>1 DEF Holds, MinRank, MaxRank
  <2>4. CASE v \in Compounds
    <3>1. MinRank(c) < MinRank(v) /\ MaxRank(v) < MaxRank(c)
      BY <2>3, <2>4 DEF Holds
    <3>2. MinRank(c)' < MinRank(v)' /\ MaxRank(v)' < MaxRank(c)'
      BY <1>3, <2>2, <2>4, <3>1
    <3> QED  BY <2>4, <3>2 DEF Holds
  <2>5. CASE v \notin Compounds
    <3>1. v \notin {borders[c][1], borders[c][2]} => MinRank(c) < rank[v] /\ rank[v] < MaxRank(c)
      BY <2>3, <2>5 DEF Holds
    <3>2. v \notin {borders'[c][1], borders'[c][2]} => MinRank(c)' < rank'[v] /\ rank'[v] < MaxRank(c)'
      BY <1>3, <2>1, <2>2, <3>1
    <3> QED  BY <2>5, <3>2 DEF Holds
  <2> QED  BY <2>4, <2>5
<1>6. ASSUME missed' = {}, NEW v \in nodes' \ (unplaced' \union Dummies'), parents'[v] # 0
      PROVE  Holds(parents[v], v)'
  <2>1. PICK c : c = parents'[v]
    OBVIOUS
  <2>2. Holds(c, v)'
    BY <1>5, <1>6, <2>1
  <2> QED  BY <2>1, <2>2 DEF Holds, MinRank, MaxRank
<1> QED  BY <1>4, <1>6 DEF FramesHold

\* Nor do they stand among the compounds.
LEMMA ApartExtends ==
  ASSUME Shape, CompoundsApart, Compounds' = Compounds, nodes \subseteq nodes',
         parents' \in [nodes' -> nodes' \union {0}],
         \A v \in nodes : parents'[v] = parents[v],
         (Scaffold' \union Dummies') \intersect nodes \subseteq Scaffold \union Dummies,
         Given' = Given, \A k \in Given : edges'[k] = edges[k]
  PROVE  CompoundsApart'
<1>1. DOMAIN parents = nodes /\ Compounds \in SUBSET nodes
  BY ApartFacts
<1>2. NoCircle'
  BY <1>1 DEF CompoundsApart, NoCircle
<1>3. Compounds \intersect (Scaffold' \union Dummies') = {}
  BY <1>1 DEF CompoundsApart
<1>4. \A k \in Given : edges'[k].from \notin Compounds /\ edges'[k].to \notin Compounds
  BY DEF CompoundsApart
<1> QED  BY <1>2, <1>3, <1>4 DEF CompoundsApart

\* Whom the title nodes belong to.
LEMMA TitlesBelong ==
  ASSUME Shape, titled \in SUBSET Int, IsFiniteSet(titled), InsertTitles
  PROVE  /\ \A v \in nodes : parents'[v] = parents[v]
         /\ \A v \in nodes' \ nodes : parents'[v] \in titled
<1> DEFINE list == InOrder(titled)
           n == Cardinality(titled)
<1>1. n \in Nat /\ list \in [1..n -> titled]
  BY InOrderFacts
<1>2. Len(list) = n
  <2> HIDE DEF list, n
  <2> QED  BY <1>1
<1>3. /\ nodes' = 1..(NodeCount + n)
      /\ parents' = [v \in nodes' |-> IF v \in nodes THEN parents[v] ELSE list[v - NodeCount]]
  BY <1>2 DEF InsertTitles
<1> HIDE DEF list, n
<1>4. NodeCount \in Nat /\ nodes = 1..NodeCount
  BY DEF Shape
<1>5. nodes \subseteq nodes' /\ \A v \in nodes' \ nodes : v - NodeCount \in 1..n
  BY <1>1, <1>3, <1>4
<1>6. \A i \in 1..n : list[i] \in titled
  BY <1>1
<1> QED  BY <1>3, <1>5, <1>6

\* insert_title_nodes.
LEMMA InsertTitlesHolds ==
  ASSUME RankingIInv, ChainsIInv, ChainsIInv', FramesIInv, stage = "titles", InsertTitles,
         stage' = "climbing", UNCHANGED <<searchVars, labels, chainVars>>
  PROVE  FramesIInv'
<1>1. UNCHANGED <<config, reversed, missed, borders, chains, phase, rounds, inTree>>
  BY DEF InsertTitles, treeVars, nestingVars, chainVars
<1>2. /\ Shape /\ CompoundsApart /\ DOMAIN borders = Compounds /\ FramesHold /\ ExitsHold /\ TreeGrows
      /\ phase = "ranked"
  BY DEF FramesIInv, AfterRanking, RankingIInv
<1>3. titled \in SUBSET Int /\ IsFiniteSet(titled) /\ titled \in SUBSET Compounds
  BY <1>2 DEF ChainsIInv, InsertTitles, TitlesHaveBorders
<1>4. PICK n \in Nat : \E list \in [1..n -> titled] :
           /\ nodes' = 1..(NodeCount + n) /\ NodeCount' = NodeCount + n
           /\ Positions = 1..EdgeCount /\ EdgeCount \in Nat
           /\ Positions' = 1..(EdgeCount + n)
           /\ parents' \in [nodes' -> Int] /\ rank' \in [nodes' -> Int]
           /\ minlen' \in [Positions' -> Int] /\ weight' \in [Positions' -> Int]
           /\ edges' \in Seq([from : nodes', to : nodes', orig : Int])
           /\ unplaced' = unplaced \union (nodes' \ nodes)
           /\ \A v \in nodes : rank'[v] = rank[v]
           /\ \A k \in Positions : edges'[k] = edges[k] /\ minlen'[k] = minlen[k]
           /\ \A i \in 1..n : /\ edges'[EdgeCount + i].from = NodeCount + i
                              /\ edges'[EdgeCount + i].to = borders[list[i]][1]
                              /\ borders[list[i]][1] \in nodes
                              /\ rank'[NodeCount + i] = rank[borders[list[i]][1]] - 1
  BY <1>2, <1>3, TitlesAdded
<1>5. /\ nodes' = 1..(NodeCount + n)
      /\ Positions = 1..EdgeCount /\ EdgeCount \in Nat
      /\ Positions' = 1..(EdgeCount + n)
      /\ parents' \in [nodes' -> Int]
      /\ unplaced' = unplaced \union (nodes' \ nodes)
      /\ \A v \in nodes : rank'[v] = rank[v]
      /\ \A k \in Positions : edges'[k] = edges[k] /\ minlen'[k] = minlen[k]
      /\ \A i \in 1..n : edges'[EdgeCount + i].from = NodeCount + i
  BY <1>4
<1>6. /\ NodeCount \in Nat /\ nodes = 1..NodeCount /\ nodes \subseteq nodes'
      /\ Positions \subseteq Positions'
  BY <1>2, <1>5 DEF Shape
<1>7. /\ \A v \in nodes : parents'[v] = parents[v]
      /\ \A v \in nodes' \ nodes : parents'[v] \in Compounds
  BY <1>2, <1>3, TitlesBelong
<1>8. DOMAIN parents = nodes /\ Compounds \in SUBSET nodes /\ parents \in [nodes -> nodes \union {0}]
      /\ 0 \notin nodes
  BY <1>2, ApartFacts DEF CompoundsApart
<1>9. Compounds' = Compounds
  <2>1. Compounds' = {parents'[v] : v \in nodes'} \ {0}
    BY <1>5 DEF Compounds
  <2>2. Compounds = {parents[v] : v \in nodes} \ {0}
    BY <1>8 DEF Compounds
  <2>3. \A v \in nodes' : parents'[v] \in Compounds \union {0}
    BY <1>7, <2>2
  <2>4. \A c \in Compounds : \E v \in nodes' : parents'[v] = c
    BY <1>6, <1>7, <2>2
  <2>5. 0 \notin Compounds
    BY <2>2
  <2> HIDE DEF Compounds
  <2> QED  BY <2>1, <2>3, <2>4, <2>5
<1>10. Dummies' = Dummies /\ ~FrameUp /\ ~FrameUp'
  BY <1>1 DEF Dummies, FrameUp
<1>11. Scaffold' = Scaffold \union (nodes' \ nodes)
  <2>1. Added' = Added \union (nodes' \ nodes)
    BY <1>1, <1>5 DEF Added
  <2> QED  BY <1>10, <2>1 DEF Scaffold
<1>12. Given' = Given
  <2>1. ASSUME NEW k \in Positions PROVE k \in Given' <=> k \in Given
    <3>1. edges[k].from \in nodes /\ edges[k].to \in nodes
      BY <1>2, ShapeEnds
    <3> QED  BY <1>5, <1>6, <1>11, <3>1 DEF Given
  <2>2. ASSUME NEW k \in Positions' \ Positions PROVE k \notin Given'
    <3>1. k - EdgeCount \in 1..n /\ k = EdgeCount + (k - EdgeCount)
      BY <1>5
    <3>2. edges'[k].from = NodeCount + (k - EdgeCount)
      BY <1>5, <3>1
    <3>3. NodeCount + (k - EdgeCount) \in nodes' \ nodes
      BY <1>5, <1>6, <3>1
    <3> QED  BY <1>11, <3>2, <3>3 DEF Given
  <2>3. Given' \in SUBSET Positions' /\ Given \in SUBSET Positions
    BY DEF Given
  <2> QED  BY <2>1, <2>2, <2>3
<1>13. parents' \in [nodes' -> nodes' \union {0}]
  <2>1. \A v \in nodes' : parents'[v] \in nodes' \union {0}
    BY <1>6, <1>7, <1>8
  <2> QED  BY <1>5, <2>1
<1>14. CompoundsApart'
  <2>1. (Scaffold' \union Dummies') \intersect nodes \subseteq Scaffold \union Dummies
    BY <1>10, <1>11
  <2>2. \A k \in Given : edges'[k] = edges[k]
    BY <1>5 DEF Given
  <2> QED  BY <1>2, <1>6, <1>7, <1>9, <1>12, <1>13, <2>1, <2>2, ApartExtends
<1>15. FramesHold'
  BY <1>1, <1>2, <1>5, <1>6, <1>7, <1>9, <1>10, HoldExtends
<1>16. TreeGrows'
  BY <1>1, <1>2, <1>6, <1>9, TreeStays
<1>17. Shape'
  BY DEF ChainsIInv, UpToChains
<1>18. ExitsHold'
  <2>1. \A k \in Given : edges'[k] = edges[k] /\ minlen'[k] = minlen[k]
    BY <1>5 DEF Given
  <2>2. \A v, w \in nodes : rank[v] < rank[w] => rank'[v] < rank'[w]
    BY <1>5
  <2> QED  BY <1>1, <1>2, <1>7, <1>9, <1>12, <2>1, <2>2, ExitsKeep
<1> QED  BY <1>1, <1>2, <1>9, <1>14, <1>15, <1>16, <1>17, <1>18 DEF FramesIInv

\* No chain stands at the start of the loop.
LEMMA NoChainsStand ==
  chains = <<>> /\ segments = <<>> => Dummies = {} /\ ChainsStand
<1> SUFFICES ASSUME chains = <<>>, segments = <<>> PROVE Dummies = {} /\ ChainsStand
  OBVIOUS
<1>1. DOMAIN chains = {} /\ DOMAIN segments = {}
  OBVIOUS
<1>2. Dummies = {}
  BY <1>1 DEF Dummies
<1> QED  BY <1>1, <1>2 DEF ChainsStand

\* Edges that the frames have turned upwards.
LEMMA MarkClimbingHolds ==
  ASSUME RankingIInv, ChainsIInv, ChainsIInv', FramesIInv, stage = "climbing", MarkClimbing,
         stage' = "chains", UNCHANGED <<searchVars, labels, chainVars>>
  PROVE  FramesIInv'
<1>1. UNCHANGED <<nodes, edges, config, parents, titled, unplaced, rank, missed, minlen, borders, phase,
                  rounds, inTree, chains, segments>>
  BY DEF MarkClimbing, compoundVars, simplexVars, treeVars, nestingVars, chainVars
<1>2. /\ Shape /\ CompoundsApart /\ DOMAIN borders = Compounds /\ FramesHold /\ ExitsHold /\ TreeGrows
      /\ phase = "ranked" /\ chains = <<>> /\ segments = <<>> /\ Steps
  BY DEF FramesIInv, AfterRanking, RankingIInv, ChainsIInv, UpToChains
<1>3. CompoundsApart' /\ Compounds' = Compounds
  BY <1>1, <1>2, ApartStays DEF FrameUp
<1>4. FramesHold'
  BY <1>1, <1>2, HoldStays
<1>5. ChainsStand'
  <2>1. (chains = <<>> /\ segments = <<>>)'
    BY <1>1, <1>2
  <2> QED  BY <2>1, NoChainsStand, PTL
<1>6. TreeGrows'
  BY <1>1, <1>2, <1>3, TreeStays
<1>7. Shape'
  BY DEF ChainsIInv, UpToChains
<1>8. NoneShrinks => Given \ reversed' = Given \ reversed
  <2>1. reversed' = reversed \union
          {k \in Positions \ reversed : rank[edges[k].from] > rank[edges[k].to]}
    BY DEF MarkClimbing
  <2>2. ASSUME NoneShrinks, NEW k \in Given \ reversed PROVE k \notin reversed'
    <3>1. k \in Positions /\ Span(k) >= 0
      BY <1>2, <2>2 DEF NoneShrinks, Steps, Given
    <3>2. Source(k) = edges[k].from /\ Target(k) = edges[k].to
      BY DEF Source, Target
    <3>3. rank[Source(k)] \in Int /\ rank[Target(k)] \in Int
      BY <1>2, <3>1, ShapeEnds
    <3>4. ~(rank[Source(k)] > rank[Target(k)])
      BY <3>1, <3>3 DEF Span
    <3> QED  BY <2>1, <3>2, <3>4
  <2> QED  BY <2>1, <2>2
<1>9. ExitsHold'
  <2>1. Given' = Given
    BY <1>1, <1>3, GivenStays DEF FrameUp
  <2> QED  BY <1>1, <1>2, <1>3, <1>8, <2>1, ExitsKeep
<1> QED  BY <1>1, <1>2, <1>3, <1>4, <1>5, <1>6, <1>7, <1>9 DEF FramesIInv

\* A graph without compounds has only its ranks normalized.
LEMMA NormalizeRanksHolds ==
  ASSUME RankingIInv, ChainsIInv, ChainsIInv', FramesIInv, NormalizeRanks
  PROVE  FramesIInv'
<1>1. /\ UNCHANGED <<nodes, edges, config, parents, titled, unplaced, missed, borders, phase,
                     rounds, inTree, chains, segments>>
      /\ stage = "rank" /\ phase = "ranked" /\ Compounds = {} /\ stage' = "chains"
  BY DEF NormalizeRanks, graphVars, compoundVars, treeVars, nestingVars, chainVars
<1>2. /\ Shape /\ CompoundsApart /\ DOMAIN borders = Compounds /\ TreeGrows
      /\ chains = <<>> /\ segments = <<>>
  BY <1>1 DEF FramesIInv, ChainsIInv, UpToChains
<1>3. CompoundsApart' /\ Compounds' = Compounds
  BY <1>1, <1>2, ApartStays DEF FrameUp
<1>4. FramesHold'
  <2>1. DOMAIN parents = nodes
    BY <1>2, ApartFacts
  <2>2. \A v \in nodes : parents'[v] = 0
    BY <1>1, <2>1 DEF Compounds
  <2> QED  BY <1>1, <1>3, <2>2 DEF FramesHold
<1>5. ChainsStand'
  <2>1. (chains = <<>> /\ segments = <<>>)'
    BY <1>1, <1>2
  <2> QED  BY <2>1, NoChainsStand, PTL
<1>6. TreeGrows'
  BY <1>1, <1>2, <1>3, TreeStays
<1>7. Shape'
  BY <1>1 DEF ChainsIInv, UpToChains
<1>8. ExitsHold'
  <2>1. (CompoundsApart /\ Shape /\ Compounds = {})'
    BY <1>1, <1>3, <1>7
  <2> QED  BY <2>1, NoExits, PTL
<1> QED  BY <1>1, <1>2, <1>3, <1>4, <1>5, <1>6, <1>7, <1>8 DEF FramesIInv

\* normalize::run passes an edge of one rank.
LEMMA KeepEdgeHolds ==
  ASSUME RankingIInv, ChainsIInv', FramesIInv, KeepEdge
  PROVE  FramesIInv'
<1>1. /\ UNCHANGED <<nodes, edges, config, parents, titled, unplaced, rank, missed, reversed, minlen, borders, phase,
                     rounds, inTree, chains, segments>>
      /\ stage = "chains" /\ stage' = "chains"
  BY DEF KeepEdge, graphVars, compoundVars, simplexVars, treeVars, nestingVars
<1>2. /\ Shape /\ CompoundsApart /\ DOMAIN borders = Compounds /\ FramesHold /\ ExitsHold /\ TreeGrows
      /\ ChainsStand /\ phase = "ranked"
  BY <1>1 DEF FramesIInv, AfterRanking, RankingIInv
<1>3. CompoundsApart' /\ Compounds' = Compounds
  BY <1>1, <1>2, ApartStays DEF FrameUp
<1>4. FramesHold'
  BY <1>1, <1>2, HoldStays
<1>5. ChainsStand'
  <2>1. Dummies' = Dummies /\ Added' = Added
    BY <1>1 DEF Dummies, Added
  <2>2. Scaffold' = Scaffold
    BY <1>1, <2>1 DEF Scaffold, FrameUp
  <2>3. \A v : OnGraph(v)' <=> OnGraph(v)
    BY <1>1, <1>3, <2>1, <2>2 DEF OnGraph
  <2>4. \A i : OnGraph(chains[i].from)' <=> OnGraph(chains[i].from)
    BY <1>1, <1>3, <2>1, <2>2 DEF OnGraph
  <2>5. \A i : OnGraph(chains[i].to)' <=> OnGraph(chains[i].to)
    BY <1>1, <1>3, <2>1, <2>2 DEF OnGraph
  <2> QED  BY <1>1, <1>2, <2>1, <2>4, <2>5 DEF ChainsStand
<1>6. TreeGrows'
  BY <1>1, <1>2, <1>3, TreeStays
<1>7. Shape'
  BY <1>1 DEF ChainsIInv, UpToChains
<1>8. ExitsHold'
  <2>1. Given' = Given
    BY <1>1, <1>3, GivenStays DEF FrameUp
  <2> QED  BY <1>1, <1>2, <1>3, <2>1, ExitsKeep
<1> QED  BY <1>1, <1>2, <1>3, <1>4, <1>5, <1>6, <1>7, <1>8 DEF FramesIInv
-----------------------------------------------------------------------------
(* Frames and chains.                                                      *)

\* What is appended when a chain is laid.
LEMMA LaidChain ==
  ASSUME NEW k \in Positions, NEW m \in Nat \ {0}, NEW path, Laying(k, m, path)
  PROVE  LET last == Len(chains) + 1
             fresh == (NodeCount + 1)..(NodeCount + m)
         IN  /\ Len(chains) \in Nat /\ DOMAIN chains = 1..Len(chains)
             /\ DOMAIN chains' = DOMAIN chains \union {last}
             /\ \A i \in DOMAIN chains : chains'[i] = chains[i]
             /\ chains'[last].from = edges[k].from /\ chains'[last].to = edges[k].to
             /\ chains'[last].reversed = (k \in reversed)
             /\ ToSet(chains'[last].dummies) = fresh
             /\ \A v \in nodes : parents'[v] = parents[v]
             /\ \A v \in fresh : parents'[v] = 0
<1> USE DEF Laying
<1> DEFINE last == Len(chains) + 1
           fresh == (NodeCount + 1)..(NodeCount + m)
           low == rank[Source(k)]
           high == rank[Target(k)]
           first == NodeCount + 1
           d == [i \in 1..(high - low - 1) |-> first + i - 1]
           chain == [orig |-> edges[k].orig, from |-> edges[k].from, to |-> edges[k].to,
                     reversed |-> k \in reversed, dummies |-> d,
                     label |-> IF edges[k].orig \in labels THEN LabelRank(low, high) - low ELSE 0]
<1>1. /\ k = chained + 1 /\ high = low + m + 1 /\ low \in Int /\ high \in Int
      /\ NodeCount \in Nat /\ nodes = 1..NodeCount /\ nodes' = 1..(NodeCount + m)
  BY ShapeEnds DEF ChainLaid, Shape
<1>2. /\ parents' = [v \in nodes' |-> IF v \in nodes THEN parents[v] ELSE 0]
      /\ chains' = Append(chains, chain)
  BY <1>1 DEF BreakEdge
<1>3. ToSet(d) = fresh
  <2>1. DOMAIN d = 1..m /\ \A i \in 1..m : d[i] = NodeCount + i
    BY <1>1
  <2> HIDE DEF d
  <2>2. ToSet(d) = {d[i] : i \in 1..m}
    BY <2>1 DEF ToSet
  <2>3. \A v \in fresh : v - NodeCount \in 1..m /\ d[v - NodeCount] = v
    BY <1>1, <2>1
  <2>4. \A i \in 1..m : d[i] \in fresh
    BY <1>1, <2>1
  <2> HIDE DEF fresh
  <2> QED  BY <2>2, <2>3, <2>4
<1> HIDE DEF d
<1>4. /\ chain.from = edges[k].from /\ chain.to = edges[k].to /\ chain.dummies = d
      /\ chain.reversed = (k \in reversed)
  <2>1. PICK b \in BOOLEAN : b <=> k \in reversed
    OBVIOUS
  <2>2. chain = [orig |-> edges[k].orig, from |-> edges[k].from, to |-> edges[k].to,
                 reversed |-> b, dummies |-> d,
                 label |-> IF edges[k].orig \in labels THEN LabelRank(low, high) - low ELSE 0]
    BY <2>1
  <2>3. chain.reversed = b
    BY <2>2
  <2>4. chain.reversed = (k \in reversed)
    BY <2>1, <2>3
  <2> QED  BY <2>2, <2>4
<1> HIDE DEF chain
<1>5. /\ Len(chains) \in Nat /\ DOMAIN chains = 1..Len(chains)
      /\ DOMAIN chains' = DOMAIN chains \union {last}
      /\ \A i \in DOMAIN chains : chains'[i] = chains[i]
      /\ chains'[last] = chain
  <2> DEFINE C == ChainsOver(nodes)
  <2>1. chains \in Seq(C)
    BY DEF ChainsInv
  <2> HIDE DEF C
  <2> QED  BY <1>2, <2>1
<1>6. /\ \A v \in nodes : parents'[v] = parents[v]
      /\ \A v \in fresh : parents'[v] = 0
  BY <1>1, <1>2
<1> QED  BY <1>3, <1>4, <1>5, <1>6

\* The nodes of the chains, old and new, stay on the ways of their edges.
LEMMA LaidStands ==
  ASSUME NEW k \in Positions, NEW m \in Nat \ {0}, NEW path, Laying(k, m, path),
         CompoundsApart, ChainsStand, Compounds' = Compounds
  PROVE  ChainsStand'
<1> DEFINE last == Len(chains) + 1
           fresh == (NodeCount + 1)..(NodeCount + m)
           S == Len(segments)
<1>1. /\ Len(chains) \in Nat /\ DOMAIN chains = 1..Len(chains)
      /\ DOMAIN chains' = DOMAIN chains \union {last}
      /\ \A i \in DOMAIN chains : chains'[i] = chains[i]
      /\ chains'[last].from = edges[k].from /\ chains'[last].to = edges[k].to
      /\ chains'[last].reversed = (k \in reversed)
      /\ ToSet(chains'[last].dummies) = fresh
      /\ \A v \in nodes : parents'[v] = parents[v]
      /\ \A v \in fresh : parents'[v] = 0
  BY LaidChain
<1>2. /\ S \in Nat /\ DOMAIN segments = 1..S /\ DOMAIN segments' = 1..(S + m + 1)
      /\ nodes' = nodes \union fresh /\ nodes \intersect fresh = {}
      /\ Dummies' = Dummies \union fresh
      /\ Source(k) \in nodes /\ Target(k) \in nodes
      /\ rank[Source(k)] \in Int
      /\ rank[Target(k)] = rank[Source(k)] + m + 1
      /\ \A i \in 1..S : segments'[i] = segments[i]
      /\ \A x \in 1..(m + 1) :
           /\ segments'[S + x].from = IF x = 1 THEN Source(k) ELSE NodeCount + x - 1
           /\ segments'[S + x].to = IF x = m + 1 THEN Target(k) ELSE NodeCount + x
           /\ rank'[segments'[S + x].from] = rank[Source(k)] + x - 1
           /\ rank'[segments'[S + x].to] = rank[Source(k)] + x
  BY LaidLinks
<1>3. /\ k \in Given /\ Scaffold' = Scaffold
      /\ rank'[Source(k)] = rank[Source(k)] /\ rank'[Target(k)] = rank[Target(k)]
  BY LaidGround
<1>4. /\ DummiesApart /\ LinksOnChains /\ Shape
      /\ NodeCount \in Nat /\ \A v \in nodes : rank'[v] = rank[v] /\ rank[v] \in Int
  BY DEF Laying, ChainLaid, ChainsInv, Shape
<1>5. /\ edges[k].from \in nodes /\ edges[k].to \in nodes
      /\ edges[k].from \notin Dummies /\ edges[k].to \notin Dummies
      /\ edges[k].from \notin Compounds /\ edges[k].to \notin Compounds
      /\ edges[k].from \notin Scaffold /\ edges[k].to \notin Scaffold
  BY <1>3, <1>4, ShapeEnds DEF DummiesApart, CompoundsApart, Given
<1>6. \A i \in DOMAIN chains : ToSet(chains[i].dummies) \in SUBSET Dummies
  BY DEF Dummies
<1>7. Dummies \in SUBSET nodes
  BY DEF ChainsStand
<1> HIDE DEF fresh, last
<1>8. /\ Dummies' \in SUBSET nodes'
      /\ \A v \in Dummies' : parents'[v] = 0
  <2>1. \A v \in Dummies : v \in nodes /\ parents[v] = 0
    BY <1>7 DEF ChainsStand
  <2> QED  BY <1>1, <1>2, <2>1
<1>9. \A v : OnGraph(v) => v \in nodes' \ (Scaffold' \union Dummies' \union Compounds')
  BY <1>2, <1>3 DEF OnGraph
<1>10. OnGraph(edges[k].from) /\ OnGraph(edges[k].to)
  BY <1>5 DEF OnGraph
<1>11. k \notin reversed => edges[k].from = Source(k) /\ edges[k].to = Target(k)
  BY DEF Source, Target
<1>12. \A v \in fresh : rank[Source(k)] < rank'[v] /\ rank'[v] < rank[Target(k)]
  <2> TAKE v \in fresh
  <2>1. PICK x \in 1..m : v = NodeCount + x
    <3>1. v - NodeCount \in 1..m /\ v = NodeCount + (v - NodeCount)
      BY <1>4 DEF fresh
    <3> QED  BY <3>1
  <2>2. x \in 1..(m + 1) /\ x # m + 1
    OBVIOUS
  <2>3. rank'[v] = rank[Source(k)] + x
    BY <1>2, <2>1, <2>2
  <2> QED  BY <1>2, <2>3
<1>13. ASSUME NEW i \in DOMAIN chains'
       PROVE  /\ chains'[i].from \in nodes' \ (Scaffold' \union Dummies' \union Compounds')
              /\ chains'[i].to \in nodes' \ (Scaffold' \union Dummies' \union Compounds')
              /\ ~chains'[i].reversed =>
                   \A v \in ToSet(chains'[i].dummies) :
                     rank'[chains'[i].from] < rank'[v] /\ rank'[v] < rank'[chains'[i].to]
  <2>1. CASE i \in DOMAIN chains
    <3>1. /\ OnGraph(chains[i].from) /\ OnGraph(chains[i].to)
          /\ ~chains[i].reversed =>
               \A v \in ToSet(chains[i].dummies) :
                 rank[chains[i].from] < rank[v] /\ rank[v] < rank[chains[i].to]
      BY <2>1 DEF ChainsStand
    <3>2. chains[i].from \in nodes /\ chains[i].to \in nodes
      BY <3>1 DEF OnGraph
    <3>3. \A v \in ToSet(chains[i].dummies) : v \in nodes
      BY <1>6, <1>7, <2>1
    <3> QED  BY <1>1, <1>4, <1>9, <2>1, <3>1, <3>2, <3>3
  <2>2. CASE i = last
    BY <1>1, <1>3, <1>5, <1>9, <1>10, <1>11, <1>12, <2>2
  <2> QED  BY <1>1, <2>1, <2>2
<1>14. ASSUME NEW i \in DOMAIN chains', NEW j \in DOMAIN chains',
              NEW v \in ToSet(chains'[i].dummies), v \in ToSet(chains'[j].dummies)
       PROVE  i = j
  <2>1. \A x \in DOMAIN chains : \A w \in ToSet(chains'[x].dummies) : w \in nodes /\ w \notin fresh
    BY <1>1, <1>2, <1>6, <1>7
  <2>2. CASE i \in DOMAIN chains /\ j \in DOMAIN chains
    BY <1>1, <1>14, <2>2 DEF ChainsStand
  <2>3. CASE i = last \/ j = last
    BY <1>1, <1>14, <2>1, <2>3
  <2> QED  BY <1>1, <2>2, <2>3
<1>15. ASSUME NEW s \in DOMAIN segments', NEW i \in DOMAIN chains',
              segments'[s].to \in ToSet(chains'[i].dummies), ~chains'[i].reversed
       PROVE  /\ rank'[segments'[s].to] = rank'[segments'[s].from] + 1
              /\ segments'[s].from \in {chains'[i].from} \union ToSet(chains'[i].dummies)
  <2>1. CASE s \in 1..S
    <3>1. segments'[s] = segments[s] /\ segments[s].from \in nodes /\ segments[s].to \in nodes
      BY <1>2, <1>4, <2>1 DEF LinksOnChains, OnChain
    <3>2. i \in DOMAIN chains
      BY <1>1, <1>2, <1>15, <3>1
    <3>3. /\ rank[segments[s].to] = rank[segments[s].from] + 1
          /\ segments[s].from \in {chains[i].from} \union ToSet(chains[i].dummies)
      BY <1>1, <1>2, <1>15, <2>1, <3>1, <3>2 DEF ChainsStand
    <3> QED  BY <1>1, <1>4, <3>1, <3>2, <3>3
  <2>2. CASE s \notin 1..S
    <3>1. PICK x \in 1..(m + 1) : s = S + x
      <4>1. s - S \in 1..(m + 1) /\ s = S + (s - S)
        BY <1>2, <2>2
      <4> QED  BY <4>1
    <3>2. segments'[s].to = IF x = m + 1 THEN Target(k) ELSE NodeCount + x
      BY <1>2, <3>1
    <3>3. Target(k) \notin Dummies /\ Target(k) \notin fresh
      BY <1>2, <1>5 DEF Target
    <3>4. x # m + 1 => NodeCount + x \in fresh
      BY <1>4 DEF fresh
    <3>5. i = last
      <4>1. ASSUME i \in DOMAIN chains PROVE FALSE
        <5>1. segments'[s].to \in Dummies
          BY <1>1, <1>6, <1>15, <4>1
        <5> QED  BY <1>2, <1>7, <3>2, <3>3, <3>4, <5>1
      <4> QED  BY <1>1, <4>1
    <3>6. x # m + 1 /\ k \notin reversed
      BY <1>1, <1>15, <3>2, <3>3, <3>5
    <3>7. /\ segments'[s].from = IF x = 1 THEN Source(k) ELSE NodeCount + x - 1
          /\ rank'[segments'[s].from] = rank[Source(k)] + x - 1
          /\ rank'[segments'[s].to] = rank[Source(k)] + x
      BY <1>2, <3>1
    <3>8. x # 1 => NodeCount + x - 1 \in fresh
      BY <1>4, <3>6 DEF fresh
    <3>9. rank'[segments'[s].to] = rank'[segments'[s].from] + 1
      BY <1>2, <3>7
    <3> QED  BY <1>1, <1>11, <3>5, <3>6, <3>7, <3>8, <3>9
  <2> QED  BY <2>1, <2>2
<1> QED  BY <1>8, <1>13, <1>14, <1>15 DEF ChainsStand, OnGraph

\* normalize::run breaks a long edge.
LEMMA BreakEdgeHolds ==
  ASSUME RankingIInv, ChainsIInv, ChainsIInv', FramesIInv, BreakEdge
  PROVE  FramesIInv'
<1>1. /\ UNCHANGED <<edges, config, unplaced, missed, minlen, reversed, borders, phase, rounds, inTree>>
      /\ stage = "chains" /\ stage' = "chains"
  BY DEF BreakEdge, treeVars, nestingVars
<1>2. /\ Shape /\ CompoundsApart /\ DOMAIN borders = Compounds /\ FramesHold /\ ExitsHold /\ TreeGrows
      /\ ChainsStand /\ phase = "ranked" /\ ChainsInv /\ OrigsDiffer /\ ScaffoldKept
  BY <1>1 DEF FramesIInv, AfterRanking, RankingIInv, ChainsIInv, UpToChains
<1>3. PICK k \in Positions : \E m \in Nat \ {0} : \E path \in [1..(m + 2) -> nodes'] :
         ChainLaid(k, m, path)
  BY <1>2, BreakLays
<1>4. PICK m \in Nat \ {0} : \E path \in [1..(m + 2) -> nodes'] : ChainLaid(k, m, path)
  BY <1>3
<1>5. PICK path : Laying(k, m, path)
  BY <1>1, <1>2, <1>4 DEF Laying
<1> DEFINE fresh == (NodeCount + 1)..(NodeCount + m)
<1>6. /\ \A v \in nodes : parents'[v] = parents[v]
      /\ \A v \in fresh : parents'[v] = 0
  BY <1>5, LaidChain
<1>7. /\ nodes' = nodes \union fresh /\ nodes \intersect fresh = {}
      /\ Dummies' = Dummies \union fresh
  BY <1>5, LaidLinks
<1>8. /\ Scaffold' = Scaffold /\ Given' = Given /\ nodes \subseteq nodes'
  BY <1>5, LaidGround
<1>9. parents' \in [nodes' -> Int] /\ \A v \in nodes : rank'[v] = rank[v]
  BY <1>5 DEF Laying, ChainLaid
<1> HIDE DEF fresh
<1>10. /\ DOMAIN parents = nodes /\ Compounds \in SUBSET nodes
       /\ parents \in [nodes -> nodes \union {0}]
  BY <1>2, ApartFacts DEF CompoundsApart
<1>11. Compounds' = Compounds
  <2>1. Compounds' = {parents'[v] : v \in nodes'} \ {0}
    BY <1>9 DEF Compounds
  <2>2. Compounds = {parents[v] : v \in nodes} \ {0}
    BY <1>10 DEF Compounds
  <2>3. \A v \in nodes' : parents'[v] \in Compounds \union {0}
    BY <1>6, <1>7, <2>2
  <2>4. \A c \in Compounds : \E v \in nodes' : parents'[v] = c
    BY <1>6, <1>7, <2>2
  <2>5. 0 \notin Compounds
    BY <2>2
  <2> HIDE DEF Compounds
  <2> QED  BY <2>1, <2>3, <2>4, <2>5
<1>12. parents' \in [nodes' -> nodes' \union {0}]
  <2>1. \A v \in nodes' : parents'[v] \in nodes' \union {0}
    BY <1>6, <1>7, <1>10
  <2> QED  BY <1>9, <2>1
<1>13. CompoundsApart'
  <2>1. (Scaffold' \union Dummies') \intersect nodes \subseteq Scaffold \union Dummies
    BY <1>7, <1>8
  <2> QED  BY <1>1, <1>2, <1>6, <1>8, <1>11, <1>12, <2>1, ApartExtends
<1>14. FramesHold'
  BY <1>1, <1>2, <1>6, <1>7, <1>9, <1>11, HoldExtends
<1>15. ChainsStand'
  BY <1>2, <1>5, <1>11, LaidStands
<1>16. TreeGrows'
  BY <1>1, <1>2, <1>8, <1>11, TreeStays
<1>17. Shape'
  BY <1>1 DEF ChainsIInv, UpToChains
<1>18. ExitsHold'
  BY <1>1, <1>2, <1>6, <1>8, <1>9, <1>11, ExitsKeep
<1> QED  BY <1>1, <1>2, <1>11, <1>13, <1>14, <1>15, <1>16, <1>17, <1>18 DEF FramesIInv

\* The short edges lead to no node of a chain, so the list rebuilt has the same links there.
LEMMA RebuildHolds ==
  ASSUME RankingIInv, ChainsIInv, FramesIInv, Rebuild
  PROVE  FramesIInv'
<1>1. /\ UNCHANGED <<nodes, edges, reversed, config, parents, titled, unplaced, rank, missed, minlen,
                     weight, borders, factor, phase, rounds, inTree, chains>>
      /\ stage = "chains" /\ stage' \in {"order", "parents"}
      /\ stage' = IF Compounds = {} THEN "order" ELSE "parents"
  BY DEF Rebuild, graphVars, compoundVars, simplexVars, treeVars
<1>2. /\ Shape /\ CompoundsApart /\ DOMAIN borders = Compounds /\ FramesHold /\ ExitsHold /\ TreeGrows
      /\ ChainsStand /\ phase = "ranked" /\ ChainsInv
  BY <1>1 DEF FramesIInv, AfterRanking, RankingIInv, ChainsIInv, UpToChains
<1>3. CompoundsApart' /\ Compounds' = Compounds
  BY <1>1, <1>2, ApartStays DEF FrameUp
<1>4. FramesHold'
  BY <1>1, <1>2, HoldStays
<1>5. Dummies' = Dummies /\ Added' = Added /\ Scaffold' = Scaffold
  <2>1. Dummies' = Dummies /\ Added' = Added
    BY <1>1 DEF Dummies, Added
  <2> QED  BY <1>1, <2>1 DEF Scaffold, FrameUp
<1>6. ChainsStand'
  <2>1. \A i : OnGraph(chains[i].from)' <=> OnGraph(chains[i].from)
    BY <1>1, <1>3, <1>5 DEF OnGraph
  <2>2. \A i : OnGraph(chains[i].to)' <=> OnGraph(chains[i].to)
    BY <1>1, <1>3, <1>5 DEF OnGraph
  <2>3. PICK n \in Nat, S \in Nat : \E short : RebuiltAs(n, S, short)
    BY <1>2, Rebuilt
  <2>4. PICK short : RebuiltAs(n, S, short)
    BY <2>3
  <2>5. /\ \A i \in 1..n : short[i] \in Positions /\ segments'[i].to = edges[short[i]].to
        /\ DOMAIN segments = 1..S /\ DOMAIN segments' = 1..(n + S)
        /\ \A x \in 1..S : /\ segments'[n + x].from = segments[x].from
                           /\ segments'[n + x].to = segments[x].to
    BY <2>4 DEF RebuiltAs
  <2>6. \A i \in DOMAIN chains : ToSet(chains[i].dummies) \in SUBSET Dummies
    BY DEF Dummies
  <2>7. ASSUME NEW s \in DOMAIN segments', NEW i \in DOMAIN chains,
               segments'[s].to \in ToSet(chains[i].dummies), ~chains[i].reversed
        PROVE  /\ rank[segments'[s].to] = rank[segments'[s].from] + 1
               /\ segments'[s].from \in {chains[i].from} \union ToSet(chains[i].dummies)
    <3>1. s \notin 1..n
      <4>1. ASSUME s \in 1..n PROVE FALSE
        <5>1. segments'[s].to = edges[short[s]].to /\ short[s] \in Positions
          BY <2>5, <4>1
        <5>2. segments'[s].to \in Dummies
          BY <2>6, <2>7
        <5> QED  BY <1>2, <5>1, <5>2 DEF ChainsInv, DummiesApart
      <4> QED  BY <4>1
    <3>2. PICK x \in 1..S : s = n + x
      <4>1. s - n \in 1..S /\ s = n + (s - n)
        BY <2>5, <3>1
      <4> QED  BY <4>1
    <3>3. segments'[s].from = segments[x].from /\ segments'[s].to = segments[x].to
      BY <2>5, <3>2
    <3> QED  BY <1>2, <2>5, <2>7, <3>3 DEF ChainsStand
  <2> QED  BY <1>1, <1>2, <1>5, <2>1, <2>2, <2>7 DEF ChainsStand
<1>7. TreeGrows'
  BY <1>1, <1>2, <1>3, TreeStays
<1>8. Shape'
  <2>1. weight' \in [Positions -> Int] /\ rank' \in [nodes -> Int] /\ reversed' \in SUBSET Positions
    BY <1>1, <1>2 DEF Shape
  <2> QED  BY <1>1, <1>2, <1>5, <2>1, ShapeStays
<1>9. stage' = "order" => CompoundsHoldTheirNodes'
  <2>1. SUFFICES ASSUME Compounds = {} PROVE CompoundsHoldTheirNodes'
    BY <1>1
  <2>2. \A v : Around(v)' = {}
    BY <1>3, <2>1 DEF Around
  <2>3. \A v \in PositionNodes' \ BackDummies' : \A c \in Around(v)' : HeldBy(c, v)'
    BY <2>2
  <2>4. \A i \in Links' : LeavesWhereItEnds(segments[i])'
    BY <1>3, <2>1 DEF LeavesWhereItEnds, Around
  <2> QED  BY <2>3, <2>4 DEF CompoundsHoldTheirNodes
<1>10. ExitsHold' /\ ChainsOff'
  <2>1. Given' = Given
    BY <1>1, <1>3, GivenStays DEF FrameUp
  <2>2. ExitsHold'
    BY <1>1, <1>2, <1>3, <2>1, ExitsKeep
  <2>3. ChainsOff
    BY <1>2 DEF ChainsOff, ChainsInv, DummiesApart, Given
  <2> QED  BY <1>1, <1>5, <2>1, <2>2, <2>3 DEF ChainsOff
<1> QED  BY <1>1, <1>2, <1>3, <1>4, <1>6, <1>7, <1>8, <1>9, <1>10 DEF FramesIInv, AfterRanking

\* parent_dummy_chains::run gives the nodes of chains their compounds.
LEMMA AssignParentsKeeps ==
  ASSUME RankingIInv, FramesIInv, AssignParents
  PROVE  FramesIInv'
<1>1. /\ UNCHANGED <<nodes, edges, reversed, config, unplaced, rank, missed, minlen,
                     weight, borders, factor, phase, rounds, inTree, chains>>
      /\ stage = "parents" /\ stage' = "order"
  BY DEF AssignParents, graphVars, simplexVars, treeVars, nestingVars, chainVars
<1>2. /\ Shape /\ CompoundsApart /\ DOMAIN borders = Compounds /\ FramesHold /\ ExitsHold /\ TreeGrows
      /\ ChainsStand /\ ChainsOff /\ phase = "ranked"
  BY <1>1 DEF FramesIInv, AfterRanking, RankingIInv
<1>3. /\ parents' \in [nodes -> nodes \union {0}]
      /\ \A v \in nodes \ Dummies : parents'[v] = parents[v]
      /\ Compounds' = Compounds
  BY <1>2, ParentsAssigned
<1>4. Dummies' = Dummies /\ Added' = Added /\ Scaffold' = Scaffold /\ Given' = Given
  <2>1. Dummies' = Dummies /\ Added' = Added /\ Positions' = Positions
    BY <1>1 DEF Dummies, Added, Positions
  <2>2. Scaffold' = Scaffold
    BY <1>1, <2>1 DEF Scaffold, FrameUp
  <2> QED  BY <1>1, <2>1, <2>2 DEF Given
<1>5. Compounds \in SUBSET nodes /\ \A c \in Compounds : c \notin Dummies
  BY <1>2, ApartFacts
<1>6. CompoundsApart'
  <2>1. NoCircle'
    BY <1>2, <1>3, <1>5 DEF CompoundsApart, NoCircle
  <2> QED  BY <1>1, <1>2, <1>3, <1>4, <2>1 DEF CompoundsApart
<1>7. TreeGrows'
  BY <1>1, <1>2, <1>3, TreeStays
<1>8. Shape'
  <2>1. parents' \in [nodes' -> Int]
    <3>1. \A w \in nodes \union {0} : w \in Int
      BY <1>2 DEF Shape
    <3>2. nodes \union {0} \subseteq Int
      BY <3>1
    <3> QED  BY <1>1, <1>3, <3>2
  <2>2. BordersKept' /\ NodeCount' = NodeCount /\ Positions' = Positions
    BY <1>1, <1>2, <1>4 DEF Shape, BordersKept, NodeCount, Positions
  <2> QED  BY <1>1, <1>2, <2>1, <2>2 DEF Shape
<1>9. CompoundsHoldTheirNodes'
  BY AssignParentsHolds
<1>10. ExitsHold'
  <2>1. \A c \in Compounds : parents'[c] = parents[c]
    BY <1>3, <1>5
  <2>2. \A k \in Given : edges[k].from \in nodes \ Dummies /\ edges[k].to \in nodes \ Dummies
    BY <1>2, ShapeEnds DEF Given, ChainsOff
  <2> QED  BY <1>1, <1>2, <1>3, <1>4, <2>1, <2>2, ExitsMove
<1> QED  BY <1>1, <1>2, <1>3, <1>6, <1>7, <1>8, <1>9, <1>10 DEF FramesIInv, AfterRanking

\* Nothing happens to what the frames hold where nothing happens.
LEMMA FramesStay ==
  ASSUME FramesIInv, UNCHANGED layeringVars
  PROVE  FramesIInv'
<1>1. /\ UNCHANGED <<nodes, edges, reversed, config, parents, unplaced, minlen, weight, rank,
                     missed, borders, factor, chains, segments, phase, rounds, inTree, work, stage>>
  BY DEF layeringVars, graphVars, compoundVars, simplexVars, treeVars, nestingVars
<1>2. Shape /\ CompoundsApart /\ TreeGrows
  BY DEF FramesIInv
<1>3. /\ Positions' = Positions /\ NodeCount' = NodeCount /\ Compounds' = Compounds
      /\ Added' = Added /\ Scaffold' = Scaffold /\ Given' = Given
      /\ (FrameUp' <=> FrameUp) /\ Dummies' = Dummies
  <2>1. Compounds' = Compounds /\ Dummies' = Dummies
    BY <1>1 DEF Compounds, Dummies
  <2>2. FrameUp' <=> FrameUp
    BY <1>1, <2>1 DEF FrameUp
  <2> QED  BY <1>1, <2>1, <2>2, GivenStays
<1>4. Shape'
  <2>1. weight' \in [Positions -> Int] /\ rank' \in [nodes -> Int] /\ reversed' \in SUBSET Positions
    BY <1>1, <1>2 DEF Shape
  <2> QED  BY <1>1, <1>2, <1>3, <2>1, ShapeStays
<1>5. CompoundsApart'
  BY <1>1, <1>2, <1>3, ApartStays
<1>6. TreeGrows'
  <2>1. RankNodes' = RankNodes
    BY <1>1, <1>3 DEF RankNodes
  <2>2. \A k, v, w : (Slack(k) = 0)' = (Slack(k) = 0) /\ Joins(k, v, w)' = Joins(k, v, w)
    BY <1>1 DEF Slack, Source, Target, Joins
  <2>3. \A v : TightFrom(v)' = TightFrom(v)
    BY <1>1, <1>3, <2>1, <2>2 DEF TightFrom
  <2> QED  BY <1>1, <1>2, <2>1, <2>3 DEF TreeGrows
<1>7. FramesLink => FramesLink'
  BY <1>1, LinkStays
<1>8. FramesHold => FramesHold'
  BY <1>1, HoldStays
<1>9. ChainsStand => ChainsStand'
  <2>1. \A i : OnGraph(chains[i].from)' <=> OnGraph(chains[i].from)
    BY <1>1, <1>3 DEF OnGraph
  <2>2. \A i : OnGraph(chains[i].to)' <=> OnGraph(chains[i].to)
    BY <1>1, <1>3 DEF OnGraph
  <2> QED  BY <1>1, <1>3, <2>1, <2>2 DEF ChainsStand
<1>10. CompoundsHoldTheirNodes => CompoundsHoldTheirNodes'
  <2>1. \A v : Around(v)' = Around(v)
    BY <1>1, <1>3 DEF Around
  <2>2. \A c : MinRank(c)' = MinRank(c) /\ MaxRank(c)' = MaxRank(c)
    BY <1>1 DEF MinRank, MaxRank
  <2>3. \A c, v : HeldBy(c, v)' <=> HeldBy(c, v)
    BY <1>1, <1>3, <2>2 DEF HeldBy
  <2>4. \A i : Around(segments[i].from)' = Around(segments[i].from)
    BY <1>1, <1>3 DEF Around
  <2>5. \A i : Around(segments[i].to)' = Around(segments[i].to)
    BY <1>1, <1>3 DEF Around
  <2>6. \A i : LeavesWhereItEnds(segments[i])' <=> LeavesWhereItEnds(segments[i])
    BY <1>1, <2>2, <2>4, <2>5 DEF LeavesWhereItEnds
  <2>7. PositionNodes' = PositionNodes /\ BackDummies' = BackDummies /\ Links' = Links
    BY <1>1, <1>3 DEF PositionNodes, BackDummies, Links, TouchesAdded
  <2> QED  BY <1>1, <1>3, <2>1, <2>3, <2>6, <2>7 DEF CompoundsHoldTheirNodes
<1>11. ExitsLink => ExitsLink'
  BY <1>1, <1>3, ExitsLinkStays
<1>12. DOMAIN borders = Compounds /\ ExitsHold => ExitsHold'
  BY <1>1, <1>2, <1>3, ExitsKeep
<1>13. ChainsOff => ChainsOff'
  BY <1>1, <1>3 DEF ChainsOff
<1> QED
  BY <1>1, <1>3, <1>4, <1>5, <1>6, <1>7, <1>8, <1>9, <1>10, <1>11, <1>12, <1>13
     DEF FramesIInv, AfterRanking

\* The pipeline keeps its frames.
LEMMA FramesInductive ==
  RankingIInv /\ RankingIInv' /\ ChainsIInv /\ ChainsIInv' /\ FramesIInv
    /\ [LayeringNext \/ LayeringDone]_layeringVars
    => FramesIInv'
<1> SUFFICES ASSUME RankingIInv, RankingIInv', ChainsIInv, ChainsIInv', FramesIInv,
                    [LayeringNext \/ LayeringDone]_layeringVars
             PROVE  FramesIInv'
  OBVIOUS
<1>1. CASE ExtractSelfEdges \/ Search \/ EndSearch \/ CompoundFeedback \/ MakeSpace
  BY <1>1, BeforeFramesKeeps
<1>2. CASE FrameCompounds
  BY <1>2, FramesAreLinked
<1>3. CASE Rank
  BY <1>3, RankKeepsFrames
<1>4. CASE NormalizeRanks
  BY <1>4, NormalizeRanksHolds
<1>5. CASE Unframe
  BY <1>5, RemoveEmptyRanksHolds, CleanUpHolds, InsertTitlesHolds, MarkClimbingHolds DEF Unframe
<1>6. CASE KeepEdge
  BY <1>6, KeepEdgeHolds
<1>7. CASE BreakEdge
  BY <1>7, BreakEdgeHolds
<1>8. CASE Rebuild
  BY <1>8, RebuildHolds
<1>9. CASE AssignParents
  BY <1>9, AssignParentsKeeps
<1>10. CASE LayeringDone \/ UNCHANGED layeringVars
  BY <1>10, FramesStay DEF LayeringDone
<1> QED
  BY <1>1, <1>2, <1>3, <1>4, <1>5, <1>6, <1>7, <1>8, <1>9, <1>10 DEF LayeringNext

\* The types follow, and that the tree grows faster than its rounds are counted.
LEMMA FramesIInvTypes ==
  ASSUME RankingIInv, FramesIInv
  PROVE  LayeringTypeOK
<1>1. Shape /\ CompoundsApart /\ TreeGrows
  BY DEF FramesIInv
<1>2. /\ stage \in {"self_edges", "acyclic", "feedback", "nest", "rank", "clean_up", "titles",
                    "climbing", "chains", "parents", "order"}
      /\ phase \in {"initial", "grow", "pivot", "ranked"}
      /\ stage # "rank" => phase \in {"initial", "ranked"}
  BY DEF RankingIInv, BeforeRanking, AfterRanking
<1>3. /\ reversed \subseteq Positions
      /\ DOMAIN minlen = Positions /\ DOMAIN weight = Positions
      /\ nodes = 1..NodeCount /\ NodeCount \in Nat
      /\ rank \in [nodes -> Int] /\ parents \in [nodes -> nodes \union {0}]
  BY <1>1 DEF Shape, CompoundsApart
<1>4. \A v \in nodes : v \notin Around(v)
  BY <1>1, ApartFacts, AroundOuter
<1>5. inTree \subseteq RankNodes
  BY <1>1 DEF TreeGrows
<1>6. phase = "grow" => rounds < NodeCount
  <2> SUFFICES ASSUME phase = "grow" PROVE rounds < NodeCount
    OBVIOUS
  <2>1. RankNodes \subseteq nodes /\ IsFiniteSet(nodes)
    BY <1>1, ApartFacts DEF RankNodes
  <2>2. /\ Cardinality(inTree) \in Nat /\ Cardinality(inTree) <= NodeCount
        /\ inTree # nodes => Cardinality(inTree) < NodeCount
    BY <1>5, <2>1, TreeIsLarger DEF NodeCount
  <2>3. rounds < Cardinality(inTree) \/ (rounds = Cardinality(inTree) /\ inTree # RankNodes)
    BY <1>1 DEF TreeGrows
  <2>4. inTree # RankNodes => inTree # nodes
    BY <1>5, <2>1
  <2> QED  BY <1>1, <1>3, <2>2, <2>3, <2>4 DEF TreeGrows
<1>7. ASSUME stage = "rank", phase \in {"grow", "pivot"}
      PROVE  parent \in [nodes -> RankNodes \union {0}] /\ via \in [nodes -> Positions \union {0}]
  <2>1. TreeInv
    BY <1>7 DEF RankingIInv, RanksInv, GrowInv, PivotInv
  <2>2. parent \in [nodes -> nodes \union {0}] /\ via \in [nodes -> Positions \union {0}]
    BY <2>1 DEF TreeInv
  <2>3. \A v \in nodes : parent[v] \in RankNodes \union {0}
    BY <2>1 DEF TreeInv, HangsTight
  <2>4. parent \in [nodes -> RankNodes \union {0}]
    BY <2>2, <2>3
  <2> QED  BY <2>2, <2>4
<1> QED  BY <1>2, <1>3, <1>4, <1>5, <1>6, <1>7 DEF LayeringTypeOK

\* For every graph with compounds, every node ends between the borders of the compounds
\* around it, those of the chains of edges too, and a chain leaves a compound on the rank
\* the compound ends on (nesting.rs, parent_dummy_chains.rs).
THEOREM CompoundsHeld == LayeringSpec => []CompoundsHoldTheirNodes
<1>1. LayeringInit => RankingIInv /\ ChainsIInv /\ FramesIInv
  BY InitIsRanked, InitIsShaped, InitIsApart
<1>2. FramesIInv => CompoundsHoldTheirNodes
  BY DEF FramesIInv, CompoundsHoldTheirNodes
<1> QED  BY <1>1, <1>2, RankingInductive, ChainsInductive, FramesInductive, PTL DEF LayeringSpec

\* When the phases are done, the edges of the graph are those given, and an exit is what
\* can_reach_compound says.
LEMMA ExitsHoldAtTheEnd ==
  ASSUME Shape, CompoundsApart, DOMAIN borders = Compounds, ExitsHold, stage = "order"
  PROVE  ExitsEndBelowTheFrame
<1>1. Given = Drawn
  BY DEF Given, Drawn, TouchesAdded, Scaffold, FrameUp
<1> SUFFICES ASSUME missed = {}, ~config.dfsOnly, \A k \in Drawn : minlen[k] >= 0,
                    NEW k \in Drawn \ reversed, NEW c, c = parents[edges[k].from],
                    Leaves(k, c, Drawn \ reversed)
             PROVE  rank[edges[k].to] > MaxRank(c)
  BY DEF ExitsEndBelowTheFrame
<1>2. NoneShrinks
  BY <1>1 DEF NoneShrinks
<1>3. \A j \in Drawn : edges[j].from \in nodes /\ edges[j].to \in nodes
  BY ShapeEnds DEF Drawn
<1> DEFINE u == edges[k].to
<1>4. c # 0 /\ c \notin Around(u) /\ ~LeadsInto(Drawn \ reversed, u, c)
  BY DEF Leaves, IsDescendant
<1>5. PICK M : /\ u \in M
               /\ \A j \in Drawn \ reversed : edges[j].from \in M =>
                    edges[j].to \in M /\ ~IsDescendant(edges[j].to, c)
  <2>1. IsFiniteSet(nodes)
    BY ApartFacts
  <2>2. \A j \in Drawn \ reversed : edges[j].to \in nodes
    BY <1>3
  <2>3. u \in nodes
    BY <1>3
  <2> QED  BY <1>4, <2>1, <2>2, <2>3, LeadsIntoMeans
<1>6. AwayFrom(M, c)
  BY <1>1, <1>5 DEF AwayFrom, IsDescendant
<1>7. Exit(k, c, u)
  BY <1>4, <1>5, <1>6 DEF Exit
<1>8. MaxRank(c) < rank[u]
  BY <1>1, <1>2, <1>7 DEF ExitsHold
<1>9. borders[c][2] \in nodes /\ u \in nodes
  <2>1. c \in Compounds
    BY <1>3, <1>4, ApartFacts DEF Compounds
  <2> QED  BY <1>3, <2>1 DEF Shape, BordersKept
<1> QED  BY <1>8, <1>9 DEF MaxRank, Shape

\* For every graph with compounds, an edge that leaves a compound for good ends below the
\* compound's frame (nesting.rs), unless edges ask for negative lengths.
THEOREM ExitsEndBelow == LayeringSpec => []ExitsEndBelowTheFrame
<1>1. LayeringInit => RankingIInv /\ ChainsIInv /\ FramesIInv
  BY InitIsRanked, InitIsShaped, InitIsApart
<1>2. FramesIInv => ExitsEndBelowTheFrame
  <2>1. CASE stage = "order"
    BY <2>1, ExitsHoldAtTheEnd DEF FramesIInv, AfterRanking
  <2>2. CASE stage # "order"
    BY <2>2 DEF ExitsEndBelowTheFrame
  <2> QED  BY <2>1, <2>2
<1> QED  BY <1>1, <1>2, RankingInductive, ChainsInductive, FramesInductive, PTL DEF LayeringSpec

\* Every variable of the pipeline keeps to its type, and feasible_tree ends before its safety
\* limit: each round of its loop adds a node to the tree.
THEOREM LayeringTyped == LayeringSpec => []LayeringTypeOK
<1>1. LayeringInit => RankingIInv /\ ChainsIInv /\ FramesIInv
  BY InitIsRanked, InitIsShaped, InitIsApart
<1>2. RankingIInv /\ FramesIInv => LayeringTypeOK
  BY FramesIInvTypes
<1> QED  BY <1>1, <1>2, RankingInductive, ChainsInductive, FramesInductive, PTL DEF LayeringSpec
=============================================================================
