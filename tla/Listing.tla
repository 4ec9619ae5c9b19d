------------------------------ MODULE Listing ------------------------------
(* Sets of numbers written out as sequences.                               *)
EXTENDS Integers, FiniteSets

\* The members of a set from the lowest to the highest.
InOrder(S) == [i \in 1..Cardinality(S) |-> CHOOSE v \in S : Cardinality({w \in S : w < v}) = i - 1]

\* The members of a set as an order of them has it.
Lined(S, before(_, _)) ==
  [n \in 1..Cardinality(S) |-> CHOOSE v \in S : Cardinality({w \in S : before(w, v)}) = n - 1]

\* What a sequence has at some of its positions.
Picked(s, K) ==
  LET kept == InOrder(K)
  IN  [n \in DOMAIN kept |-> s[kept[n]]]
============================================================================
