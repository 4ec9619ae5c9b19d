------------------------ MODULE NetworkSimplexProofs ------------------------
(***************************************************************************)
(* What the steps of the ranking keep, for every graph: the ranks never    *)
(* draw an edge shorter than its minimal length, and the spanning tree     *)
(* holds tight edges only and hangs together.                              *)
(*                                                                         *)
(* The recursions of the model count up to a number of nodes.  Each is     *)
(* first shown to be the iteration of a step (Iterates), then to have      *)
(* settled by then (GrowthEnds), or to say what it says at every count.    *)
(* LayeringProofs puts the lemmas XxxKeeps together to the invariant.      *)
(* What the proofs of all phases need of numbers, lists and sums comes     *)
(* first.                                                                  *)
(***************************************************************************)
EXTENDS NetworkSimplex, FiniteSetTheorems, SequenceTheorems, WellFoundedInduction, TLAPS

(* Numbers, iterations and least members.                                  *)

\* A set of natural numbers has a least one.
LEMMA LeastNumber ==
  ASSUME NEW S \in SUBSET Nat, S # {}
  PROVE  \E m \in S : \A n \in S : m <= n
<1>1. IsWellFoundedOn({p \in Nat \X Nat : p[1] < p[2]}, Nat)
  BY NatLessThanWellFounded DEF OpToRel
<1>2. \E x \in S : \A y \in S : <<y, x>> \notin {p \in Nat \X Nat : p[1] < p[2]}
  BY <1>1, WFMin, Zenon
<1>3. PICK x \in S : \A y \in S : <<y, x>> \notin {p \in Nat \X Nat : p[1] < p[2]}
  BY <1>2
<1>4. ASSUME NEW y \in S PROVE x <= y
  <2>1. <<y, x>> \in Nat \X Nat /\ <<y, x>>[1] = y /\ <<y, x>>[2] = x
    OBVIOUS
  <2> QED  BY <1>3, <2>1
<1> QED  BY <1>4

\* Induction, for the members of a set of numbers.
LEMMA Inductive ==
  ASSUME NEW S, 0 \in S, \A n \in Nat : n \in S => n + 1 \in S
  PROVE  Nat \subseteq S
<1> DEFINE bad == Nat \ S
<1>1. ASSUME bad # {} PROVE FALSE
  <2>1. PICK m \in bad : \A n \in bad : m <= n
    BY <1>1, LeastNumber
  <2>2. m # 0 /\ m - 1 \in Nat
    BY <2>1
  <2>3. m - 1 \in S
    BY <2>1, <2>2
  <2>4. (m - 1) + 1 \in S
    BY <2>2, <2>3
  <2> QED  BY <2>1, <2>4
<1> QED  BY <1>1

Part(g, V, base, step, m) ==
  /\ g \in [0..m -> V] /\ g[0] = base
  /\ \A n \in Nat : n < m => g[n + 1] = step[g[n]]

Iterates(f, V, base, step) ==
  /\ f \in [Nat -> V] /\ f[0] = base
  /\ \A n \in Nat : f[n + 1] = step[f[n]]

\* A step can be iterated: what a recursive function over Nat stands for.
LEMMA IterationExists ==
  ASSUME NEW V, NEW base \in V, NEW step \in [V -> V]
  PROVE  \E f : Iterates(f, V, base, step)
<1> DEFINE P(g, m) == Part(g, V, base, step, m)
           good == {m \in Nat : \E g : P(g, m)}
           same == {n \in Nat : \A k, l \in Nat : \A g, h : n <= k /\ n <= l /\ P(g, k) /\ P(h, l) => g[n] = h[n]}
<1>1. 0 \in good
  <2>1. P([n \in 0..0 |-> base], 0)
    BY DEF Part
  <2> QED  BY <2>1
<1>2. ASSUME NEW m \in Nat, m \in good PROVE m + 1 \in good
  <2>1. PICK g : P(g, m)
    BY <1>2
  <2> DEFINE h == [n \in 0..(m + 1) |-> IF n = m + 1 THEN step[g[m]] ELSE g[n]]
  <2>2. g[m] \in V /\ step[g[m]] \in V
    BY <2>1 DEF Part
  <2>3. h \in [0..(m + 1) -> V] /\ h[0] = base
    BY <2>1, <2>2 DEF Part
  <2>4. ASSUME NEW n \in Nat, n < m + 1 PROVE h[n + 1] = step[h[n]]
    <3>1. CASE n = m
      BY <3>1
    <3>2. CASE n < m
      <4>1. h[n] = g[n] /\ h[n + 1] = g[n + 1]
        BY <3>2
      <4> QED  BY <2>1, <3>2, <4>1 DEF Part
    <3> QED  BY <2>4, <3>1, <3>2
  <2>5. P(h, m + 1)
    <3> HIDE DEF h
    <3> QED  BY <2>3, <2>4 DEF Part
  <2> QED  BY <2>5
<1>3. Nat \subseteq good
  <2> HIDE DEF good
  <2> QED  BY <1>1, <1>2, Inductive
<1>4. 0 \in same
  BY DEF Part
<1>5. ASSUME NEW n \in Nat, n \in same PROVE n + 1 \in same
  <2> SUFFICES ASSUME NEW k \in Nat, NEW l \in Nat, NEW g, NEW h,
                      n + 1 <= k, n + 1 <= l, P(g, k), P(h, l)
               PROVE  g[n + 1] = h[n + 1]
    OBVIOUS
  <2>1. g[n] = h[n]
    BY <1>5
  <2>2. g[n + 1] = step[g[n]] /\ h[n + 1] = step[h[n]]
    BY DEF Part
  <2> QED  BY <2>1, <2>2
<1>6. Nat \subseteq same
  <2> HIDE DEF same
  <2> QED  BY <1>4, <1>5, Inductive
<1> DEFINE part == [m \in Nat |-> CHOOSE g : P(g, m)]
           f == [n \in Nat |-> part[n][n]]
<1>7. ASSUME NEW m \in Nat PROVE P(part[m], m)
  <2>1. \E g : P(g, m)
    BY <1>3
  <2> HIDE DEF P
  <2> QED  BY <2>1
<1> HIDE DEF part
<1>8. f \in [Nat -> V] /\ f[0] = base
  BY <1>7 DEF Part
<1>9. ASSUME NEW n \in Nat PROVE f[n + 1] = step[f[n]]
  <2>1. part[n + 1][n + 1] = step[part[n + 1][n]]
    BY <1>7 DEF Part
  <2>2. part[n + 1][n] = part[n][n]
    <3>1. P(part[n + 1], n + 1) /\ P(part[n], n)
      BY <1>7
    <3>2. n \in same
      BY <1>6
    <3> QED  BY <3>1, <3>2
  <2> QED  BY <2>1, <2>2
<1>10. Iterates(f, V, base, step)
  <2> HIDE DEF f
  <2> QED  BY <1>8, <1>9 DEF Iterates
<1> QED  BY <1>10

\* A growing sequence of subsets of a finite set that stays when it stops stops in time.
Grows(f, V) ==
  /\ f \in [Nat -> SUBSET V]
  /\ \A n \in Nat : f[n] \subseteq f[n + 1]
  /\ \A n \in Nat : f[n + 1] = f[n] => f[n + 2] = f[n + 1]

\* A set that grows as long as it has not settled settles within as many steps as it can have
\* members.
LEMMA GrowthEnds ==
  ASSUME NEW V, IsFiniteSet(V), NEW f, Grows(f, V)
  PROVE  f[Cardinality(V) + 1] = f[Cardinality(V)]
<1> DEFINE N == Cardinality(V)
<1>1. N \in Nat
  BY FS_CardinalityType
<1>2. SUFFICES ASSUME f[N + 1] # f[N] PROVE FALSE
  OBVIOUS
<1> DEFINE moves == {d \in Nat : d <= N => f[(N - d) + 1] # f[N - d]}
           sizes == {n \in Nat : n <= N + 1 => Cardinality(f[n]) >= n}
<1>3. ASSUME NEW n \in Nat PROVE IsFiniteSet(f[n]) /\ Cardinality(f[n]) \in Nat /\ Cardinality(f[n]) <= N
  <2>1. f[n] \in SUBSET V
    BY DEF Grows
  <2> QED  BY <2>1, FS_Subset, FS_CardinalityType
<1>4. Nat \subseteq moves
  <2>1. 0 \in moves
    BY <1>1, <1>2
  <2>2. ASSUME NEW d \in Nat, d \in moves PROVE d + 1 \in moves
    <3> SUFFICES ASSUME d + 1 <= N, f[(N - (d + 1)) + 1] = f[N - (d + 1)] PROVE FALSE
      BY <2>2
    <3> DEFINE m == N - (d + 1)
    <3>1. m \in Nat /\ m + 1 = N - d /\ m + 2 = (N - d) + 1
      BY <1>1
    <3>2. f[m + 2] = f[m + 1]
      BY <3>1 DEF Grows
    <3> QED  BY <1>1, <2>2, <3>1, <3>2
  <2> HIDE DEF moves
  <2> QED  BY <2>1, <2>2, Inductive
<1>5. ASSUME NEW n \in Nat, n <= N PROVE f[n + 1] # f[n]
  <2>1. N - n \in moves /\ N - (N - n) = n
    BY <1>1, <1>4, <1>5
  <2>2. N - n \in Nat /\ N - n <= N
    BY <1>1, <1>5
  <2> QED  BY <2>1, <2>2
<1>6. Nat \subseteq sizes
  <2>1. 0 \in sizes
    BY <1>3
  <2>2. ASSUME NEW n \in Nat, n \in sizes PROVE n + 1 \in sizes
    <3> SUFFICES ASSUME n + 1 <= N + 1 PROVE Cardinality(f[n + 1]) >= n + 1
      OBVIOUS
    <3>1. n <= N /\ n + 1 \in Nat /\ Cardinality(f[n]) >= n
      BY <1>1, <2>2
    <3>2. f[n] \in SUBSET f[n + 1] /\ f[n] # f[n + 1]
      BY <1>5, <3>1 DEF Grows
    <3>3. Cardinality(f[n]) <= Cardinality(f[n + 1]) /\ Cardinality(f[n]) # Cardinality(f[n + 1])
      BY <1>3, <3>1, <3>2, FS_Subset
    <3> QED  BY <1>3, <3>1, <3>3
  <2> HIDE DEF sizes
  <2> QED  BY <2>1, <2>2, Inductive
<1>7. Cardinality(f[N + 1]) >= N + 1
  BY <1>1, <1>6
<1> QED  BY <1>1, <1>3, <1>7

\* The values of a function on a finite set are finitely many.
LEMMA FiniteImage ==
  ASSUME NEW S, IsFiniteSet(S), NEW f, DOMAIN f = S
  PROVE  IsFiniteSet({f[x] : x \in S})
<1> DEFINE T == {f[x] : x \in S}
           g == [x \in S |-> f[x]]
<1>1. g \in Surjection(S, T)
  BY DEF Surjection
<1> HIDE DEF g, T
<1> QED  BY <1>1, FS_Surjection DEF T

\* A finite set of integers has a greatest one and a least one.
LEMMA GreatestInteger ==
  ASSUME NEW S \in SUBSET Int, IsFiniteSet(S), S # {}
  PROVE  Max(S) \in S /\ Max(S) \in Int /\ \A y \in S : Max(S) >= y
<1> DEFINE Topped(T) == \E x \in T : \A y \in T : x >= y
           bad == {n \in Nat : \E T \in SUBSET S : T # {} /\ Cardinality(T) = n /\ ~Topped(T)}
<1>1. ASSUME bad # {} PROVE FALSE
  <2>1. PICK n \in bad : \A m \in bad : n <= m
    BY <1>1, LeastNumber
  <2>2. PICK T \in SUBSET S : T # {} /\ Cardinality(T) = n /\ ~Topped(T)
    BY <2>1
  <2>3. PICK z \in T : TRUE
    BY <2>2
  <2> DEFINE U == T \ {z}
  <2>4. IsFiniteSet(T) /\ Cardinality(U) = n - 1 /\ IsFiniteSet(U) /\ Cardinality(U) \in Nat
    BY <2>2, <2>3, FS_Subset, FS_RemoveElement, FS_CardinalityType
  <2>5. Cardinality(U) \notin bad
    BY <2>1, <2>4
  <2>6. U = {} \/ Topped(U)
    BY <2>4, <2>5
  <2>7. CASE U = {}
    BY <2>2, <2>3, <2>7
  <2>8. CASE Topped(U)
    <3>1. PICK x \in U : \A y \in U : x >= y
      BY <2>8
    <3>2. x \in T /\ x \in Int /\ z \in Int /\ \A y \in T : y \in Int /\ (y = z \/ x >= y)
      BY <2>3, <3>1
    <3>3. Topped(T)
      <4>1. CASE x >= z
        BY <3>2, <4>1
      <4>2. CASE z >= x
        <5>1. \A y \in T : z >= y
          BY <3>2, <4>2
        <5> QED  BY <2>3, <5>1
      <4> QED  BY <3>2, <4>1, <4>2
    <3> QED  BY <2>2, <3>3
  <2> QED  BY <2>6, <2>7, <2>8
<1>2. Topped(S)
  <2>1. Cardinality(S) \in Nat
    BY FS_CardinalityType
  <2> QED  BY <1>1, <2>1
<1> QED  BY <1>2 DEF Max

\* A finite set of integers has a least one.
LEMMA LeastInteger ==
  ASSUME NEW S \in SUBSET Int, IsFiniteSet(S), S # {}
  PROVE  Min(S) \in S /\ Min(S) \in Int /\ \A y \in S : Min(S) <= y
<1> DEFINE f == [x \in S |-> -x]
           T == {f[x] : x \in S}
<1>1. IsFiniteSet(T) /\ T \in SUBSET Int /\ T # {}
  <2>1. IsFiniteSet(T)
    <3> HIDE DEF f
    <3>1. DOMAIN f = S
      BY DEF f
    <3> QED  BY <3>1, FiniteImage
  <2>2. \A x \in S : f[x] \in Int
    OBVIOUS
  <2>3. T \in SUBSET Int /\ T # {}
    <3> HIDE DEF f
    <3> QED  BY <2>2
  <2> QED  BY <2>1, <2>3
<1>2. Max(T) \in T /\ \A y \in T : Max(T) >= y
  <2> HIDE DEF T
  <2> QED  BY <1>1, GreatestInteger
<1>3. PICK x \in S : Max(T) = -x
  BY <1>2
<1>4. \A y \in S : x <= y
  <2>1. ASSUME NEW y \in S PROVE x <= y
    <3>1. -y \in T
      OBVIOUS
    <3> HIDE DEF T
    <3>2. -x >= -y
      BY <1>2, <1>3, <3>1
    <3> QED  BY <3>2
  <2> QED  BY <2>1
<1> QED  BY <1>4 DEF Min

\* Of a finite set of numbers with integer values, one of least value is the first of them.
LEMMA FirstLeast ==
  ASSUME NEW S \in SUBSET Nat, IsFiniteSet(S), S # {}, NEW f \in [S -> Int]
  PROVE  \E k \in S : \A j \in S : f[k] < f[j] \/ (f[k] = f[j] /\ k <= j)
<1> DEFINE T == {f[x] : x \in S}
           least == {x \in S : f[x] = Min(T)}
<1>1. IsFiniteSet(T) /\ T \in SUBSET Int /\ T # {}
  <2>1. IsFiniteSet(T)
    BY FiniteImage
  <2> QED  BY <2>1
<1>2. Min(T) \in T /\ \A y \in T : Min(T) <= y
  <2> HIDE DEF T
  <2> QED  BY <1>1, LeastInteger
<1>3. least # {} /\ least \in SUBSET Nat
  BY <1>2
<1>4. PICK k \in least : \A n \in least : k <= n
  <2> HIDE DEF least
  <2> QED  BY <1>3, LeastNumber
<1>5. ASSUME NEW j \in S PROVE f[k] < f[j] \/ (f[k] = f[j] /\ k <= j)
  <2>1. f[k] = Min(T) /\ f[j] \in T /\ f[k] \in Int /\ f[j] \in Int
    BY <1>4
  <2>2. f[k] <= f[j]
    BY <1>2, <2>1
  <2>3. CASE f[k] = f[j]
    BY <1>4, <2>1, <2>3
  <2> QED  BY <2>1, <2>2, <2>3
<1> QED  BY <1>4, <1>5

\* How many members of a set come before a number.
Turn(S, v) == Cardinality({w \in S : w < v})

\* The members of a set take different turns, and all turns are taken.
LEMMA TurnsOf ==
  ASSUME NEW S \in SUBSET Int, IsFiniteSet(S)
  PROVE  /\ Cardinality(S) \in Nat
         /\ \A v \in S : Turn(S, v) \in 0..(Cardinality(S) - 1)
         /\ \A v, w \in S : Turn(S, v) = Turn(S, w) => v = w
         /\ \A n \in 0..(Cardinality(S) - 1) : \E v \in S : Turn(S, v) = n
<1> DEFINE n == Cardinality(S)
           before(v) == {w \in S : w < v}
           turn == [v \in S |-> Turn(S, v)]
<1>1. n \in Nat
  BY FS_CardinalityType
<1>2. ASSUME NEW v \in S
      PROVE  IsFiniteSet(before(v)) /\ Cardinality(before(v)) \in Nat /\ Cardinality(before(v)) < n
  <2>1. before(v) \in SUBSET S /\ before(v) # S
    <3>1. v \notin before(v)
      OBVIOUS
    <3> QED  BY <3>1
  <2> HIDE DEF before
  <2>2. IsFiniteSet(before(v)) /\ Cardinality(before(v)) <= n /\ Cardinality(before(v)) # n
    BY <2>1, FS_Subset
  <2> QED  BY <1>1, <2>2, FS_CardinalityType
<1>3. ASSUME NEW v \in S PROVE Turn(S, v) \in 0..(n - 1)
  BY <1>1, <1>2 DEF Turn
<1>4. ASSUME NEW v \in S, NEW w \in S, v < w PROVE Turn(S, v) # Turn(S, w)
  <2>1. before(v) \in SUBSET before(w) /\ v \in before(w) /\ v \notin before(v)
    <3>1. v \in Int /\ w \in Int /\ \A x \in S : x \in Int
      OBVIOUS
    <3>2. \A x \in S : x < v => x < w
      BY <1>4, <3>1
    <3>3. ~(v < v)
      BY <3>1
    <3> QED  BY <1>4, <3>2, <3>3
  <2>2. before(v) # before(w)
    BY <2>1
  <2>3. Cardinality(before(v)) # Cardinality(before(w))
    <3> HIDE DEF before
    <3> QED  BY <1>2, <2>1, <2>2, FS_Subset
  <2> QED  BY <2>3 DEF Turn
<1>5. \A v, w \in S : Turn(S, v) = Turn(S, w) => v = w
  <2> SUFFICES ASSUME NEW v \in S, NEW w \in S, v # w PROVE Turn(S, v) # Turn(S, w)
    OBVIOUS
  <2>1. v < w \/ w < v
    OBVIOUS
  <2> QED  BY <1>4, <2>1
<1>6. turn \in Injection(S, 0..(n - 1))
  BY <1>3, <1>5 DEF Injection, IsInjective
<1>7. IsFiniteSet(0..(n - 1)) /\ Cardinality(0..(n - 1)) = n
  BY <1>1, FS_Interval
<1>8. turn \in Surjection(S, 0..(n - 1))
  <2> HIDE DEF turn
  <2> QED  BY <1>6, <1>7, FS_Injection
<1>9. \A i \in 0..(n - 1) : \E v \in S : Turn(S, v) = i
  BY <1>8 DEF Surjection
<1> QED  BY <1>1, <1>3, <1>5, <1>9

\* The members in their order.
LEMMA InOrderFacts ==
  ASSUME NEW S \in SUBSET Int, IsFiniteSet(S)
  PROVE  /\ Cardinality(S) \in Nat
         /\ InOrder(S) \in [1..Cardinality(S) -> S]
         /\ \A v \in S : \E i \in 1..Cardinality(S) : InOrder(S)[i] = v
         /\ \A i \in 1..Cardinality(S) : Turn(S, InOrder(S)[i]) = i - 1
<1> DEFINE n == Cardinality(S)
           o == InOrder(S)
<1>1. n \in Nat
  BY TurnsOf
<1>2. ASSUME NEW i \in 1..n PROVE o[i] \in S /\ Turn(S, o[i]) = i - 1
  <2>1. i - 1 \in 0..(n - 1)
    BY <1>1
  <2>2. \E v \in S : Turn(S, v) = i - 1
    BY <2>1, TurnsOf
  <2>3. o[i] = CHOOSE v \in S : Turn(S, v) = i - 1
    BY DEF InOrder, Turn
  <2> QED  BY <2>2, <2>3
<1>3. DOMAIN o = 1..n
  BY DEF InOrder
<1>4. o \in [1..n -> S]
  <2>1. \A i \in 1..n : (CHOOSE v \in S : Cardinality({w \in S : w < v}) = i - 1) \in S
    BY <1>2 DEF InOrder
  <2> QED  BY <2>1 DEF InOrder
<1>5. ASSUME NEW v \in S PROVE \E i \in 1..n : o[i] = v
  <2>1. Turn(S, v) \in 0..(n - 1)
    BY TurnsOf
  <2>2. Turn(S, v) + 1 \in 1..n /\ (Turn(S, v) + 1) - 1 = Turn(S, v)
    BY <1>1, <2>1
  <2>3. o[Turn(S, v) + 1] \in S /\ Turn(S, o[Turn(S, v) + 1]) = Turn(S, v)
    BY <1>2, <2>2
  <2>4. o[Turn(S, v) + 1] = v
    <3>1. PICK x \in S : x = o[Turn(S, v) + 1] /\ Turn(S, x) = Turn(S, v)
      BY <2>3
    <3>2. x = v
      BY <3>1, TurnsOf
    <3> QED  BY <3>1, <3>2
  <2> QED  BY <2>2, <2>4
<1> QED  BY <1>1, <1>2, <1>4, <1>5
-----------------------------------------------------------------------------
(* Lists, orders, sums over finite sets, and pairs of links that cross:    *)
(* what LayeringProofs and OrderingProofs need of them.                    *)

\* The entries of a sequence.
LEMMA EntryOf ==
  ASSUME NEW R, NEW s \in Seq(R), NEW k \in DOMAIN s
  PROVE  k \in Nat /\ s[k] \in R
  OBVIOUS

\* One list after another.
LEMMA Concatenated ==
  ASSUME NEW R, NEW s \in Seq(R), NEW t \in Seq(R)
  PROVE  /\ s \o t \in Seq(R) /\ Len(s \o t) = Len(s) + Len(t)
         /\ \A i \in 1..Len(s) : (s \o t)[i] = s[i]
         /\ \A i \in 1..Len(t) : (s \o t)[Len(s) + i] = t[i]
  OBVIOUS

\* An order of the members of a set, given as the pairs it holds of.
StrictOrder(S, R) ==
  /\ \A u \in S : <<u, u>> \notin R
  /\ \A u, v, w \in S : <<u, v>> \in R /\ <<v, w>> \in R => <<u, w>> \in R
  /\ \A u, v \in S : u = v \/ <<u, v>> \in R \/ <<v, u>> \in R

\* How many members come before one.
TurnIn(S, R, v) == Cardinality({w \in S : <<w, v>> \in R})

\* The members of a set listed in an order.
IsLining(o, S, R) ==
  /\ Cardinality(S) \in Nat
  /\ o \in [1..Cardinality(S) -> S]
  /\ \A v \in S : \E k \in 1..Cardinality(S) : o[k] = v
  /\ \A j, k \in 1..Cardinality(S) : j < k <=> <<o[j], o[k]>> \in R

\* The members of a set take different turns in an order, and all turns are taken.
LEMMA OrderedTurns ==
  ASSUME NEW S, IsFiniteSet(S), NEW R, StrictOrder(S, R)
  PROVE  /\ Cardinality(S) \in Nat
         /\ \A v \in S : TurnIn(S, R, v) \in 0..(Cardinality(S) - 1)
         /\ \A v, w \in S : <<v, w>> \in R <=> TurnIn(S, R, v) < TurnIn(S, R, w)
         /\ \A v, w \in S : TurnIn(S, R, v) = TurnIn(S, R, w) => v = w
         /\ \A n \in 0..(Cardinality(S) - 1) : \E v \in S : TurnIn(S, R, v) = n
<1> DEFINE n == Cardinality(S)
           before(v) == {w \in S : <<w, v>> \in R}
           turnOf == [v \in S |-> TurnIn(S, R, v)]
<1>1. n \in Nat
  BY FS_CardinalityType
<1>2. ASSUME NEW v \in S
      PROVE  IsFiniteSet(before(v)) /\ Cardinality(before(v)) \in Nat /\ Cardinality(before(v)) < n
  <2>1. before(v) \in SUBSET S /\ before(v) # S
    <3>1. v \notin before(v)
      BY DEF StrictOrder
    <3> QED  BY <3>1
  <2> HIDE DEF before
  <2>2. IsFiniteSet(before(v)) /\ Cardinality(before(v)) <= n /\ Cardinality(before(v)) # n
    BY <2>1, FS_Subset
  <2> QED  BY <1>1, <2>2, FS_CardinalityType
<1>3. ASSUME NEW v \in S PROVE TurnIn(S, R, v) \in 0..(n - 1)
  BY <1>1, <1>2 DEF TurnIn
<1>4. ASSUME NEW v \in S, NEW w \in S, <<v, w>> \in R PROVE TurnIn(S, R, v) < TurnIn(S, R, w)
  <2>1. before(v) \subseteq before(w) /\ v \in before(w) /\ v \notin before(v)
    BY <1>4 DEF StrictOrder
  <2> HIDE DEF before
  <2>2. before(v) \in SUBSET before(w) /\ before(v) # before(w)
    BY <2>1
  <2>3. IsFiniteSet(before(w)) /\ Cardinality(before(v)) \in Nat /\ Cardinality(before(w)) \in Nat
    BY <1>2
  <2>4. Cardinality(before(v)) <= Cardinality(before(w)) /\ Cardinality(before(v)) # Cardinality(before(w))
    BY <2>2, <2>3, FS_Subset
  <2>5. Cardinality(before(v)) < Cardinality(before(w))
    BY <2>3, <2>4
  <2> QED  BY <2>5 DEF TurnIn, before
<1>5. ASSUME NEW v \in S, NEW w \in S, TurnIn(S, R, v) = TurnIn(S, R, w) PROVE v = w
  <2>1. ~(TurnIn(S, R, v) < TurnIn(S, R, w)) /\ ~(TurnIn(S, R, w) < TurnIn(S, R, v))
    BY <1>3, <1>5
  <2> QED  BY <1>4, <2>1 DEF StrictOrder
<1>6. ASSUME NEW v \in S, NEW w \in S, TurnIn(S, R, v) < TurnIn(S, R, w) PROVE <<v, w>> \in R
  <2>1. v # w /\ ~(TurnIn(S, R, w) < TurnIn(S, R, v))
    BY <1>3, <1>6
  <2> QED  BY <1>4, <2>1 DEF StrictOrder
<1>7. turnOf \in Injection(S, 0..(n - 1))
  BY <1>3, <1>5 DEF Injection, IsInjective
<1>8. IsFiniteSet(0..(n - 1)) /\ Cardinality(0..(n - 1)) = n
  BY <1>1, FS_Interval
<1>9. turnOf \in Surjection(S, 0..(n - 1))
  <2> HIDE DEF turnOf
  <2> QED  BY <1>7, <1>8, FS_Injection
<1>10. \A i \in 0..(n - 1) : \E v \in S : TurnIn(S, R, v) = i
  BY <1>9 DEF Surjection
<1> QED  BY <1>1, <1>3, <1>4, <1>5, <1>6, <1>10

\* A list by turns is a list in the order.
LEMMA LiningOf ==
  ASSUME NEW S, IsFiniteSet(S), NEW R, StrictOrder(S, R), NEW o, DOMAIN o = 1..Cardinality(S),
         o = [k \in DOMAIN o |-> o[k]],
         \A k \in 1..Cardinality(S) : o[k] \in S /\ TurnIn(S, R, o[k]) = k - 1
  PROVE  IsLining(o, S, R)
<1> DEFINE n == Cardinality(S)
<1>1. n \in Nat
  BY FS_CardinalityType
<1>2. o \in [1..n -> S]
  <2>1. \A k \in 1..n : o[k] \in S
    OBVIOUS
  <2> QED  BY <2>1
<1>3. ASSUME NEW v \in S PROVE \E k \in 1..n : o[k] = v
  <2>1. TurnIn(S, R, v) \in 0..(n - 1)
    BY OrderedTurns
  <2> DEFINE k == TurnIn(S, R, v) + 1
  <2>2. k \in 1..n /\ k - 1 = TurnIn(S, R, v)
    BY <1>1, <2>1
  <2>3. o[k] \in S /\ TurnIn(S, R, o[k]) = TurnIn(S, R, v)
    BY <2>2
  <2>4. o[k] = v
    BY <2>3, OrderedTurns
  <2> QED  BY <2>2, <2>4
<1>4. ASSUME NEW j \in 1..n, NEW k \in 1..n PROVE j < k <=> <<o[j], o[k]>> \in R
  <2>1. o[j] \in S /\ o[k] \in S /\ TurnIn(S, R, o[j]) = j - 1 /\ TurnIn(S, R, o[k]) = k - 1
    OBVIOUS
  <2>2. <<o[j], o[k]>> \in R <=> j - 1 < k - 1
    BY <2>1, OrderedTurns
  <2> QED  BY <1>1, <2>2
<1> QED  BY <1>1, <1>2, <1>3, <1>4 DEF IsLining

\* What folding over a finite set computes for its subsets.
Folds(f, S, base, succ, ch) ==
  f = [T \in SUBSET S |-> IF T = {} THEN base ELSE succ[<<ch[T], f[T \ {ch[T]}]>>]]

\* Such a function exists.
LEMMA FoldExists ==
  ASSUME NEW S, IsFiniteSet(S), NEW V, NEW base \in V, NEW ch, NEW succ \in [S \X V -> V],
         \A T \in SUBSET S : T # {} => ch[T] \in T
  PROVE  \E f : f \in [SUBSET S -> V] /\ Folds(f, S, base, succ, ch)
<1> DEFINE Upto(f, m) ==
             \A T \in SUBSET S : Cardinality(T) <= m =>
               f[T] = IF T = {} THEN base ELSE succ[<<ch[T], f[T \ {ch[T]}]>>]
           good == {m \in Nat : \E f \in [SUBSET S -> V] : Upto(f, m)}
<1>1. ASSUME NEW T \in SUBSET S
      PROVE  /\ IsFiniteSet(T) /\ Cardinality(T) \in Nat
             /\ T # {} => /\ Cardinality(T \ {ch[T]}) = Cardinality(T) - 1
                          /\ Cardinality(T) > 0 /\ ch[T] \in S /\ T \ {ch[T]} \in SUBSET S
  <2>1. IsFiniteSet(T) /\ Cardinality(T) \in Nat
    BY FS_Subset, FS_CardinalityType
  <2>2. ASSUME T # {} PROVE Cardinality(T \ {ch[T]}) = Cardinality(T) - 1 /\ Cardinality(T) > 0
    <3>1. ch[T] \in T
      BY <2>2
    <3>2. Cardinality(T \ {ch[T]}) = Cardinality(T) - 1
      BY <2>1, <3>1, FS_RemoveElement
    <3>3. Cardinality(T) # 0
      BY <2>1, <2>2, FS_EmptySet
    <3> QED  BY <2>1, <3>2, <3>3
  <2> QED  BY <2>1, <2>2
<1>2. 0 \in good
  <2> DEFINE f == [T \in SUBSET S |-> base]
  <2>1. f \in [SUBSET S -> V]
    OBVIOUS
  <2>2. ASSUME NEW T \in SUBSET S, Cardinality(T) <= 0 PROVE T = {} /\ f[T] = base
    <3>1. IsFiniteSet(T) /\ Cardinality(T) \in Nat
      BY <1>1
    <3>3. Cardinality(T) = 0
      BY <2>2, <3>1
    <3>2. T = {}
      BY <3>1, <3>3, FS_EmptySet
    <3> QED  BY <3>2
  <2> HIDE DEF f
  <2>3. Upto(f, 0)
    BY <2>2
  <2> QED  BY <2>1, <2>3
<1>3. ASSUME NEW m \in Nat, m \in good PROVE m + 1 \in good
  <2>1. PICK f \in [SUBSET S -> V] : Upto(f, m)
    BY <1>3
  <2> DEFINE g == [T \in SUBSET S |-> IF T = {} THEN base ELSE succ[<<ch[T], f[T \ {ch[T]}]>>]]
  <2>2. g \in [SUBSET S -> V]
    <3>1. ASSUME NEW T \in SUBSET S, T # {} PROVE succ[<<ch[T], f[T \ {ch[T]}]>>] \in V
      <4>1. ch[T] \in S /\ f[T \ {ch[T]}] \in V
        BY <1>1, <3>1
      <4> QED  BY <4>1
    <3> QED  BY <3>1
  <2>3. ASSUME NEW T \in SUBSET S, Cardinality(T) <= m PROVE g[T] = f[T]
    BY <2>1, <2>3
  <2>4. ASSUME NEW T \in SUBSET S, Cardinality(T) <= m + 1
        PROVE  g[T] = IF T = {} THEN base ELSE succ[<<ch[T], g[T \ {ch[T]}]>>]
    <3>1. CASE T = {}
      BY <3>1
    <3>2. CASE T # {}
      <4>1. Cardinality(T \ {ch[T]}) <= m /\ T \ {ch[T]} \in SUBSET S
        <5>1. Cardinality(T) \in Nat /\ Cardinality(T \ {ch[T]}) = Cardinality(T) - 1
          BY <1>1, <3>2
        <5> QED  BY <2>4, <5>1
      <4>2. g[T \ {ch[T]}] = f[T \ {ch[T]}]
        BY <2>3, <4>1
      <4>3. g[T] = succ[<<ch[T], f[T \ {ch[T]}]>>]
        BY <3>2
      <4> QED  BY <3>2, <4>2, <4>3
    <3> QED  BY <3>1, <3>2
  <2> HIDE DEF g
  <2>5. Upto(g, m + 1)
    BY <2>4
  <2> HIDE DEF Upto
  <2> QED  BY <2>2, <2>5
<1>4. Nat \subseteq good
  <2> HIDE DEF good
  <2> QED  BY <1>2, <1>3, Inductive
<1>5. Cardinality(S) \in Nat
  BY FS_CardinalityType
<1>6. PICK f \in [SUBSET S -> V] : Upto(f, Cardinality(S))
  BY <1>4, <1>5
<1>7. ASSUME NEW T \in SUBSET S PROVE Cardinality(T) <= Cardinality(S)
  BY FS_Subset
<1>8. ASSUME NEW T \in SUBSET S
      PROVE  f[T] = IF T = {} THEN base ELSE succ[<<ch[T], f[T \ {ch[T]}]>>]
  BY <1>6, <1>7
<1>9. f = [T \in SUBSET S |-> f[T]]
  OBVIOUS
<1>10. f = [T \in SUBSET S |-> IF T = {} THEN base ELSE succ[<<ch[T], f[T \ {ch[T]}]>>]]
  <2> DEFINE h == [T \in SUBSET S |-> IF T = {} THEN base ELSE succ[<<ch[T], f[T \ {ch[T]}]>>]]
  <2>1. \A T \in SUBSET S : f[T] = h[T]
    BY <1>8
  <2>2. DOMAIN h = SUBSET S /\ h = [T \in SUBSET S |-> h[T]]
    OBVIOUS
  <2> HIDE DEF h
  <2>3. f = h
    BY <1>9, <2>1, <2>2
  <2> QED  BY <2>3 DEF h
<1> QED  BY <1>10 DEF Folds

\* A property that every turn of a fold keeps holds of what it computes.
LEMMA FoldKeeps ==
  ASSUME NEW S, IsFiniteSet(S), NEW V, NEW g, NEW ch,
         \A T \in SUBSET S : T # {} => ch[T] \in T,
         g[{}] \in V,
         \A T \in SUBSET S : T # {} /\ g[T \ {ch[T]}] \in V => g[T] \in V
  PROVE  \A T \in SUBSET S : g[T] \in V
<1> DEFINE good == {m \in Nat : \A T \in SUBSET S : Cardinality(T) = m => g[T] \in V}
<1>1. ASSUME NEW T \in SUBSET S PROVE IsFiniteSet(T) /\ Cardinality(T) \in Nat
  BY FS_Subset, FS_CardinalityType
<1>2. 0 \in good
  <2>1. ASSUME NEW T \in SUBSET S, Cardinality(T) = 0 PROVE T = {}
    BY <1>1, <2>1, FS_EmptySet
  <2> QED  BY <2>1
<1>3. ASSUME NEW m \in Nat, m \in good PROVE m + 1 \in good
  <2>1. ASSUME NEW T \in SUBSET S, Cardinality(T) = m + 1 PROVE g[T] \in V
    <3>1. T # {}
      <4>1. IsFiniteSet(T)
        BY <1>1
      <4>2. Cardinality(T) # 0
        BY <2>1
      <4> QED  BY <4>1, <4>2, FS_EmptySet
    <3>2. ch[T] \in T
      BY <3>1
    <3>3. Cardinality(T \ {ch[T]}) = m /\ T \ {ch[T]} \in SUBSET S
      <4>1. IsFiniteSet(T)
        BY <1>1
      <4>2. Cardinality(T \ {ch[T]}) = Cardinality(T) - 1
        BY <3>2, <4>1, FS_RemoveElement
      <4> QED  BY <2>1, <4>2
    <3>4. g[T \ {ch[T]}] \in V
      BY <1>3, <3>3
    <3> QED  BY <3>1, <3>4
  <2> QED  BY <2>1
<1>4. Nat \subseteq good
  <2> HIDE DEF good
  <2> QED  BY <1>2, <1>3, Inductive
<1> QED  BY <1>1, <1>4

\* What summing over a finite set computes for its subsets.
SumRun(g, S, f) ==
  g = [T \in SUBSET S |->
         IF T = {} THEN 0 ELSE f[CHOOSE x \in T : TRUE] + g[T \ {CHOOSE x \in T : TRUE}]]

\* The sums over the subsets of a finite set exist,
LEMMA SumExists ==
  ASSUME NEW S, IsFiniteSet(S), NEW f \in [S -> Int]
  PROVE  \E g : SumRun(g, S, f)
<1> DEFINE ch == [T \in SUBSET S |-> CHOOSE x \in T : TRUE]
           succ == [p \in S \X Int |-> f[p[1]] + p[2]]
<1>1. \A T \in SUBSET S : T # {} => ch[T] \in T
  OBVIOUS
<1>2. succ \in [S \X Int -> Int]
  OBVIOUS
<1>3. PICK g : g \in [SUBSET S -> Int] /\ Folds(g, S, 0, succ, ch)
  <2> HIDE DEF succ, ch
  <2>1. 0 \in Int
    OBVIOUS
  <2> QED  BY <1>1, <1>2, <2>1, FoldExists, Zenon
<1>4. \A T \in SUBSET S : ch[T] = CHOOSE x \in T : TRUE
  OBVIOUS
<1>5. ASSUME NEW T \in SUBSET S, T # {}
      PROVE  succ[<<ch[T], g[T \ {ch[T]}]>>] = f[ch[T]] + g[T \ {ch[T]}]
  <2>1. ch[T] \in S /\ g[T \ {ch[T]}] \in Int
    <3>1. ch[T] \in T
      BY <1>1, <1>5
    <3> HIDE DEF ch
    <3> QED  BY <1>3, <3>1
  <2> HIDE DEF ch
  <2> QED  BY <2>1
<1>6. ASSUME NEW T \in SUBSET S
      PROVE  g[T] = IF T = {} THEN 0
                    ELSE f[CHOOSE x \in T : TRUE] + g[T \ {CHOOSE x \in T : TRUE}]
  <2> HIDE DEF succ, ch
  <2>1. g[T] = IF T = {} THEN 0 ELSE succ[<<ch[T], g[T \ {ch[T]}]>>]
    BY <1>3 DEF Folds
  <2> QED  BY <1>4, <1>5, <2>1
<1>7. g = [T \in SUBSET S |-> g[T]]
  BY <1>3
<1> QED  BY <1>6, <1>7 DEF SumRun

\* and a sum of integers is an integer, of naturals a natural.
LEMMA SumTyped ==
  ASSUME NEW S, IsFiniteSet(S), NEW V \in {Int, Nat}, NEW f \in [S -> V], NEW g, SumRun(g, S, f)
  PROVE  g[S] \in V
<1> DEFINE ch == [T \in SUBSET S |-> CHOOSE x \in T : TRUE]
<1>1. ASSUME NEW T \in SUBSET S
      PROVE  g[T] = IF T = {} THEN 0
                    ELSE f[CHOOSE x \in T : TRUE] + g[T \ {CHOOSE x \in T : TRUE}]
  BY DEF SumRun
<1>2. \A T \in SUBSET S : T # {} => ch[T] \in T
  OBVIOUS
<1>3. g[{}] \in V
  BY <1>1
<1>4. ASSUME NEW T \in SUBSET S, T # {}, g[T \ {ch[T]}] \in V PROVE g[T] \in V
  <2>1. ch[T] \in S /\ ch[T] = CHOOSE x \in T : TRUE
    BY <1>2, <1>4
  <2>2. g[T] = f[ch[T]] + g[T \ {ch[T]}]
    BY <1>1, <1>4, <2>1
  <2>3. f[ch[T]] \in V
    BY <2>1
  <2> HIDE DEF ch
  <2> QED  BY <1>4, <2>2, <2>3
<1> HIDE DEF ch
<1>5. \A T \in SUBSET S : g[T] \in V
  BY <1>2, <1>3, <1>4, FoldKeeps
<1> QED  BY <1>5

\* One list stands in another from a place on.
Embeds(t, s, o) ==
  /\ o \in Nat /\ o + Len(s) <= Len(t)
  /\ \A k \in 1..Len(s) : t[o + k] = s[k]

\* The length, the indices and the members of a sequence.
LEMMA ListMembers ==
  ASSUME NEW R, NEW s \in Seq(R)
  PROVE  /\ Len(s) \in Nat /\ DOMAIN s = 1..Len(s) /\ ToSet(s) \subseteq R
         /\ \A x : x \in ToSet(s) <=> \E k \in 1..Len(s) : s[k] = x
         /\ \A k \in 1..Len(s) : s[k] \in ToSet(s)
<1>1. Len(s) \in Nat /\ DOMAIN s = 1..Len(s) /\ \A k \in 1..Len(s) : s[k] \in R
  OBVIOUS
<1>2. \A x : x \in ToSet(s) <=> \E k \in 1..Len(s) : s[k] = x
  BY <1>1 DEF ToSet
<1> QED  BY <1>1, <1>2

\* Two lists without repetition and without a common member, one after the other.
LEMMA Joined ==
  ASSUME NEW R, NEW s \in Seq(R), NEW t \in Seq(R)
  PROVE  /\ s \o t \in Seq(R) /\ Len(s \o t) = Len(s) + Len(t)
         /\ ToSet(s \o t) = ToSet(s) \union ToSet(t)
         /\ IsInjective(s) /\ IsInjective(t) /\ ToSet(s) \intersect ToSet(t) = {} => IsInjective(s \o t)
         /\ Embeds(s \o t, s, 0) /\ Embeds(s \o t, t, Len(s))
<1>1. PICK u : u = s \o t
  OBVIOUS
<1>2. /\ u \in Seq(R) /\ Len(u) = Len(s) + Len(t)
      /\ \A i \in 1..Len(s) : u[i] = s[i]
      /\ \A i \in 1..Len(t) : u[Len(s) + i] = t[i]
  BY <1>1, Concatenated
<1>3. Len(s) \in Nat /\ Len(t) \in Nat /\ DOMAIN s = 1..Len(s) /\ DOMAIN t = 1..Len(t) /\ DOMAIN u = 1..Len(u)
  BY <1>2, ListMembers
<1>4. ASSUME NEW k \in 1..Len(u)
      PROVE  \/ k \in 1..Len(s) /\ u[k] = s[k]
             \/ k - Len(s) \in 1..Len(t) /\ u[k] = t[k - Len(s)] /\ ~(k <= Len(s))
  <2>1. CASE k <= Len(s)
    BY <1>2, <1>3, <2>1
  <2>2. CASE ~(k <= Len(s))
    <3>1. k - Len(s) \in 1..Len(t) /\ Len(s) + (k - Len(s)) = k
      BY <1>2, <1>3, <2>2
    <3>2. u[Len(s) + (k - Len(s))] = t[k - Len(s)]
      BY <1>2, <3>1
    <3> QED  BY <2>2, <3>1, <3>2
  <2> QED  BY <2>1, <2>2
<1>5. ToSet(u) = ToSet(s) \union ToSet(t)
  <2>1. ASSUME NEW x \in ToSet(u) PROVE x \in ToSet(s) \union ToSet(t)
    <3>1. PICK k \in 1..Len(u) : u[k] = x
      BY <1>2, <2>1, ListMembers
    <3> QED  BY <1>4, <3>1, ListMembers
  <2>2. ASSUME NEW x \in ToSet(s) PROVE x \in ToSet(u)
    <3>1. PICK k \in 1..Len(s) : s[k] = x
      BY <2>2, ListMembers
    <3>2. k \in 1..Len(u) /\ u[k] = x
      BY <1>2, <1>3, <3>1
    <3> QED  BY <1>2, <3>2, ListMembers
  <2>3. ASSUME NEW x \in ToSet(t) PROVE x \in ToSet(u)
    <3>1. PICK k \in 1..Len(t) : t[k] = x
      BY <2>3, ListMembers
    <3>2. Len(s) + k \in 1..Len(u) /\ u[Len(s) + k] = x
      BY <1>2, <1>3, <3>1
    <3> QED  BY <1>2, <3>2, ListMembers
  <2> QED  BY <2>1, <2>2, <2>3
<1>6. ASSUME IsInjective(s), IsInjective(t), ToSet(s) \intersect ToSet(t) = {} PROVE IsInjective(u)
  <2>1. ASSUME NEW i \in 1..Len(u), NEW j \in 1..Len(u), u[i] = u[j] PROVE i = j
    <3>1. \A k \in 1..Len(s) : s[k] \in ToSet(s)
      BY ListMembers
    <3>2. \A k \in 1..Len(t) : t[k] \in ToSet(t)
      BY ListMembers
    <3>3. CASE i \in 1..Len(s) /\ u[i] = s[i]
      <4>1. u[j] \in ToSet(s) /\ u[j] \notin ToSet(t)
        BY <1>6, <2>1, <3>1, <3>3
      <4>2. j \in 1..Len(s) /\ u[j] = s[j]
        BY <1>4, <3>2, <4>1
      <4> QED  BY <1>3, <1>6, <2>1, <3>3, <4>2 DEF IsInjective
    <3>4. CASE i - Len(s) \in 1..Len(t) /\ u[i] = t[i - Len(s)]
      <4>1. u[j] \in ToSet(t) /\ u[j] \notin ToSet(s)
        BY <1>6, <2>1, <3>2, <3>4
      <4>2. j - Len(s) \in 1..Len(t) /\ u[j] = t[j - Len(s)]
        BY <1>4, <3>1, <4>1
      <4>3. i - Len(s) = j - Len(s)
        BY <1>3, <1>6, <2>1, <3>4, <4>2 DEF IsInjective
      <4> QED  BY <1>3, <4>3
    <3> QED  BY <1>4, <3>3, <3>4
  <2> QED  BY <1>3, <2>1 DEF IsInjective
<1>7. Embeds(u, s, 0) /\ Embeds(u, t, Len(s))
  BY <1>2, <1>3 DEF Embeds
<1> QED  BY <1>1, <1>2, <1>5, <1>6, <1>7

\* What stands in one piece in a piece of a list stands in one piece in the list.
LEMMA EmbedsOn ==
  ASSUME NEW R, NEW t \in Seq(R), NEW s \in Seq(R), NEW u \in Seq(R), NEW o, NEW p,
         Embeds(t, s, o), Embeds(s, u, p)
  PROVE  Embeds(t, u, o + p)
<1>1. Len(t) \in Nat /\ Len(s) \in Nat /\ Len(u) \in Nat /\ o \in Nat /\ p \in Nat
  BY DEF Embeds
<1>2. o + p \in Nat /\ o + p + Len(u) <= Len(t)
  BY <1>1 DEF Embeds
<1>3. ASSUME NEW k \in 1..Len(u) PROVE t[(o + p) + k] = u[k]
  <2>1. p + k \in 1..Len(s) /\ s[p + k] = u[k]
    BY <1>1 DEF Embeds
  <2>2. t[o + (p + k)] = s[p + k]
    BY <2>1 DEF Embeds
  <2>3. (o + p) + k = o + (p + k)
    BY <1>1
  <2> QED  BY <2>1, <2>2, <2>3
<1> QED  BY <1>2, <1>3 DEF Embeds

\* Fractions.
LEMMA Scaled ==
  ASSUME NEW x \in Int, NEW y \in Int, NEW n \in Nat \ {0}
  PROVE  (x < y <=> x * n < y * n) /\ (x = y <=> x * n = y * n)
<1>1. (y - x) * n = y * n - x * n /\ x * n \in Int /\ y * n \in Int
  OBVIOUS
<1>2. \A d \in Int : (d > 0 => d * n > 0) /\ (d < 0 => d * n < 0) /\ (d = 0 => d * n = 0)
  OBVIOUS
<1>3. PICK d \in Int : d = y - x
  OBVIOUS
<1>4. d * n = y * n - x * n
  BY <1>1, <1>3
<1> QED  BY <1>1, <1>2, <1>3, <1>4

\* Fractions with positive denominators are ordered as their products are.
LEMMA Fractions ==
  ASSUME NEW a \in Int, NEW b \in Int, NEW c \in Int,
         NEW k \in Nat \ {0}, NEW l \in Nat \ {0}, NEW m \in Nat \ {0}
  PROVE  /\ a * l < b * k /\ b * m < c * l => a * m < c * k
         /\ a * l < b * k /\ b * m = c * l => a * m < c * k
         /\ a * l = b * k /\ b * m < c * l => a * m < c * k
         /\ a * l = b * k /\ b * m = c * l => a * m = c * k
<1> DEFINE al == a * l  bk == b * k  bm == b * m  cl == c * l  am == a * m  ck == c * k
<1>1. al \in Int /\ bk \in Int /\ bm \in Int /\ cl \in Int /\ am \in Int /\ ck \in Int
  OBVIOUS
<1>2. al * m = am * l /\ bk * m = bm * k /\ cl * k = ck * l
  OBVIOUS
<1>3. (al < bk <=> al * m < bk * m) /\ (al = bk <=> al * m = bk * m)
  <2> HIDE DEF al, bk
  <2> QED  BY <1>1, Scaled
<1>4. (bm < cl <=> bm * k < cl * k) /\ (bm = cl <=> bm * k = cl * k)
  <2> HIDE DEF bm, cl
  <2> QED  BY <1>1, Scaled
<1>5. (am < ck <=> am * l < ck * l) /\ (am = ck <=> am * l = ck * l)
  <2> HIDE DEF am, ck
  <2> QED  BY <1>1, Scaled
<1>6. al * m \in Int /\ bk * m \in Int /\ cl * k \in Int
  <2> HIDE DEF al, bk, cl
  <2> QED  BY <1>1
<1>7. am * l = al * m /\ bm * k = bk * m /\ ck * l = cl * k
  BY <1>2
<1> HIDE DEF al, bk, bm, cl, am, ck
<1>8. /\ al < bk /\ bm < cl => am < ck
      /\ al < bk /\ bm = cl => am < ck
      /\ al = bk /\ bm < cl => am < ck
      /\ al = bk /\ bm = cl => am = ck
  BY <1>3, <1>4, <1>5, <1>6, <1>7
<1> QED  BY <1>8 DEF al, bk, bm, cl, am, ck

\* What a recursion from the predecessor stands for.
LEMMA RecursionExists ==
  ASSUME NEW V, NEW base \in V, NEW succ \in [V -> V]
  PROVE  \E f \in [Nat -> V] : /\ f[0] = base
                               /\ \A n \in Nat : n # 0 => n - 1 \in Nat /\ f[n - 1] \in V /\ f[n] = succ[f[n - 1]]
<1>1. PICK f : Iterates(f, V, base, succ)
  BY IterationExists
<1>2. f \in [Nat -> V] /\ f[0] = base
  BY <1>1 DEF Iterates
<1>3. ASSUME NEW n \in Nat, n # 0 PROVE n - 1 \in Nat /\ f[n - 1] \in V /\ f[n] = succ[f[n - 1]]
  <2>1. n - 1 \in Nat /\ (n - 1) + 1 = n
    BY <1>3
  <2>2. f[(n - 1) + 1] = succ[f[n - 1]]
    BY <1>1, <2>1 DEF Iterates
  <2> QED  BY <1>2, <2>1, <2>2
<1> QED  BY <1>2, <1>3

\* The head and the tail of a sequence.
LEMMA HeadAndTail ==
  ASSUME NEW R, NEW s \in Seq(R), s # <<>>
  PROVE  /\ Len(s) \in Nat /\ Len(s) >= 1 /\ Head(s) = s[1] /\ Head(s) \in R
         /\ Tail(s) \in Seq(R) /\ Len(Tail(s)) = Len(s) - 1
         /\ \A k \in 1..(Len(s) - 1) : Tail(s)[k] = s[k + 1]
  OBVIOUS

\* A sequence of members of Q is one over Q.
LEMMA SeqWithin ==
  ASSUME NEW R, NEW Q, NEW s \in Seq(R), \A k \in 1..Len(s) : s[k] \in Q
  PROVE  s \in Seq(Q)
<1>1. Len(s) \in Nat /\ s = [k \in 1..Len(s) |-> s[k]]
  OBVIOUS
<1>2. s \in [1..Len(s) -> Q]
  BY <1>1
<1> QED  BY <1>1, <1>2

\* A sequence has the members of a set in an order.
Lines(s, S, R) ==
  /\ s \in Seq(S)
  /\ \A x \in S : \E k \in 1..Len(s) : s[k] = x
  /\ \A j, k \in 1..Len(s) : j < k => <<s[j], s[k]>> \in R

\* A listing of a set is a sequence that lists it in order.
LEMMA LiningLines ==
  ASSUME NEW S, NEW R, NEW o, IsLining(o, S, R)
  PROVE  Lines(o, S, R) /\ Len(o) = Cardinality(S)
<1>1. PICK n \in Nat : n = Cardinality(S) /\ o \in [1..n -> S]
  BY DEF IsLining
<1>2. o \in Seq(S) /\ Len(o) = n
  BY <1>1
<1> QED  BY <1>1, <1>2 DEF IsLining, Lines

\* Without its head it lists the other members, all of which come after the head.
LEMMA LinesTail ==
  ASSUME NEW S, NEW R, \A x \in S : <<x, x>> \notin R, NEW s, Lines(s, S, R), s # <<>>
  PROVE  /\ Head(s) \in S /\ Lines(Tail(s), S \ {Head(s)}, R)
         /\ \A x \in S \ {Head(s)} : <<Head(s), x>> \in R
         /\ Len(Tail(s)) = Len(s) - 1
<1>1. s \in Seq(S)
  BY DEF Lines
<1>2. PICK t : t = Tail(s)
  OBVIOUS
<1>3. PICK h : h = Head(s)
  OBVIOUS
<1>4. /\ Len(s) \in Nat /\ Len(s) >= 1 /\ h = s[1] /\ h \in S
      /\ t \in Seq(S) /\ Len(t) = Len(s) - 1
      /\ \A k \in 1..(Len(s) - 1) : t[k] = s[k + 1]
  BY <1>1, <1>2, <1>3, HeadAndTail
<1>5. \A k \in 1..Len(t) : k + 1 \in 1..Len(s) /\ 1 \in 1..Len(s) /\ 1 < k + 1 /\ t[k] = s[k + 1]
  BY <1>4
<1>6. \A k \in 1..Len(t) : <<h, t[k]>> \in R /\ t[k] \in S \ {h}
  <2> TAKE k \in 1..Len(t)
  <2>1. <<s[1], s[k + 1]>> \in R
    BY <1>5 DEF Lines
  <2>2. t[k] \in S
    BY <1>4
  <2> QED  BY <1>4, <1>5, <2>1, <2>2
<1>7. \A x \in S \ {h} : \E k \in 1..Len(t) : t[k] = x
  <2> TAKE x \in S \ {h}
  <2>1. PICK k \in 1..Len(s) : s[k] = x
    BY DEF Lines
  <2>2. k # 1
    BY <1>4, <2>1
  <2>3. k - 1 \in 1..Len(t) /\ (k - 1) + 1 = k
    BY <1>4, <2>2
  <2>4. t[k - 1] = s[(k - 1) + 1]
    BY <1>5, <2>3
  <2> QED  BY <2>1, <2>3, <2>4
<1>8. \A j, k \in 1..Len(t) : j < k => <<t[j], t[k]>> \in R
  <2> TAKE j, k \in 1..Len(t)
  <2>1. j < k => j + 1 < k + 1
    BY <1>4
  <2> QED  BY <1>5, <2>1 DEF Lines
<1>9. t \in Seq(S \ {h})
  BY <1>4, <1>6, SeqWithin
<1>10. \A x \in S \ {h} : <<h, x>> \in R
  BY <1>6, <1>7
<1> QED  BY <1>2, <1>3, <1>4, <1>7, <1>8, <1>9, <1>10 DEF Lines

\* Only the empty set is listed by nothing.
LEMMA LinesNone ==
  ASSUME NEW S, NEW R, NEW s, Lines(s, S, R)
  PROVE  s = <<>> <=> S = {}
<1>1. s \in Seq(S) /\ Len(s) \in Nat
  BY DEF Lines
<1>2. CASE s = <<>>
  <2>1. 1..Len(s) = {}
    BY <1>2
  <2> QED  BY <1>2, <2>1 DEF Lines
<1>3. CASE s # <<>>
  <2>1. Head(s) \in S
    BY <1>1, <1>3, HeadAndTail
  <2> QED  BY <1>3, <2>1
<1> QED  BY <1>2, <1>3

\* A sequence over a part of R is one over R.
LEMMA SeqWider ==
  ASSUME NEW R, NEW Q \in SUBSET R, NEW s \in Seq(Q)
  PROVE  s \in Seq(R)
<1>1. Len(s) \in Nat /\ s = [k \in 1..Len(s) |-> s[k]] /\ \A k \in 1..Len(s) : s[k] \in Q
  OBVIOUS
<1>2. s \in [1..Len(s) -> R]
  <2>1. \A k \in 1..Len(s) : s[k] \in R
    BY <1>1
  <2> QED  BY <1>1, <2>1
<1> QED  BY <1>1, <1>2

\* A list of the members of a set, each once.
Lists(s, S) == s \in Seq(S) /\ IsInjective(s) /\ \A x \in S : \E k \in 1..Len(s) : s[k] = x

\* Without its last member a list lists the others.
LEMMA ListsFront ==
  ASSUME NEW S, NEW s, Lists(s, S), S # {}
  PROVE  s # <<>> /\ Last(s) \in S /\ Lists(Front(s), S \ {Last(s)})
<1>1. s \in Seq(S) /\ Len(s) \in Nat /\ DOMAIN s = 1..Len(s)
  BY DEF Lists
<1>2. PICK x : x \in S
  OBVIOUS
<1>3. PICK k \in 1..Len(s) : s[k] = x
  BY <1>2 DEF Lists
<1>4. Len(s) >= 1 /\ s # <<>> /\ Len(s) \in 1..Len(s)
  BY <1>1, <1>3
<1>5. Last(s) = s[Len(s)] /\ Last(s) \in S
  BY <1>1, <1>4 DEF Last
<1>6. PICK f : f = Front(s)
  OBVIOUS
<1>7. f \in Seq(S) /\ Len(f) = Len(s) - 1 /\ \A i \in 1..(Len(s) - 1) : f[i] = s[i]
  BY <1>1, <1>4, <1>6 DEF Front
<1>8. \A i \in 1..Len(f) : i \in 1..Len(s) /\ i # Len(s) /\ f[i] = s[i] /\ f[i] \in S \ {Last(s)}
  <2> TAKE i \in 1..Len(f)
  <2>1. i \in 1..Len(s) /\ i # Len(s) /\ f[i] = s[i]
    <3>1. PICK n \in Nat : n = Len(s)
      BY <1>1
    <3>2. i \in 1..(n - 1) /\ \A j \in 1..(n - 1) : f[j] = s[j]
      BY <1>7, <3>1
    <3>3. i \in 1..n /\ i # n
      BY <3>2
    <3> QED  BY <3>1, <3>2, <3>3
  <2>2. s[i] # s[Len(s)]
    BY <1>1, <1>4, <2>1 DEF Lists, IsInjective
  <2>3. s[i] \in S
    BY <1>1, <2>1, EntryOf
  <2> QED  BY <1>5, <2>1, <2>2, <2>3
<1>9. f \in Seq(S \ {Last(s)})
  BY <1>7, <1>8, SeqWithin
<1>10. IsInjective(f)
  <2>1. DOMAIN f = 1..Len(f)
    BY <1>7
  <2> QED  BY <1>1, <1>8, <2>1 DEF Lists, IsInjective
<1>11. \A y \in S \ {Last(s)} : \E i \in 1..Len(f) : f[i] = y
  <2> TAKE y \in S \ {Last(s)}
  <2>1. PICK i \in 1..Len(s) : s[i] = y
    BY DEF Lists
  <2>2. i # Len(s)
    BY <1>5, <2>1
  <2>3. i \in 1..Len(f)
    BY <1>1, <1>7, <2>2
  <2> QED  BY <1>8, <2>1, <2>3
<1> QED  BY <1>4, <1>5, <1>6, <1>9, <1>10, <1>11 DEF Lists

\* Two lists of sets without a common member list their union.
LEMMA ListsJoined ==
  ASSUME NEW S, NEW s, Lists(s, S), NEW T, NEW t, Lists(t, T), S \intersect T = {}
  PROVE  Lists(s \o t, S \union T)
<1>1. s \in Seq(S \union T) /\ t \in Seq(S \union T) /\ s \in Seq(S) /\ t \in Seq(T)
  <2>1. s \in Seq(S) /\ t \in Seq(T)
    BY DEF Lists
  <2>2. (\A k \in 1..Len(s) : s[k] \in S \union T) /\ (\A k \in 1..Len(t) : t[k] \in S \union T)
    BY <2>1
  <2> QED  BY <2>1, <2>2, SeqWithin
<1>2. ToSet(s) = S /\ ToSet(t) = T
  <2>1. ToSet(s) = S
    <3>1. ToSet(s) \subseteq S /\ \A x : x \in ToSet(s) <=> \E k \in 1..Len(s) : s[k] = x
      BY <1>1, ListMembers
    <3> QED  BY <3>1 DEF Lists
  <2>2. ToSet(t) = T
    <3>1. ToSet(t) \subseteq T /\ \A x : x \in ToSet(t) <=> \E k \in 1..Len(t) : t[k] = x
      BY <1>1, ListMembers
    <3> QED  BY <3>1 DEF Lists
  <2> QED  BY <2>1, <2>2
<1>3. s \o t \in Seq(S \union T) /\ ToSet(s \o t) = S \union T /\ IsInjective(s \o t)
  BY <1>1, <1>2, Joined DEF Lists
<1> QED  BY <1>3, ListMembers DEF Lists

\* Ascending order lists a set of integers.
LEMMA ListsInOrder ==
  ASSUME NEW S \in SUBSET Int, IsFiniteSet(S)
  PROVE  Lists(InOrder(S), S)
<1>1. PICK o : o = InOrder(S)
  OBVIOUS
<1>2. PICK n \in Nat : n = Cardinality(S)
  BY InOrderFacts
<1>3. /\ o \in [1..n -> S] /\ \A v \in S : \E i \in 1..n : o[i] = v
      /\ \A i \in 1..n : Turn(S, o[i]) = i - 1
  BY <1>1, <1>2, InOrderFacts
<1>4. o \in Seq(S) /\ Len(o) = n /\ DOMAIN o = 1..n
  BY <1>3
<1>5. \A i, j \in 1..n : o[i] = o[j] => i = j
  <2> TAKE i, j \in 1..n
  <2>1. o[i] = o[j] => i - 1 = j - 1
    BY <1>3
  <2> QED  BY <2>1
<1> QED  BY <1>1, <1>3, <1>4, <1>5 DEF Lists, IsInjective

\* Two members of a set of at most two are all of it.
LEMMA TwoOfTwo ==
  ASSUME NEW S, IsFiniteSet(S), Cardinality(S) <= 2, NEW x \in S, NEW y \in S, x # y
  PROVE  S = {x, y}
<1>1. {x, y} \in SUBSET S
  OBVIOUS
<1>2. IsFiniteSet({x, y}) /\ Cardinality({x, y}) = 2
  <2>1. IsFiniteSet({x}) /\ Cardinality({x}) = 1
    BY FS_Singleton
  <2>2. IsFiniteSet({x} \union {y}) /\ Cardinality({x} \union {y}) = Cardinality({x}) + 1
    BY <2>1, FS_AddElement
  <2>3. {x} \union {y} = {x, y}
    OBVIOUS
  <2> QED  BY <2>1, <2>2, <2>3
<1>3. Cardinality(S) \in Nat
  BY FS_CardinalityType
<1>4. Cardinality({x, y}) <= Cardinality(S)
  BY <1>1, FS_Subset
<1>5. Cardinality({x, y}) = Cardinality(S)
  BY <1>2, <1>3, <1>4
<1> QED  BY <1>1, <1>5, FS_Subset

\* The list of one node.
LEMMA Single ==
  ASSUME NEW M, NEW a \in M
  PROVE  <<a>> \in Seq(M) /\ Len(<<a>>) = 1 /\ ToSet(<<a>>) = {a} /\ IsInjective(<<a>>) /\ <<a>>[1] = a
<1>1. <<a>> \in Seq(M) /\ Len(<<a>>) = 1 /\ <<a>>[1] = a /\ DOMAIN <<a>> = {1}
  OBVIOUS
<1>2. ToSet(<<a>>) = {a}
  BY DEF ToSet
<1>3. IsInjective(<<a>>)
  BY <1>1 DEF IsInjective
<1> QED  BY <1>1, <1>2, <1>3

\* Two lists one after the other.
JoinedBy(u, R, s, t) ==
  /\ u \in Seq(R) /\ Len(u) = Len(s) + Len(t) /\ ToSet(u) = ToSet(s) \union ToSet(t)
  /\ IsInjective(u) /\ Embeds(u, s, 0) /\ Embeds(u, t, Len(s))

\* Two lists without a common node, one after the other.
LEMMA JoinedApart ==
  ASSUME NEW R, NEW s \in Seq(R), NEW t \in Seq(R), IsInjective(s), IsInjective(t),
         ToSet(s) \intersect ToSet(t) = {}, NEW u, u = s \o t
  PROVE  JoinedBy(u, R, s, t)
  BY Joined DEF JoinedBy

\* With the borders around it.
BorderedBy(s, M, mid, a, b) ==
  /\ s \in Seq(M) /\ IsInjective(s) /\ ToSet(s) = ToSet(mid) \union {a, b}
  /\ Embeds(s, mid, 1) /\ Len(s) = Len(mid) + 2 /\ s[1] = a /\ s[Len(s)] = b

\* A list between two further nodes.
LEMMA Bordered ==
  ASSUME NEW M, NEW mid \in Seq(M), IsInjective(mid), NEW a \in M, NEW b \in M, a # b,
         a \notin ToSet(mid), b \notin ToSet(mid), NEW s, s = <<a>> \o mid \o <<b>>
  PROVE  BorderedBy(s, M, mid, a, b)
<1>2. PICK x : x = <<a>>
  OBVIOUS
<1>3. PICK y : y = <<b>>
  OBVIOUS
<1>4. /\ x \in Seq(M) /\ Len(x) = 1 /\ ToSet(x) = {a} /\ IsInjective(x)
      /\ y \in Seq(M) /\ Len(y) = 1 /\ ToSet(y) = {b} /\ IsInjective(y)
      /\ x[1] = a /\ y[1] = b
  BY <1>2, <1>3, Single
<1>5. PICK n \in Nat : n = Len(mid)
  OBVIOUS
<1>6. PICK u : u = x \o mid
  OBVIOUS
<1>7. ToSet(x) \intersect ToSet(mid) = {}
  BY <1>4
<1>8. /\ u \in Seq(M) /\ Len(u) = Len(x) + Len(mid) /\ ToSet(u) = ToSet(x) \union ToSet(mid)
      /\ IsInjective(u) /\ Embeds(u, x, 0) /\ Embeds(u, mid, Len(x))
  <2>1. x \in Seq(M) /\ IsInjective(x)
    BY <1>4
  <2>2. JoinedBy(u, M, x, mid)
    BY <1>6, <1>7, <2>1, JoinedApart, Zenon
  <2> QED  BY <2>2 DEF JoinedBy
<1>9. s = u \o y
  BY <1>2, <1>3, <1>6
<1>10. ToSet(u) \intersect ToSet(y) = {}
  BY <1>4, <1>8
<1>11. /\ s \in Seq(M) /\ Len(s) = Len(u) + Len(y) /\ ToSet(s) = ToSet(u) \union ToSet(y)
       /\ IsInjective(s) /\ Embeds(s, u, 0) /\ Embeds(s, y, Len(u))
  <2>1. y \in Seq(M) /\ IsInjective(y) /\ u \in Seq(M) /\ IsInjective(u)
    BY <1>4, <1>8
  <2>2. JoinedBy(s, M, u, y)
    BY <1>9, <1>10, <2>1, JoinedApart, Zenon
  <2> QED  BY <2>2 DEF JoinedBy
<1>12. Embeds(s, mid, 0 + 1) /\ Embeds(s, x, 0 + 0)
  <2>1. Embeds(u, mid, 1) /\ Embeds(u, x, 0)
    BY <1>4, <1>8
  <2> QED  BY <1>4, <1>8, <1>11, <2>1, EmbedsOn
<1>13. Len(u) = n + 1 /\ Len(s) = n + 2
  <2>1. Len(u) = 1 + n
    BY <1>4, <1>5, <1>8
  <2>2. Len(s) = (1 + n) + 1
    BY <1>4, <1>11, <2>1
  <2>3. 1 + n = n + 1 /\ (1 + n) + 1 = n + 2
    OBVIOUS
  <2> QED  BY <2>1, <2>2, <2>3
<1>14. s[1] = a
  <2>1. 1 \in 1..1
    OBVIOUS
  <2>2. s[0 + 0 + 1] = x[1]
    BY <1>4, <1>12, <2>1 DEF Embeds
  <2> QED  BY <1>4, <2>2
<1>15. s[n + 2] = b
  <2>1. 1 \in 1..1
    OBVIOUS
  <2>2. s[n + 1 + 1] = y[1]
    BY <1>4, <1>11, <1>13, <2>1 DEF Embeds
  <2>3. n + 1 + 1 = n + 2
    OBVIOUS
  <2> QED  BY <1>4, <2>2, <2>3
<1>16. Embeds(s, mid, 1)
  <2>1. 0 + 1 = 1
    OBVIOUS
  <2>2. Embeds(s, mid, 0 + 1)
    BY <1>12
  <2> QED  BY <2>1, <2>2, Zenon
<1> QED  BY <1>4, <1>5, <1>8, <1>11, <1>13, <1>14, <1>15, <1>16 DEF BorderedBy

\* A sequence with one member more.
LEMMA Appended ==
  ASSUME NEW R, NEW s \in Seq(R), NEW x \in R
  PROVE  /\ Append(s, x) \in Seq(R) /\ ToSet(Append(s, x)) = ToSet(s) \union {x}
         /\ IsInjective(s) /\ x \notin ToSet(s) => IsInjective(Append(s, x))
<1>1. Append(s, x) = s \o <<x>>
  OBVIOUS
<1>2. PICK y : y = <<x>>
  OBVIOUS
<1>3. y \in Seq(R) /\ ToSet(y) = {x} /\ IsInjective(y)
  BY <1>2, Single
<1>4. PICK u : u = s \o y
  OBVIOUS
<1>5. /\ s \o y \in Seq(R) /\ ToSet(s \o y) = ToSet(s) \union ToSet(y)
      /\ IsInjective(s) /\ IsInjective(y) /\ ToSet(s) \intersect ToSet(y) = {} => IsInjective(s \o y)
  BY <1>3, Joined
<1>6. Append(s, x) = u
  BY <1>1, <1>2, <1>4
<1>7. u \in Seq(R) /\ ToSet(u) = ToSet(s) \union {x}
  BY <1>3, <1>4, <1>5
<1>8. IsInjective(s) /\ x \notin ToSet(s) => IsInjective(u)
  BY <1>3, <1>4, <1>5
<1> QED  BY <1>6, <1>7, <1>8

\* The last of the first n numbers.
LEMMA TopOfInterval ==
  ASSUME NEW n \in Nat, n # 0
  PROVE  Max(1..n) = n /\ (1..n) \ {Max(1..n)} = 1..(n - 1)
<1>1. IsFiniteSet(1..n) /\ 1..n # {} /\ 1..n \in SUBSET Int
  <2>1. IsFiniteSet(1..n)
    BY FS_Interval
  <2>2. 1 \in 1..n
    OBVIOUS
  <2> QED  BY <2>1, <2>2
<1>2. Max(1..n) \in 1..n /\ \A y \in 1..n : Max(1..n) >= y
  BY <1>1, GreatestInteger
<1>3. Max(1..n) = n
  <2> HIDE DEF Max
  <2>1. n \in 1..n
    OBVIOUS
  <2>2. Max(1..n) >= n
    BY <1>2, <2>1
  <2> QED  BY <1>2, <2>2
<1> QED  BY <1>3

\* as many as the list is long.
LEMMA ListLength ==
  ASSUME NEW S, NEW t, Lists(t, S)
  PROVE  IsFiniteSet(S) /\ Cardinality(S) = Len(t) /\ Len(t) \in Nat
<1>1. t \in [1..Len(t) -> S] /\ Len(t) \in Nat
  BY DEF Lists
<1>2. PICK n \in Nat : n = Len(t)
  BY <1>1
<1>3. t \in [1..n -> S] /\ \A j, k \in 1..n : t[j] = t[k] => j = k
  BY <1>1, <1>2 DEF Lists, IsInjective
<1>4. \A x \in S : \E k \in 1..n : t[k] = x
  BY <1>2 DEF Lists
<1>5. ExistsBijection(1..n, S)
  <2>1. IsInjective(t)
    BY DEF Lists
  <2> QED  BY <1>3, <1>4, <2>1 DEF ExistsBijection, Bijection, Injection, Surjection
<1>6. IsFiniteSet(1..n) /\ Cardinality(1..n) = n
  <2>1. IsFiniteSet(1..n) /\ Cardinality(1..n) = IF 1 > n THEN 0 ELSE n - 1 + 1
    BY FS_Interval
  <2> QED  BY <2>1
<1>7. IsFiniteSet(S) /\ Cardinality(S) = Cardinality(1..n)
  BY <1>5, <1>6, FS_Bijection, Zenon
<1> QED  BY <1>2, <1>6, <1>7

\* The members picked from a list, in its order.
LEMMA PickedLists ==
  ASSUME NEW R, NEW s \in Seq(R), IsInjective(s), NEW K \in SUBSET DOMAIN s
  PROVE  Lists(Picked(s, K), {s[k] : k \in K})
<1>1. PICK n \in Nat : n = Len(s)
  OBVIOUS
<1>2. DOMAIN s = 1..n /\ \A k \in 1..n : s[k] \in R
  BY <1>1
<1>3. IsFiniteSet(K) /\ K \in SUBSET Int
  <2>1. IsFiniteSet(1..n) /\ K \in SUBSET (1..n)
    BY <1>2, FS_Interval
  <2> QED  BY <2>1, FS_Subset
<1>4. PICK kept : kept = InOrder(K)
  OBVIOUS
<1>5. Lists(kept, K)
  BY <1>3, <1>4, ListsInOrder
<1>6. PICK m \in Nat : m = Len(kept)
  BY <1>5 DEF Lists
<1>7. /\ DOMAIN kept = 1..m /\ \A j \in 1..m : kept[j] \in K
      /\ \A i, j \in 1..m : kept[i] = kept[j] => i = j
      /\ \A k \in K : \E j \in 1..m : kept[j] = k
  <2>1. kept \in Seq(K) /\ IsInjective(kept) /\ \A x \in K : \E k \in 1..Len(kept) : kept[k] = x
    BY <1>5 DEF Lists
  <2>2. DOMAIN kept = 1..m /\ \A j \in 1..m : kept[j] \in K
    BY <1>6, <2>1
  <2> QED  BY <1>6, <2>1, <2>2 DEF IsInjective
<1>8. PICK p : p = Picked(s, K)
  OBVIOUS
<1>9. p = [j \in 1..m |-> s[kept[j]]]
  BY <1>4, <1>7, <1>8 DEF Picked
<1> DEFINE S == {s[k] : k \in K}
<1>10. \A j \in 1..m : s[kept[j]] \in S
  BY <1>7
<1>11. \A x \in S : \E j \in 1..m : s[kept[j]] = x
  BY <1>7
<1>12. \A i, j \in 1..m : s[kept[i]] = s[kept[j]] => i = j
  <2>1. \A i, j \in 1..n : s[i] = s[j] => i = j
    BY <1>2 DEF IsInjective
  <2>2. \A j \in 1..m : kept[j] \in 1..n
    BY <1>2, <1>7
  <2> QED  BY <1>7, <2>1, <2>2
<1> HIDE DEF S
<1>13. p \in Seq(S) /\ Len(p) = m /\ DOMAIN p = 1..m /\ \A j \in 1..m : p[j] = s[kept[j]]
  BY <1>9, <1>10
<1>14. IsInjective(p)
  BY <1>12, <1>13 DEF IsInjective
<1>15. Lists(p, S)
  BY <1>11, <1>13, <1>14 DEF Lists
<1> QED  BY <1>8, <1>15 DEF S

\* Places that number a list from 0 on.
Numbered(o, S) ==
  /\ \A v \in S : o[v] \in Nat
  /\ \A u, v \in S : o[u] = o[v] => u = v
  /\ {o[v] : v \in S} = 0..(Cardinality(S) - 1)

\* Numbering the visited nodes of a rank gives them the places of the rank.
LEMMA NumberedPlaces ==
  ASSUME NEW S, NEW t, Lists(t, S), NEW o, \A k \in 1..Len(t) : o[t[k]] = k - 1
  PROVE  Numbered(o, S)
<1>1. PICK n \in Nat : n = Len(t) /\ Cardinality(S) = n
  BY ListLength
<1>2. /\ \A k \in 1..n : t[k] \in S /\ o[t[k]] = k - 1
      /\ \A x \in S : \E k \in 1..n : t[k] = x
  BY <1>1 DEF Lists
<1>3. \A v \in S : o[v] \in Nat
  BY <1>2
<1>4. \A u, v \in S : o[u] = o[v] => u = v
  <2> TAKE u, v \in S
  <2>1. PICK j, k \in 1..n : t[j] = u /\ t[k] = v
    BY <1>2
  <2>2. o[u] = j - 1 /\ o[v] = k - 1
    BY <1>2, <2>1
  <2> QED  BY <2>1, <2>2
<1>5. {o[v] : v \in S} = 0..(n - 1)
  <2>1. ASSUME NEW v \in S PROVE o[v] \in 0..(n - 1)
    BY <1>2
  <2>2. ASSUME NEW i \in 0..(n - 1) PROVE \E v \in S : o[v] = i
    <3>1. i + 1 \in 1..n /\ (i + 1) - 1 = i
      OBVIOUS
    <3> QED  BY <1>2, <3>1
  <2> QED  BY <2>1, <2>2
<1> QED  BY <1>1, <1>3, <1>4, <1>5 DEF Numbered

\* The ends of an interval.
LEMMA IntervalEnds ==
  ASSUME NEW b \in Int, NEW e \in Int, b <= e
  PROVE  /\ Min(b..e) = b /\ Max(b..e) = e /\ Max(b..e) - Min(b..e) = Cardinality(b..e) - 1
<1>1. IsFiniteSet(b..e) /\ Cardinality(b..e) = IF b > e THEN 0 ELSE e - b + 1
  BY FS_Interval
<1>2. b..e \in SUBSET Int /\ b..e # {} /\ b \in b..e /\ e \in b..e
  OBVIOUS
<1>3. Min(b..e) \in b..e /\ \A y \in b..e : Min(b..e) <= y
  BY <1>1, <1>2, LeastInteger
<1>4. Max(b..e) \in b..e /\ \A y \in b..e : Max(b..e) >= y
  BY <1>1, <1>2, GreatestInteger
<1>5. PICK m : m = Min(b..e)
  OBVIOUS
<1>6. PICK x : x = Max(b..e)
  OBVIOUS
<1>7. m = b /\ x = e
  <2>1. m \in b..e /\ m <= b /\ x \in b..e /\ x >= e
    BY <1>2, <1>3, <1>4, <1>5, <1>6
  <2> QED  BY <2>1
<1>8. Cardinality(b..e) = e - b + 1
  BY <1>1
<1>9. e - b = (e - b + 1) - 1
  OBVIOUS
<1> QED  BY <1>5, <1>6, <1>7, <1>8, <1>9

\* Pairs of links, from F to T, that cross when the nodes stand at p (R ranks the nodes).
Wrong(I, F, T, R, p) ==
  {x \in I \X I : R[F[x[1]]] = R[F[x[2]]] /\ p[F[x[1]]] < p[F[x[2]]] /\ p[T[x[1]]] > p[T[x[2]]]}

\* Crossings of links from a with links from b.
WrongOf(I, F, T, p, a, b) == {x \in I \X I : F[x[1]] = a /\ F[x[2]] = b /\ p[T[x[1]]] > p[T[x[2]]]}

\* The same seen from the other link.
WrongTurned(I, F, T, p, a, b) == {x \in I \X I : T[x[1]] = a /\ T[x[2]] = b /\ p[F[x[1]]] < p[F[x[2]]]}

\* Crossings of links that do not both start, or both end, at a or b.
WrongElse(I, F, T, R, p, a, b) ==
  {x \in Wrong(I, F, T, R, p) : ~({F[x[1]], F[x[2]]} \subseteq {a, b}) /\ ~({T[x[1]], T[x[2]]} \subseteq {a, b})}

\* The nodes at the ends of the links.
Ends(I, F, T) == {F[i] : i \in I} \union {T[i] : i \in I}

\* Two neighbours on a rank have changed places.
Neighboured(I, F, T, R, p, o, a, b) ==
  /\ a # b /\ R[a] = R[b]
  /\ \A i \in I : R[F[i]] \in Int /\ R[T[i]] = R[F[i]] + 1
  /\ p[a] \in Int /\ p[b] = p[a] + 1
  /\ \A v \in Ends(I, F, T) : p[v] \in Int
  /\ \A v \in Ends(I, F, T) : o[v] = IF v = a THEN p[b] ELSE IF v = b THEN p[a] ELSE p[v]
  /\ \A v \in Ends(I, F, T) : R[v] = R[a] /\ v \notin {a, b} => p[v] # p[a] /\ p[v] # p[b]

\* Exchanging two neighbours changes the sides of no other two nodes of a rank,
LEMMA SideKept ==
  ASSUME NEW I, NEW F, NEW T, NEW R, NEW p, NEW o, NEW a, NEW b, Neighboured(I, F, T, R, p, o, a, b),
         NEW u \in Ends(I, F, T), NEW v \in Ends(I, F, T), R[u] = R[v], ~({u, v} \subseteq {a, b})
  PROVE  p[u] < p[v] <=> o[u] < o[v]
<1>1. PICK x \in Int : x = p[a]
  BY DEF Neighboured
<1>2. p[b] = x + 1 /\ p[u] \in Int /\ p[v] \in Int
  BY <1>1 DEF Neighboured
<1>3. o[u] = (IF u = a THEN x + 1 ELSE IF u = b THEN x ELSE p[u])
      /\ o[v] = (IF v = a THEN x + 1 ELSE IF v = b THEN x ELSE p[v])
  BY <1>1, <1>2 DEF Neighboured
<1>4. CASE u \notin {a, b} /\ v \notin {a, b}
  BY <1>3, <1>4
<1>5. CASE u \in {a, b} /\ v \notin {a, b}
  <2>1. PICK y \in Int : y = p[v]
    BY <1>2
  <2>2. y # x /\ y # x + 1
    BY <1>1, <1>2, <1>5, <2>1 DEF Neighboured
  <2>3. (x < y) <=> (x + 1 < y)
    BY <2>2
  <2> QED  BY <1>1, <1>2, <1>3, <1>5, <2>1, <2>3
<1>6. CASE u \notin {a, b} /\ v \in {a, b}
  <2>1. PICK y \in Int : y = p[u]
    BY <1>2
  <2>2. y # x /\ y # x + 1
    BY <1>1, <1>2, <1>6, <2>1 DEF Neighboured
  <2>3. (y < x) <=> (y < x + 1)
    BY <2>2
  <2> QED  BY <1>1, <1>2, <1>3, <1>6, <2>1, <2>3
<1> QED  BY <1>4, <1>5, <1>6

\* hence no crossing of links that do not leave both of them.
LEMMA ElseKept ==
  ASSUME NEW I, NEW F, NEW T, NEW R, NEW p, NEW o, NEW a, NEW b, Neighboured(I, F, T, R, p, o, a, b)
  PROVE  WrongElse(I, F, T, R, o, a, b) = WrongElse(I, F, T, R, p, a, b)
<1> SUFFICES ASSUME NEW x \in I \X I, ~({F[x[1]], F[x[2]]} \subseteq {a, b}), ~({T[x[1]], T[x[2]]} \subseteq {a, b}),
                    R[F[x[1]]] = R[F[x[2]]]
             PROVE  /\ p[F[x[1]]] < p[F[x[2]]] <=> o[F[x[1]]] < o[F[x[2]]]
                    /\ p[T[x[1]]] > p[T[x[2]]] <=> o[T[x[1]]] > o[T[x[2]]]
  BY DEF WrongElse, Wrong
<1>1. PICK j \in I, k \in I : j = x[1] /\ k = x[2]
  OBVIOUS
<1>2. F[j] \in Ends(I, F, T) /\ F[k] \in Ends(I, F, T) /\ T[j] \in Ends(I, F, T) /\ T[k] \in Ends(I, F, T)
  BY DEF Ends
<1>3. R[F[j]] = R[F[k]] /\ R[T[k]] = R[T[j]]
  BY <1>1 DEF Neighboured
<1>4. p[F[j]] < p[F[k]] <=> o[F[j]] < o[F[k]]
  <2>1. ~({F[j], F[k]} \subseteq {a, b})
    BY <1>1
  <2> QED  BY <1>2, <1>3, <2>1, SideKept
<1>5. p[T[k]] < p[T[j]] <=> o[T[k]] < o[T[j]]
  <2>1. ~({T[k], T[j]} \subseteq {a, b})
    BY <1>1
  <2> QED  BY <1>2, <1>3, <2>1, SideKept
<1>6. \A v \in Ends(I, F, T) : p[v] \in Int /\ o[v] \in Int
  BY DEF Neighboured
<1> QED  BY <1>1, <1>2, <1>4, <1>5, <1>6

\* The other crossings are those of a link of one with a link of the other, above or below.
LEMMA WrongSplits ==
  ASSUME NEW I, NEW F, NEW T, NEW R, NEW p, NEW o, NEW a, NEW b, Neighboured(I, F, T, R, p, o, a, b)
  PROVE  /\ Wrong(I, F, T, R, p) = (WrongElse(I, F, T, R, p, a, b) \union WrongOf(I, F, T, p, a, b))
                                     \union WrongTurned(I, F, T, p, b, a)
         /\ Wrong(I, F, T, R, o) = (WrongElse(I, F, T, R, o, a, b) \union WrongOf(I, F, T, p, b, a))
                                     \union WrongTurned(I, F, T, p, a, b)
         /\ WrongElse(I, F, T, R, p, a, b) \intersect WrongOf(I, F, T, p, a, b) = {}
         /\ WrongElse(I, F, T, R, o, a, b) \intersect WrongOf(I, F, T, p, b, a) = {}
         /\ (WrongElse(I, F, T, R, p, a, b) \union WrongOf(I, F, T, p, a, b)) \intersect WrongTurned(I, F, T, p, b, a) = {}
         /\ (WrongElse(I, F, T, R, o, a, b) \union WrongOf(I, F, T, p, b, a)) \intersect WrongTurned(I, F, T, p, a, b) = {}
<1>1. PICK s \in Int : s = p[a]
  BY DEF Neighboured
<1>2. p[b] = s + 1 /\ a # b /\ R[a] = R[b]
  BY <1>1 DEF Neighboured
<1>3. ASSUME NEW j \in I, NEW k \in I
      PROVE  /\ F[j] \in {a, b} => T[j] \notin {a, b}
             /\ F[k] \in {a, b} => T[k] \notin {a, b}
             /\ T[j] \in {a, b} /\ T[k] \in {a, b} => R[F[j]] = R[F[k]] /\ F[j] \notin {a, b} /\ F[k] \notin {a, b}
  <2>1. R[F[j]] \in Int /\ R[T[j]] = R[F[j]] + 1 /\ R[F[k]] \in Int /\ R[T[k]] = R[F[k]] + 1
    BY DEF Neighboured
  <2>2. F[j] \in {a, b} => R[F[j]] = R[a]
    BY <1>2
  <2>3. F[k] \in {a, b} => R[F[k]] = R[a]
    BY <1>2
  <2>4. T[j] \in {a, b} => R[T[j]] = R[a]
    BY <1>2
  <2>5. T[k] \in {a, b} => R[T[k]] = R[a]
    BY <1>2
  <2> QED  BY <2>1, <2>2, <2>3, <2>4, <2>5
<1>4. \A i \in I : /\ p[F[i]] \in Int /\ p[T[i]] \in Int
                   /\ o[F[i]] = (IF F[i] = a THEN s + 1 ELSE IF F[i] = b THEN s ELSE p[F[i]])
                   /\ o[T[i]] = (IF T[i] = a THEN s + 1 ELSE IF T[i] = b THEN s ELSE p[T[i]])
  BY <1>1, <1>2 DEF Neighboured, Ends
<1>5. ASSUME NEW x \in I \X I
      PROVE  /\ x \in Wrong(I, F, T, R, p) <=> \/ x \in WrongElse(I, F, T, R, p, a, b)
                                               \/ x \in WrongOf(I, F, T, p, a, b) \/ x \in WrongTurned(I, F, T, p, b, a)
             /\ x \in Wrong(I, F, T, R, o) <=> \/ x \in WrongElse(I, F, T, R, o, a, b)
                                               \/ x \in WrongOf(I, F, T, p, b, a) \/ x \in WrongTurned(I, F, T, p, a, b)
             /\ x \in WrongOf(I, F, T, p, a, b) => x \notin WrongElse(I, F, T, R, p, a, b) /\ x \notin WrongTurned(I, F, T, p, b, a)
             /\ x \in WrongOf(I, F, T, p, b, a) => x \notin WrongElse(I, F, T, R, o, a, b) /\ x \notin WrongTurned(I, F, T, p, a, b)
             /\ x \in WrongTurned(I, F, T, p, b, a) => x \notin WrongElse(I, F, T, R, p, a, b)
             /\ x \in WrongTurned(I, F, T, p, a, b) => x \notin WrongElse(I, F, T, R, o, a, b)
  <2>1. PICK j \in I, k \in I : j = x[1] /\ k = x[2]
    OBVIOUS
  <2>2. /\ x \in Wrong(I, F, T, R, p) <=> R[F[j]] = R[F[k]] /\ p[F[j]] < p[F[k]] /\ p[T[j]] > p[T[k]]
        /\ x \in Wrong(I, F, T, R, o) <=> R[F[j]] = R[F[k]] /\ o[F[j]] < o[F[k]] /\ o[T[j]] > o[T[k]]
    BY <2>1 DEF Wrong
  <2>3. /\ x \in WrongElse(I, F, T, R, p, a, b) <=> /\ x \in Wrong(I, F, T, R, p)
                 /\ ~(F[j] \in {a, b} /\ F[k] \in {a, b}) /\ ~(T[j] \in {a, b} /\ T[k] \in {a, b})
        /\ x \in WrongElse(I, F, T, R, o, a, b) <=> /\ x \in Wrong(I, F, T, R, o)
                 /\ ~(F[j] \in {a, b} /\ F[k] \in {a, b}) /\ ~(T[j] \in {a, b} /\ T[k] \in {a, b})
    BY <2>1 DEF WrongElse
  <2>4. /\ x \in WrongOf(I, F, T, p, a, b) <=> F[j] = a /\ F[k] = b /\ p[T[j]] > p[T[k]]
        /\ x \in WrongOf(I, F, T, p, b, a) <=> F[j] = b /\ F[k] = a /\ p[T[j]] > p[T[k]]
        /\ x \in WrongTurned(I, F, T, p, b, a) <=> T[j] = b /\ T[k] = a /\ p[F[j]] < p[F[k]]
        /\ x \in WrongTurned(I, F, T, p, a, b) <=> T[j] = a /\ T[k] = b /\ p[F[j]] < p[F[k]]
    BY <2>1 DEF WrongOf, WrongTurned
  <2>5. /\ F[j] \in {a, b} => T[j] \notin {a, b}
        /\ F[j] \in {a, b} /\ F[k] \in {a, b} => T[k] \notin {a, b} /\ R[F[j]] = R[F[k]]
        /\ T[j] \in {a, b} /\ T[k] \in {a, b} => R[F[j]] = R[F[k]] /\ F[j] \notin {a, b} /\ F[k] \notin {a, b}
    BY <1>2, <1>3
  <2>6. CASE F[j] \in {a, b} /\ F[k] \in {a, b}
    <3>1. T[j] \notin {a, b} /\ T[k] \notin {a, b} /\ o[T[j]] = p[T[j]] /\ o[T[k]] = p[T[k]] /\ R[F[j]] = R[F[k]]
      BY <1>4, <2>5, <2>6
    <3>2. p[F[j]] < p[F[k]] <=> F[j] = a /\ F[k] = b
      BY <1>1, <1>2, <2>6
    <3>3. o[F[j]] < o[F[k]] <=> F[j] = b /\ F[k] = a
      BY <1>2, <1>4, <2>6
    <3> QED  BY <2>2, <2>3, <2>4, <2>6, <3>1, <3>2, <3>3
  <2>7. CASE T[j] \in {a, b} /\ T[k] \in {a, b}
    <3>1. F[j] \notin {a, b} /\ F[k] \notin {a, b} /\ o[F[j]] = p[F[j]] /\ o[F[k]] = p[F[k]] /\ R[F[j]] = R[F[k]]
      BY <1>4, <2>5, <2>7
    <3>2. p[T[j]] > p[T[k]] <=> T[j] = b /\ T[k] = a
      BY <1>1, <1>2, <2>7
    <3>3. o[T[j]] > o[T[k]] <=> T[j] = a /\ T[k] = b
      BY <1>2, <1>4, <2>7
    <3> QED  BY <2>2, <2>3, <2>4, <2>7, <3>1, <3>2, <3>3
  <2>8. CASE ~(F[j] \in {a, b} /\ F[k] \in {a, b}) /\ ~(T[j] \in {a, b} /\ T[k] \in {a, b})
    BY <2>3, <2>4, <2>8
  <2> QED  BY <2>6, <2>7, <2>8
<1>6. /\ Wrong(I, F, T, R, p) \subseteq I \X I /\ Wrong(I, F, T, R, o) \subseteq I \X I
      /\ WrongElse(I, F, T, R, p, a, b) \subseteq I \X I /\ WrongElse(I, F, T, R, o, a, b) \subseteq I \X I
      /\ WrongOf(I, F, T, p, a, b) \subseteq I \X I /\ WrongOf(I, F, T, p, b, a) \subseteq I \X I
      /\ WrongTurned(I, F, T, p, a, b) \subseteq I \X I /\ WrongTurned(I, F, T, p, b, a) \subseteq I \X I
  BY DEF Wrong, WrongElse, WrongOf, WrongTurned
<1>7. /\ Wrong(I, F, T, R, p) = (WrongElse(I, F, T, R, p, a, b) \union WrongOf(I, F, T, p, a, b))
                                     \union WrongTurned(I, F, T, p, b, a)
      /\ Wrong(I, F, T, R, o) = (WrongElse(I, F, T, R, o, a, b) \union WrongOf(I, F, T, p, b, a))
                                     \union WrongTurned(I, F, T, p, a, b)
  BY <1>5, <1>6
<1>8. /\ WrongElse(I, F, T, R, p, a, b) \intersect WrongOf(I, F, T, p, a, b) = {}
      /\ WrongElse(I, F, T, R, o, a, b) \intersect WrongOf(I, F, T, p, b, a) = {}
  BY <1>5, <1>6
<1>9. /\ (WrongElse(I, F, T, R, p, a, b) \union WrongOf(I, F, T, p, a, b)) \intersect WrongTurned(I, F, T, p, b, a) = {}
      /\ (WrongElse(I, F, T, R, o, a, b) \union WrongOf(I, F, T, p, b, a)) \intersect WrongTurned(I, F, T, p, a, b) = {}
  BY <1>5, <1>6
<1> QED  BY <1>7, <1>8, <1>9

\* All of these are finitely many.
LEMMA WrongFinite ==
  ASSUME NEW I, IsFiniteSet(I), NEW F, NEW T, NEW R, NEW p, NEW a, NEW b
  PROVE  /\ IsFiniteSet(Wrong(I, F, T, R, p)) /\ IsFiniteSet(WrongElse(I, F, T, R, p, a, b))
         /\ IsFiniteSet(WrongOf(I, F, T, p, a, b)) /\ IsFiniteSet(WrongTurned(I, F, T, p, a, b))
<1>1. IsFiniteSet(I \X I)
  BY FS_Product
<1>2. /\ Wrong(I, F, T, R, p) \in SUBSET (I \X I) /\ WrongElse(I, F, T, R, p, a, b) \in SUBSET (I \X I)
      /\ WrongOf(I, F, T, p, a, b) \in SUBSET (I \X I) /\ WrongTurned(I, F, T, p, a, b) \in SUBSET (I \X I)
  BY DEF Wrong, WrongElse, WrongOf, WrongTurned
<1> QED  BY <1>1, <1>2, FS_Subset

\* A crossing is the same, whichever of the links comes first.
LEMMA TurnedCount ==
  ASSUME NEW I, IsFiniteSet(I), NEW F, NEW T, NEW p, NEW a, NEW b, \A i \in I : p[F[i]] \in Int
  PROVE  Cardinality(WrongTurned(I, F, T, p, b, a)) = Cardinality(WrongOf(I, T, F, p, a, b))
<1> DEFINE A == WrongOf(I, T, F, p, a, b)
           B == WrongTurned(I, F, T, p, b, a)
           f == [x \in A |-> <<x[2], x[1]>>]
<1>1. \A x : x \in A <=> /\ x \in I \X I /\ T[x[1]] = a /\ T[x[2]] = b /\ p[F[x[1]]] > p[F[x[2]]]
  BY DEF WrongOf
<1>2. \A x : x \in B <=> /\ x \in I \X I /\ T[x[1]] = b /\ T[x[2]] = a /\ p[F[x[1]]] < p[F[x[2]]]
  BY DEF WrongTurned
<1> HIDE DEF A, B
<1>3. ASSUME NEW x \in A PROVE <<x[2], x[1]>> \in B
  <2>1. PICK j \in I, k \in I : x = <<j, k>>
    BY <1>1
  <2>2. T[j] = a /\ T[k] = b /\ p[F[j]] > p[F[k]] /\ p[F[j]] \in Int /\ p[F[k]] \in Int
    BY <1>1, <2>1
  <2>3. <<k, j>> \in B
    BY <1>2, <2>2
  <2> QED  BY <2>1, <2>3
<1>4. ASSUME NEW y \in B PROVE \E x \in A : f[x] = y
  <2>1. PICK j \in I, k \in I : y = <<j, k>>
    BY <1>2
  <2>2. T[j] = b /\ T[k] = a /\ p[F[j]] < p[F[k]] /\ p[F[j]] \in Int /\ p[F[k]] \in Int
    BY <1>2, <2>1
  <2>3. <<k, j>> \in A
    BY <1>1, <2>2
  <2>4. f[<<k, j>>] = <<j, k>>
    BY <2>3
  <2> QED  BY <2>1, <2>3, <2>4
<1>5. \A x, y \in A : f[x] = f[y] => x = y
  <2> TAKE x, y \in A
  <2> HAVE f[x] = f[y]
  <2>1. PICK j \in I, k \in I : x = <<j, k>>
    BY <1>1
  <2>2. PICK l \in I, m \in I : y = <<l, m>>
    BY <1>1
  <2>3. <<k, j>> = <<m, l>>
    BY <2>1, <2>2
  <2> QED  BY <2>1, <2>2, <2>3
<1>6. f \in [A -> B] /\ DOMAIN f = A
  BY <1>3
<1> HIDE DEF f
<1>7. f \in Bijection(A, B)
  <2>1. IsInjective(f)
    BY <1>5, <1>6 DEF IsInjective
  <2> QED  BY <1>4, <1>6, <2>1 DEF Bijection, Injection, Surjection
<1>8. IsFiniteSet(A)
  BY WrongFinite DEF A
<1>9. ExistsBijection(A, B)
  BY <1>7 DEF ExistsBijection
<1>10. Cardinality(B) = Cardinality(A)
  BY <1>8, <1>9, FS_Bijection
<1> QED  BY <1>10 DEF A, B

\* Three sets without a common member.
LEMMA ThreeParts ==
  ASSUME NEW A, IsFiniteSet(A), NEW B, IsFiniteSet(B), NEW C, IsFiniteSet(C),
         A \intersect B = {}, (A \union B) \intersect C = {}
  PROVE  Cardinality((A \union B) \union C) = Cardinality(A) + Cardinality(B) + Cardinality(C)
<1>1. Cardinality({}) = 0
  BY FS_EmptySet
<1>2. IsFiniteSet(A \union B) /\ Cardinality(A \union B) = Cardinality(A) + Cardinality(B) - 0
  BY <1>1, FS_Union
<1>3. Cardinality((A \union B) \union C) = Cardinality(A \union B) + Cardinality(C) - 0
  BY <1>1, <1>2, FS_Union
<1>4. PICK k \in Nat, l \in Nat, m \in Nat : k = Cardinality(A) /\ l = Cardinality(B) /\ m = Cardinality(C)
  BY FS_CardinalityType
<1>5. Cardinality(A \union B) = k + l
  BY <1>2, <1>4
<1>6. Cardinality((A \union B) \union C) = k + l + m
  BY <1>3, <1>4, <1>5
<1> QED  BY <1>4, <1>6

\* Where two neighbours change places, their own crossings are all that changes.
LEMMA SwapCounts ==
  ASSUME NEW I, IsFiniteSet(I), NEW F, NEW T, NEW R, NEW p, NEW o, NEW a, NEW b,
         Neighboured(I, F, T, R, p, o, a, b),
         Cardinality(WrongOf(I, F, T, p, b, a)) + Cardinality(WrongOf(I, T, F, p, b, a))
           < Cardinality(WrongOf(I, F, T, p, a, b)) + Cardinality(WrongOf(I, T, F, p, a, b))
  PROVE  Cardinality(Wrong(I, F, T, R, o)) < Cardinality(Wrong(I, F, T, R, p))
<1>1. \A i \in I : p[F[i]] \in Int
  BY DEF Neighboured, Ends
<1>2. /\ Cardinality(WrongTurned(I, F, T, p, b, a)) = Cardinality(WrongOf(I, T, F, p, a, b))
      /\ Cardinality(WrongTurned(I, F, T, p, a, b)) = Cardinality(WrongOf(I, T, F, p, b, a))
  BY <1>1, TurnedCount
<1>3. /\ IsFiniteSet(WrongElse(I, F, T, R, p, a, b)) /\ IsFiniteSet(WrongElse(I, F, T, R, o, a, b))
      /\ IsFiniteSet(WrongOf(I, F, T, p, a, b)) /\ IsFiniteSet(WrongOf(I, F, T, p, b, a))
      /\ IsFiniteSet(WrongTurned(I, F, T, p, a, b)) /\ IsFiniteSet(WrongTurned(I, F, T, p, b, a))
  BY WrongFinite
<1>4. Cardinality(Wrong(I, F, T, R, p)) = Cardinality(WrongElse(I, F, T, R, p, a, b))
        + Cardinality(WrongOf(I, F, T, p, a, b)) + Cardinality(WrongTurned(I, F, T, p, b, a))
  BY <1>3, WrongSplits, ThreeParts
<1>5. Cardinality(Wrong(I, F, T, R, o)) = Cardinality(WrongElse(I, F, T, R, o, a, b))
        + Cardinality(WrongOf(I, F, T, p, b, a)) + Cardinality(WrongTurned(I, F, T, p, a, b))
  BY <1>3, WrongSplits, ThreeParts
<1>6. WrongElse(I, F, T, R, o, a, b) = WrongElse(I, F, T, R, p, a, b)
  BY ElseKept
<1>7. PICK e \in Nat : e = Cardinality(WrongElse(I, F, T, R, p, a, b))
  BY <1>3, FS_CardinalityType
<1>8. PICK k \in Nat, l \in Nat : k = Cardinality(WrongOf(I, F, T, p, a, b)) /\ l = Cardinality(WrongTurned(I, F, T, p, b, a))
  BY <1>3, FS_CardinalityType
<1>9. PICK m \in Nat, n \in Nat : m = Cardinality(WrongOf(I, F, T, p, b, a)) /\ n = Cardinality(WrongTurned(I, F, T, p, a, b))
  BY <1>3, FS_CardinalityType
<1>10. m + n < k + l
  BY <1>2, <1>8, <1>9
<1>11. e + m + n < e + k + l
  BY <1>10
<1> QED  BY <1>4, <1>5, <1>6, <1>7, <1>8, <1>9, <1>11
-----------------------------------------------------------------------------
(* The graph.                                                              *)

\* The shape of the graph the ranking is given.
NetworkOK ==
  /\ nodes \in SUBSET (Nat \ {0}) /\ IsFiniteSet(nodes)
  /\ edges \in Seq([from : nodes \ Compounds, to : nodes \ Compounds, orig : Int])
  /\ minlen \in [Positions -> Int]

Feasible == \A k \in Positions : Slack(k) >= 0

\* Edges join nodes.
LEMMA EdgesJoinNodes ==
  ASSUME NetworkOK, NEW k \in Positions
  PROVE  /\ k \in Nat /\ minlen[k] \in Int
         /\ edges[k].from \in nodes \ Compounds /\ edges[k].to \in nodes \ Compounds
         /\ Source(k) \in nodes \ Compounds /\ Target(k) \in nodes \ Compounds
         /\ {edges[k].from, edges[k].to} = {Source(k), Target(k)}
<1>1. minlen[k] \in Int
  BY DEF NetworkOK, Positions
<1>2. k \in Nat /\ edges[k] \in [from : nodes \ Compounds, to : nodes \ Compounds, orig : Int]
  BY EntryOf, Zenon DEF NetworkOK, Positions
<1>3. edges[k].from \in nodes \ Compounds /\ edges[k].to \in nodes \ Compounds
  BY <1>2
<1> QED  BY <1>1, <1>2, <1>3 DEF Source, Target

\* The counts that bound the recursions of the code are numbers.
LEMMA NumbersOfNodes ==
  ASSUME NetworkOK
  PROVE  NodeCount \in Nat /\ IsFiniteSet(Positions) /\ Positions \in SUBSET Nat
<1>1. Positions = 1..Len(edges) /\ Len(edges) \in Nat
  BY DEF NetworkOK, Positions
<1> QED  BY <1>1, FS_CardinalityType, FS_Interval DEF NodeCount, NetworkOK

\* A finite set of values of integer terms, one for each of some edges.
LEMMA ImageOfPositions ==
  ASSUME NetworkOK, NEW K \in SUBSET Positions, NEW f \in [K -> Int]
  PROVE  IsFiniteSet({f[k] : k \in K}) /\ {f[k] : k \in K} \in SUBSET Int
<1>1. IsFiniteSet(K)
  BY NumbersOfNodes, FS_Subset
<1> QED  BY <1>1, FiniteImage
-----------------------------------------------------------------------------
(* The initial ranking: longest_path and dagre_longest_path.               *)

Ready(S) == {v \in nodes : \A k \in Positions : Target(k) = v => Source(k) \in S}

KahnRun(f) == Iterates(f, SUBSET nodes, {}, [S \in SUBSET nodes |-> Ready(S)])

\* Kahn's algorithm in longest_path is the iteration of Ready.
LEMMA KahnRuns == \E f : KahnRun(f) /\ Processed = f[NodeCount]
<1> DEFINE B(f) == f = [n \in Nat |-> IF n = 0 THEN {}
                                      ELSE LET done == f[n - 1]
                                           IN  {v \in nodes : \A k \in Positions : Target(k) = v => Source(k) \in done}]
           step == [S \in SUBSET nodes |-> Ready(S)]
           V == SUBSET nodes
<1>1. step \in [V -> V]
  BY DEF Ready
<1>2. PICK f : Iterates(f, V, {}, step)
  <2>1. {} \in V
    OBVIOUS
  <2> HIDE DEF V, step
  <2> QED  BY <1>1, <2>1, IterationExists
<1>3. B(f)
  <2>1. f \in [Nat -> V] /\ f[0] = {}
    BY <1>2 DEF Iterates
  <2>2. ASSUME NEW n \in Nat, n # 0 PROVE f[n] = Ready(f[n - 1])
    <3>1. n - 1 \in Nat /\ (n - 1) + 1 = n
      BY <2>2
    <3>2. f[(n - 1) + 1] = step[f[n - 1]]
      BY <1>2, <3>1 DEF Iterates
    <3>3. f[n - 1] \in V
      BY <2>1, <3>1
    <3> QED  BY <3>1, <3>2, <3>3
  <2> QED  BY <2>1, <2>2 DEF Ready
<1> DEFINE g == CHOOSE h : B(h)
<1>4. B(g)
  <2> HIDE DEF B
  <2> QED  BY <1>3
<1>5. Processed = g[NodeCount]
  BY DEF Processed
<1> HIDE DEF g
<1>6. g \in [Nat -> V] /\ g[0] = {}
  <2>1. \A n \in Nat : n # 0 => g[n] = Ready(g[n - 1])
    BY <1>4 DEF Ready
  <2>2. g[0] = {} /\ DOMAIN g = Nat
    BY <1>4
  <2>3. \A n \in Nat : g[n] \in V
    BY <2>1, <2>2 DEF Ready
  <2> HIDE DEF B, V
  <2>4. g = [n \in Nat |-> g[n]]
    BY <1>4 DEF B
  <2> QED  BY <2>2, <2>3, <2>4
<1>7. \A n \in Nat : g[n + 1] = step[g[n]]
  <2>1. ASSUME NEW n \in Nat PROVE g[n + 1] = Ready(g[n])
    <3>1. n + 1 \in Nat /\ n + 1 # 0 /\ (n + 1) - 1 = n
      OBVIOUS
    <3> QED  BY <1>4, <3>1 DEF Ready
  <2> QED  BY <1>6, <2>1
<1>8. KahnRun(g)
  BY <1>6, <1>7 DEF KahnRun, Iterates
<1> QED  BY <1>5, <1>8

KeepsMinlen(ranks) == \A k \in Positions : ranks[Target(k)] - ranks[Source(k)] - minlen[k] >= 0

AsksFor(v) == {j \in {k \in Positions : Source(k) \in Processed} : Target(j) = v}

Earliest(ranks, v) == Max({0} \union {ranks[Source(k)] + minlen[k] : k \in AsksFor(v)})

EarlyRun(f) ==
  Iterates(f, [nodes -> Int], [v \in nodes |-> 0],
           [ranks \in [nodes -> Int] |-> [v \in nodes |-> Earliest(ranks, v)]])

\* One round gives every node a rank that honours the edges into it.
LEMMA EarliestFacts ==
  ASSUME NetworkOK, NEW ranks \in [nodes -> Int], NEW v \in nodes
  PROVE  /\ Earliest(ranks, v) \in Int
         /\ \A k \in AsksFor(v) : Earliest(ranks, v) >= ranks[Source(k)] + minlen[k]
<1> DEFINE K == AsksFor(v)
           h == [k \in K |-> ranks[Source(k)] + minlen[k]]
           T == {h[k] : k \in K}
<1>1. K \in SUBSET Positions
  BY DEF AsksFor
<1>2. h \in [K -> Int]
  <2>1. \A k \in K : ranks[Source(k)] \in Int /\ minlen[k] \in Int
    BY <1>1, EdgesJoinNodes
  <2> QED  BY <2>1
<1>3. IsFiniteSet(T) /\ T \in SUBSET Int
  <2> HIDE DEF h, K
  <2> QED  BY <1>1, <1>2, ImageOfPositions
<1> HIDE DEF T
<1>4. IsFiniteSet({0} \union T) /\ {0} \union T \in SUBSET Int /\ {0} \union T # {}
  <2>1. IsFiniteSet({0} \union T)
    BY <1>3, FS_Singleton, FS_Union, Zenon
  <2> QED  BY <1>3, <2>1
<1>5. Max({0} \union T) \in Int /\ \A y \in {0} \union T : Max({0} \union T) >= y
  BY <1>4, GreatestInteger
<1>6. Earliest(ranks, v) = Max({0} \union T)
  BY DEF Earliest, T
<1>7. ASSUME NEW k \in AsksFor(v) PROVE Earliest(ranks, v) >= ranks[Source(k)] + minlen[k]
  <2>1. h[k] = ranks[Source(k)] + minlen[k] /\ h[k] \in {0} \union T
    BY DEF T
  <2> QED  BY <1>5, <1>6, <2>1
<1> QED  BY <1>5, <1>6, <1>7

\* longest_path iterates these rounds.
LEMMA EarlyRuns ==
  ASSUME NetworkOK
  PROVE  \E f : /\ EarlyRun(f)
                /\ LongestPath = [v \in nodes |-> IF v \notin Processed /\ f[NodeCount][v] = 0
                                                  THEN Max({f[NodeCount][w] : w \in nodes}) + 1
                                                  ELSE f[NodeCount][v]]
<1> DEFINE B(f) == f = [n \in Nat |->
                         IF n = 0 THEN [v \in nodes |-> 0]
                         ELSE LET ranks == f[n - 1]
                              IN  [v \in nodes |->
                                     Max({0} \union {ranks[Source(k)] + minlen[k] :
                                           k \in {j \in {k \in Positions : Source(k) \in Processed} :
                                                    Target(j) = v}})]]
           V == [nodes -> Int]
           base == [v \in nodes |-> 0]
           step == [ranks \in V |-> [v \in nodes |-> Earliest(ranks, v)]]
<1>1. step \in [V -> V] /\ base \in V
  BY EarliestFacts
<1>2. PICK f : Iterates(f, V, base, step)
  <2> HIDE DEF V, step, base
  <2> QED  BY <1>1, IterationExists
<1>3. B(f)
  <2>1. f \in [Nat -> V] /\ f[0] = base
    BY <1>2 DEF Iterates
  <2>2. ASSUME NEW n \in Nat, n # 0 PROVE f[n] = [v \in nodes |-> Earliest(f[n - 1], v)]
    <3>1. n - 1 \in Nat /\ (n - 1) + 1 = n
      BY <2>2
    <3>2. f[(n - 1) + 1] = step[f[n - 1]]
      BY <1>2, <3>1 DEF Iterates
    <3>3. f[n - 1] \in V
      BY <2>1, <3>1
    <3> QED  BY <3>1, <3>2, <3>3
  <2> QED  BY <2>1, <2>2 DEF Earliest, AsksFor
<1> DEFINE g == CHOOSE h : B(h)
<1>4. B(g)
  <2> HIDE DEF B
  <2> QED  BY <1>3
<1>5. LongestPath = [v \in nodes |-> IF v \notin Processed /\ g[NodeCount][v] = 0
                                      THEN Max({g[NodeCount][w] : w \in nodes}) + 1
                                      ELSE g[NodeCount][v]]
  BY DEF LongestPath
<1> HIDE DEF g
<1>6. g[0] = base /\ DOMAIN g = Nat
  BY <1>4
<1>7. ASSUME NEW n \in Nat PROVE g[n + 1] = [v \in nodes |-> Earliest(g[n], v)]
  <2>1. n + 1 \in Nat /\ n + 1 # 0 /\ (n + 1) - 1 = n
    OBVIOUS
  <2>2. g[n + 1] = [v \in nodes |-> Earliest(g[(n + 1) - 1], v)]
    BY <1>4, <2>1, Zenon DEF Earliest, AsksFor
  <2> QED  BY <2>1, <2>2
<1>8. g \in [Nat -> V]
  <2>1. g = [n \in Nat |-> g[n]]
    BY <1>4
  <2> DEFINE good == {n \in Nat : g[n] \in V}
  <2>2. 0 \in good
    BY <1>1, <1>6
  <2>3. ASSUME NEW n \in Nat, n \in good PROVE n + 1 \in good
    <3>1. g[n] \in V
      BY <2>3
    <3>2. [v \in nodes |-> Earliest(g[n], v)] \in V
      BY <3>1, EarliestFacts
    <3>3. g[n + 1] \in V
      <4> HIDE DEF V
      <4> QED  BY <1>7, <3>2
    <3> QED  BY <3>3
  <2>4. Nat \subseteq good
    <3> HIDE DEF good
    <3> QED  BY <2>2, <2>3, Inductive
  <2> HIDE DEF V, B
  <2> QED  BY <2>1, <2>4
<1>9. EarlyRun(g)
  <2>1. \A n \in Nat : g[n + 1] = step[g[n]]
    BY <1>7, <1>8
  <2> QED  BY <1>6, <1>8, <2>1 DEF EarlyRun, Iterates
<1> HIDE DEF B
<1> QED  BY <1>5, <1>9

\* The set of values of a ranking.
LEMMA ValuesOfRanks ==
  ASSUME NetworkOK, NEW ranks \in [nodes -> Int], NEW S \in SUBSET nodes, S # {}
  PROVE  /\ Max({ranks[v] : v \in S}) \in Int /\ Min({ranks[v] : v \in S}) \in Int
         /\ \A v \in S : Max({ranks[w] : w \in S}) >= ranks[v] /\ Min({ranks[w] : w \in S}) <= ranks[v]
<1> DEFINE r == [v \in S |-> ranks[v]]
           T == {r[v] : v \in S}
<1>1. IsFiniteSet(T)
  <2>1. IsFiniteSet(S) /\ DOMAIN r = S
    BY FS_Subset DEF NetworkOK
  <2> HIDE DEF r
  <2> QED  BY <2>1, FiniteImage
<1>2. T \in SUBSET Int /\ T # {} /\ \A v \in S : ranks[v] \in T
  OBVIOUS
<1>3. T = {ranks[v] : v \in S}
  OBVIOUS
<1> HIDE DEF T, r
<1>4. Max(T) \in Int /\ Min(T) \in Int /\ \A y \in T : Max(T) >= y /\ Min(T) <= y
  BY <1>1, <1>2, GreatestInteger, LeastInteger
<1> QED  BY <1>2, <1>3, <1>4

\* A run of the longest path gives every node a rank, and once all have been reached, the
\* edges their room.
LEMMA LongestPathIsFeasible ==
  ASSUME NetworkOK
  PROVE  LongestPath \in [nodes -> Int] /\ (Processed = nodes => KeepsMinlen(LongestPath))
<1>1. PICK f : /\ EarlyRun(f)
               /\ LongestPath = [v \in nodes |-> IF v \notin Processed /\ f[NodeCount][v] = 0
                                                 THEN Max({f[NodeCount][w] : w \in nodes}) + 1
                                                 ELSE f[NodeCount][v]]
  BY EarlyRuns
<1>2. f \in [Nat -> [nodes -> Int]] /\ NodeCount \in Nat /\ f[NodeCount] \in [nodes -> Int]
  BY <1>1, NumbersOfNodes DEF EarlyRun, Iterates
<1>3. ASSUME NEW n \in Nat PROVE f[n + 1] = [v \in nodes |-> Earliest(f[n], v)]
  <2>1. f[n + 1] = [ranks \in [nodes -> Int] |-> [v \in nodes |-> Earliest(ranks, v)]][f[n]]
    BY <1>1 DEF EarlyRun, Iterates
  <2> QED  BY <1>2, <2>1
<1>4. LongestPath \in [nodes -> Int]
  <2>1. ASSUME NEW v \in nodes PROVE Max({f[NodeCount][w] : w \in nodes}) \in Int
    BY <1>2, ValuesOfRanks, nodes \in SUBSET nodes
  <2>2. ASSUME NEW v \in nodes PROVE LongestPath[v] \in Int
    <3>1. f[NodeCount][v] \in Int /\ Max({f[NodeCount][w] : w \in nodes}) + 1 \in Int
      <4>1. f[NodeCount][v] \in Int
        BY <1>2
      <4>2. ASSUME NEW m \in Int PROVE m + 1 \in Int
        OBVIOUS
      <4> QED  BY <2>1, <4>1, <4>2
    <3> QED  BY <1>1, <3>1
  <2> QED  BY <1>1, <2>2
<1>5. ASSUME Processed = nodes PROVE KeepsMinlen(LongestPath)
  <2>1. LongestPath = f[NodeCount]
    BY <1>1, <1>2, <1>5
  <2>2. PICK done : KahnRun(done) /\ Processed = done[NodeCount]
    BY KahnRuns
  <2>3. done \in [Nat -> SUBSET nodes] /\ done[0] = {}
    BY <2>2 DEF KahnRun, Iterates
  <2>4. ASSUME NEW n \in Nat PROVE done[n + 1] = Ready(done[n])
    <3>1. done[n + 1] = [S \in SUBSET nodes |-> Ready(S)][done[n]]
      BY <2>2 DEF KahnRun, Iterates
    <3> QED  BY <2>3, <3>1
  <2> DEFINE stays == {n \in Nat : \A v \in done[n], m \in Nat : m >= n => f[m][v] = f[n][v]}
  <2>5. 0 \in stays
    BY <2>3
  <2>6. ASSUME NEW n \in Nat, n \in stays PROVE n + 1 \in stays
    <3> SUFFICES ASSUME NEW v \in done[n + 1], NEW m \in Nat, m >= n + 1 PROVE f[m][v] = f[n + 1][v]
      OBVIOUS
    <3>1. v \in nodes /\ \A k \in Positions : Target(k) = v => Source(k) \in done[n]
      BY <2>4 DEF Ready
    <3>2. m - 1 \in Nat /\ m - 1 >= n /\ (m - 1) + 1 = m
      OBVIOUS
    <3>3. \A k \in AsksFor(v) : f[m - 1][Source(k)] = f[n][Source(k)]
      BY <2>6, <3>1, <3>2 DEF AsksFor
    <3>4. Earliest(f[m - 1], v) = Earliest(f[n], v)
      BY <3>3 DEF Earliest
    <3>5. f[(m - 1) + 1][v] = Earliest(f[m - 1], v) /\ f[n + 1][v] = Earliest(f[n], v)
      BY <1>3, <3>1, <3>2
    <3> QED  BY <3>2, <3>4, <3>5
  <2>7. Nat \subseteq stays
    <3> HIDE DEF stays
    <3> QED  BY <2>5, <2>6, Inductive
  <2>8. ASSUME NEW v \in nodes PROVE f[NodeCount][v] = Earliest(f[NodeCount], v)
    <3>1. f[NodeCount + 1][v] = f[NodeCount][v]
      BY <1>2, <1>5, <2>2, <2>7
    <3> QED  BY <1>2, <1>3, <3>1
  <2>9. ASSUME NEW k \in Positions PROVE f[NodeCount][Target(k)] - f[NodeCount][Source(k)] - minlen[k] >= 0
    <3>1. Source(k) \in nodes /\ Target(k) \in nodes /\ minlen[k] \in Int
      BY EdgesJoinNodes
    <3>2. k \in AsksFor(Target(k))
      BY <1>5, <3>1 DEF AsksFor
    <3>3. f[NodeCount][Target(k)] >= f[NodeCount][Source(k)] + minlen[k]
      BY <1>2, <2>8, <3>1, <3>2, EarliestFacts
    <3>4. f[NodeCount][Target(k)] \in Int /\ f[NodeCount][Source(k)] \in Int
      BY <1>2, <3>1
    <3> QED  BY <3>1, <3>3, <3>4
  <2> QED  BY <2>1, <2>9 DEF KeepsMinlen
<1> QED  BY <1>4, <1>5

OutOf(v) == {k \in Positions : Source(k) = v}

Latest(ranks, v) ==
  IF OutOf(v) = {} THEN 0 ELSE Min({ranks[Target(k)] - minlen[k] : k \in OutOf(v)})

LateRun(f) ==
  Iterates(f, [nodes -> Int], [v \in nodes |-> 0],
           [ranks \in [nodes -> Int] |-> [v \in nodes |-> Latest(ranks, v)]])

\* One round gives every node a rank that honours the edges out of it.
LEMMA LatestFacts ==
  ASSUME NetworkOK, NEW ranks \in [nodes -> Int], NEW v \in nodes
  PROVE  /\ Latest(ranks, v) \in Int
         /\ \A k \in OutOf(v) : Latest(ranks, v) <= ranks[Target(k)] - minlen[k]
<1> DEFINE K == OutOf(v)
           h == [k \in K |-> ranks[Target(k)] - minlen[k]]
           T == {h[k] : k \in K}
<1>1. K \in SUBSET Positions
  BY DEF OutOf
<1>2. h \in [K -> Int]
  <2>1. \A k \in K : ranks[Target(k)] \in Int /\ minlen[k] \in Int
    BY <1>1, EdgesJoinNodes
  <2> QED  BY <2>1
<1>3. IsFiniteSet(T) /\ T \in SUBSET Int
  <2> HIDE DEF h, K
  <2> QED  BY <1>1, <1>2, ImageOfPositions
<1>4. CASE K = {}
  BY <1>4 DEF Latest
<1>5. CASE K # {}
  <2>1. T # {}
    BY <1>5
  <2> HIDE DEF T
  <2>2. Min(T) \in Int /\ \A y \in T : Min(T) <= y
    BY <1>3, <2>1, LeastInteger
  <2>3. Latest(ranks, v) = Min(T)
    BY <1>5 DEF Latest, T
  <2>4. ASSUME NEW k \in OutOf(v) PROVE Latest(ranks, v) <= ranks[Target(k)] - minlen[k]
    <3>1. h[k] = ranks[Target(k)] - minlen[k] /\ h[k] \in T
      BY DEF T
    <3> QED  BY <2>2, <2>3, <3>1
  <2> QED  BY <2>2, <2>3, <2>4
<1> QED  BY <1>4, <1>5

\* dagre_longest_path iterates these rounds.
LEMMA LateRuns ==
  ASSUME NetworkOK
  PROVE  \E f : LateRun(f) /\ DagreLongestPath = f[NodeCount]
<1> DEFINE B(f) == f = [n \in Nat |->
                         IF n = 0 THEN [v \in nodes |-> 0]
                         ELSE LET ranks == f[n - 1]
                              IN  [v \in nodes |->
                                     LET out == {k \in Positions : Source(k) = v}
                                     IN  IF out = {} THEN 0
                                         ELSE Min({ranks[Target(k)] - minlen[k] : k \in out})]]
           V == [nodes -> Int]
           base == [v \in nodes |-> 0]
           step == [ranks \in V |-> [v \in nodes |-> Latest(ranks, v)]]
<1>1. step \in [V -> V] /\ base \in V
  BY LatestFacts
<1>2. PICK f : Iterates(f, V, base, step)
  <2> HIDE DEF V, step, base
  <2> QED  BY <1>1, IterationExists
<1>3. B(f)
  <2>1. f \in [Nat -> V] /\ f[0] = base
    BY <1>2 DEF Iterates
  <2>2. ASSUME NEW n \in Nat, n # 0 PROVE f[n] = [v \in nodes |-> Latest(f[n - 1], v)]
    <3>1. n - 1 \in Nat /\ (n - 1) + 1 = n
      BY <2>2
    <3>2. f[(n - 1) + 1] = step[f[n - 1]]
      BY <1>2, <3>1 DEF Iterates
    <3>3. f[n - 1] \in V
      BY <2>1, <3>1
    <3> QED  BY <3>1, <3>2, <3>3
  <2> QED  BY <2>1, <2>2 DEF Latest, OutOf
<1> DEFINE g == CHOOSE h : B(h)
<1>4. B(g)
  <2> HIDE DEF B
  <2> QED  BY <1>3
<1>5. DagreLongestPath = g[NodeCount]
  BY DEF DagreLongestPath
<1> HIDE DEF g
<1>6. g[0] = base /\ DOMAIN g = Nat
  BY <1>4
<1>7. ASSUME NEW n \in Nat PROVE g[n + 1] = [v \in nodes |-> Latest(g[n], v)]
  <2>1. n + 1 \in Nat /\ n + 1 # 0 /\ (n + 1) - 1 = n
    OBVIOUS
  <2>2. g[n + 1] = [v \in nodes |-> Latest(g[(n + 1) - 1], v)]
    BY <1>4, <2>1 DEF Latest, OutOf
  <2> QED  BY <2>1, <2>2
<1>8. g \in [Nat -> V]
  <2>1. g = [n \in Nat |-> g[n]]
    BY <1>4
  <2> DEFINE good == {n \in Nat : g[n] \in V}
  <2>2. 0 \in good
    BY <1>1, <1>6
  <2>3. ASSUME NEW n \in Nat, n \in good PROVE n + 1 \in good
    <3>1. g[n] \in V
      BY <2>3
    <3>2. [v \in nodes |-> Latest(g[n], v)] \in V
      BY <3>1, LatestFacts
    <3>3. g[n + 1] \in V
      <4> HIDE DEF V
      <4> QED  BY <1>7, <3>2
    <3> QED  BY <3>3
  <2>4. Nat \subseteq good
    <3> HIDE DEF good
    <3> QED  BY <2>2, <2>3, Inductive
  <2> HIDE DEF V, B
  <2> QED  BY <2>1, <2>4
<1>9. LateRun(g)
  <2>1. \A n \in Nat : g[n + 1] = step[g[n]]
    BY <1>7, <1>8
  <2> QED  BY <1>6, <1>8, <2>1 DEF LateRun, Iterates
<1> HIDE DEF B
<1> QED  BY <1>5, <1>9

\* The nodes all of whose successors are in S, and how they are reached from the sinks.
Settled(S) == {v \in nodes : \A k \in Positions : Source(k) = v => Target(k) \in S}

SinkRun(f) == Iterates(f, SUBSET nodes, {}, [S \in SUBSET nodes |-> Settled(S)])

\* Where all nodes are reached from the sources, all are from the sinks.
LEMMA SinksReachAll ==
  ASSUME NetworkOK, Processed = nodes
  PROVE  \E f : SinkRun(f) /\ f[NodeCount] = nodes
<1> DEFINE V == SUBSET nodes
           step == [S \in V |-> Settled(S)]
<1>1. PICK f : Iterates(f, V, {}, step)
  <2>1. step \in [V -> V] /\ {} \in V
    BY DEF Settled
  <2> HIDE DEF V, step
  <2> QED  BY <2>1, IterationExists
<1>2. f \in [Nat -> SUBSET nodes] /\ f[0] = {}
  BY <1>1 DEF Iterates
<1>3. ASSUME NEW n \in Nat PROVE f[n + 1] = Settled(f[n])
  <2>1. f[n + 1] = step[f[n]]
    BY <1>1 DEF Iterates
  <2> QED  BY <1>2, <2>1
<1>4. ASSUME NEW n \in Nat PROVE f[n] \subseteq f[n + 1]
  <2> DEFINE good == {m \in Nat : f[m] \subseteq f[m + 1]}
  <2>1. 0 \in good
    BY <1>2
  <2>2. ASSUME NEW m \in Nat, m \in good PROVE m + 1 \in good
    <3>1. f[m + 1] = Settled(f[m]) /\ f[(m + 1) + 1] = Settled(f[m + 1]) /\ f[m] \subseteq f[m + 1]
      BY <1>3, <2>2
    <3> QED  BY <3>1 DEF Settled
  <2>3. Nat \subseteq good
    <3> HIDE DEF good
    <3> QED  BY <2>1, <2>2, Inductive
  <2> QED  BY <2>3
<1>5. f[NodeCount + 1] = f[NodeCount]
  <2>1. ASSUME NEW n \in Nat, f[n + 1] = f[n] PROVE f[n + 2] = f[n + 1]
    <3>1. (n + 1) + 1 = n + 2 /\ n + 1 \in Nat
      OBVIOUS
    <3> QED  BY <1>3, <2>1, <3>1
  <2>2. Grows(f, nodes)
    BY <1>2, <1>4, <2>1 DEF Grows
  <2> QED  BY <2>2, GrowthEnds DEF NetworkOK, NodeCount
<1> DEFINE left == nodes \ f[NodeCount]
<1>6. \A v \in left : \E k \in Positions : Source(k) = v /\ Target(k) \in left
  BY <1>3, <1>5, NumbersOfNodes, EdgesJoinNodes DEF Settled
<1>7. PICK done : KahnRun(done) /\ Processed = done[NodeCount]
  BY KahnRuns
<1>8. done \in [Nat -> SUBSET nodes] /\ done[0] = {}
  BY <1>7 DEF KahnRun, Iterates
<1>9. ASSUME NEW n \in Nat PROVE done[n + 1] = Ready(done[n])
  <2>1. done[n + 1] = [S \in SUBSET nodes |-> Ready(S)][done[n]]
    BY <1>7 DEF KahnRun, Iterates
  <2> QED  BY <1>8, <2>1
<1> DEFINE holding == {n \in Nat : left \subseteq done[n]}
<1>10. ASSUME left # {} PROVE FALSE
  <2>1. holding # {}
    BY <1>7, NumbersOfNodes
  <2>2. PICK n \in holding : \A m \in holding : n <= m
    <3> HIDE DEF holding
    <3>1. holding \in SUBSET Nat
      BY DEF holding
    <3> QED  BY <2>1, <3>1, LeastNumber
  <2>3. n # 0
    BY <1>8, <1>10
  <2>4. n - 1 \in Nat /\ n - 1 \notin holding /\ (n - 1) + 1 = n
    BY <2>2, <2>3
  <2>5. PICK v \in left : v \notin done[n - 1]
    BY <2>4
  <2>6. PICK k \in Positions : Source(k) = v /\ Target(k) \in left
    BY <1>6, <2>5
  <2>7. Target(k) \in Ready(done[n - 1])
    <3>1. Target(k) \in done[n]
      BY <2>6
    <3> QED  BY <1>9, <2>4, <3>1
  <2> QED  BY <2>5, <2>6, <2>7 DEF Ready
<1>11. f[NodeCount] = nodes
  BY <1>2, <1>10, NumbersOfNodes
<1>12. SinkRun(f)
  BY <1>1 DEF SinkRun
<1> QED  BY <1>11, <1>12

\* The same of the longest path to the sinks.
LEMMA DagreLongestPathIsFeasible ==
  ASSUME NetworkOK
  PROVE  DagreLongestPath \in [nodes -> Int] /\ (Processed = nodes => KeepsMinlen(DagreLongestPath))
<1>1. PICK f : LateRun(f) /\ DagreLongestPath = f[NodeCount]
  BY LateRuns
<1>2. f \in [Nat -> [nodes -> Int]] /\ NodeCount \in Nat /\ f[NodeCount] \in [nodes -> Int]
  BY <1>1, NumbersOfNodes DEF LateRun, Iterates
<1>3. ASSUME NEW n \in Nat PROVE f[n + 1] = [v \in nodes |-> Latest(f[n], v)]
  <2>1. f[n + 1] = [ranks \in [nodes -> Int] |-> [v \in nodes |-> Latest(ranks, v)]][f[n]]
    BY <1>1 DEF LateRun, Iterates
  <2> QED  BY <1>2, <2>1
<1>4. ASSUME Processed = nodes PROVE KeepsMinlen(DagreLongestPath)
  <2>1. PICK done : SinkRun(done) /\ done[NodeCount] = nodes
    BY <1>4, SinksReachAll
  <2>2. done \in [Nat -> SUBSET nodes] /\ done[0] = {}
    BY <2>1 DEF SinkRun, Iterates
  <2>3. ASSUME NEW n \in Nat PROVE done[n + 1] = Settled(done[n])
    <3>1. done[n + 1] = [S \in SUBSET nodes |-> Settled(S)][done[n]]
      BY <2>1 DEF SinkRun, Iterates
    <3> QED  BY <2>2, <3>1
  <2> DEFINE stays == {n \in Nat : \A v \in done[n], m \in Nat : m >= n => f[m][v] = f[n][v]}
  <2>4. 0 \in stays
    BY <2>2
  <2>5. ASSUME NEW n \in Nat, n \in stays PROVE n + 1 \in stays
    <3> SUFFICES ASSUME NEW v \in done[n + 1], NEW m \in Nat, m >= n + 1 PROVE f[m][v] = f[n + 1][v]
      OBVIOUS
    <3>1. v \in nodes /\ \A k \in Positions : Source(k) = v => Target(k) \in done[n]
      BY <2>3 DEF Settled
    <3>2. m - 1 \in Nat /\ m - 1 >= n /\ (m - 1) + 1 = m
      OBVIOUS
    <3>3. \A k \in OutOf(v) : f[m - 1][Target(k)] = f[n][Target(k)]
      BY <2>5, <3>1, <3>2 DEF OutOf
    <3>4. Latest(f[m - 1], v) = Latest(f[n], v)
      BY <3>3 DEF Latest
    <3>5. f[(m - 1) + 1][v] = Latest(f[m - 1], v) /\ f[n + 1][v] = Latest(f[n], v)
      BY <1>3, <3>1, <3>2
    <3> QED  BY <3>2, <3>4, <3>5
  <2>6. Nat \subseteq stays
    <3> HIDE DEF stays
    <3> QED  BY <2>4, <2>5, Inductive
  <2>7. ASSUME NEW v \in nodes PROVE f[NodeCount][v] = Latest(f[NodeCount], v)
    <3>1. f[NodeCount + 1][v] = f[NodeCount][v]
      BY <1>2, <1>4, <2>1, <2>6
    <3> QED  BY <1>2, <1>3, <3>1
  <2>8. ASSUME NEW k \in Positions PROVE f[NodeCount][Target(k)] - f[NodeCount][Source(k)] - minlen[k] >= 0
    <3>1. Source(k) \in nodes /\ Target(k) \in nodes /\ minlen[k] \in Int
      BY EdgesJoinNodes
    <3>2. k \in OutOf(Source(k))
      BY DEF OutOf
    <3>3. f[NodeCount][Source(k)] <= f[NodeCount][Target(k)] - minlen[k]
      BY <1>2, <2>7, <3>1, <3>2, LatestFacts
    <3>4. f[NodeCount][Target(k)] \in Int /\ f[NodeCount][Source(k)] \in Int
      BY <1>2, <3>1
    <3> QED  BY <3>1, <3>3, <3>4
  <2> QED  BY <1>1, <2>8 DEF KeepsMinlen
<1> QED  BY <1>1, <1>2, <1>4
-----------------------------------------------------------------------------
(* The spanning tree.                                                      *)

\* S holds the children of its members.
DownClosed(S) == \A w \in nodes : parent[w] \in S => w \in S

\* is_descendant: the least set that holds a node and whatever has its parent in it.
LEMMA BelowFacts ==
  ASSUME NetworkOK, NEW v \in nodes
  PROVE  /\ Below(v) \in SUBSET nodes /\ v \in Below(v) /\ DownClosed(Below(v))
         /\ \A S \in SUBSET nodes : v \in S /\ DownClosed(S) => Below(v) \subseteq S
<1> DEFINE B(f) == f = [n \in Nat |-> IF n = 0 THEN {v}
                                      ELSE LET above == f[n - 1]
                                           IN  above \union {w \in nodes : parent[w] \in above}]
           with(S) == S \union {w \in nodes : parent[w] \in S}
           V == SUBSET nodes
           step == [S \in V |-> with(S)]
<1>1. PICK f : Iterates(f, V, {v}, step)
  <2>1. step \in [V -> V] /\ {v} \in V
    OBVIOUS
  <2> HIDE DEF V, step
  <2> QED  BY <2>1, IterationExists
<1>2. B(f)
  <2>1. f \in [Nat -> V] /\ f[0] = {v}
    BY <1>1 DEF Iterates
  <2>2. ASSUME NEW n \in Nat, n # 0 PROVE f[n] = with(f[n - 1])
    <3>1. n - 1 \in Nat /\ (n - 1) + 1 = n
      BY <2>2
    <3>2. f[(n - 1) + 1] = step[f[n - 1]]
      BY <1>1, <3>1 DEF Iterates
    <3>3. f[n - 1] \in V
      BY <2>1, <3>1
    <3> QED  BY <3>1, <3>2, <3>3
  <2> QED  BY <2>1, <2>2
<1> DEFINE g == CHOOSE h : B(h)
<1>3. B(g)
  <2> HIDE DEF B
  <2> QED  BY <1>2
<1>4. Below(v) = g[NodeCount]
  BY DEF Below
<1> HIDE DEF g
<1>5. g[0] = {v} /\ DOMAIN g = Nat
  BY <1>3
<1>6. ASSUME NEW n \in Nat PROVE g[n + 1] = with(g[n])
  <2>1. n + 1 \in Nat /\ n + 1 # 0 /\ (n + 1) - 1 = n
    OBVIOUS
  <2>2. g[n + 1] = with(g[(n + 1) - 1])
    BY <1>3, <2>1
  <2> QED  BY <2>1, <2>2
<1>7. g \in [Nat -> V]
  <2>1. g = [n \in Nat |-> g[n]]
    BY <1>3
  <2> DEFINE good == {n \in Nat : g[n] \in V}
  <2>2. 0 \in good
    BY <1>5
  <2>3. ASSUME NEW n \in Nat, n \in good PROVE n + 1 \in good
    BY <1>6, <2>3
  <2>4. Nat \subseteq good
    <3> HIDE DEF good
    <3> QED  BY <2>2, <2>3, Inductive
  <2> HIDE DEF V, B
  <2> QED  BY <2>1, <2>4
<1>8. g[NodeCount + 1] = g[NodeCount]
  <2>1. ASSUME NEW n \in Nat, g[n + 1] = g[n] PROVE g[n + 2] = g[n + 1]
    <3>1. (n + 1) + 1 = n + 2 /\ n + 1 \in Nat
      OBVIOUS
    <3>2. g[n + 2] = with(g[n + 1]) /\ g[n + 1] = with(g[n])
      BY <1>6, <3>1
    <3> QED  BY <2>1, <3>2
  <2>2. \A n \in Nat : g[n] \subseteq g[n + 1]
    BY <1>6
  <2>3. Grows(g, nodes)
    BY <1>7, <2>1, <2>2 DEF Grows
  <2> QED  BY <2>3, GrowthEnds DEF NetworkOK, NodeCount
<1>9. NodeCount \in Nat
  BY NumbersOfNodes
<1>10. DownClosed(Below(v))
  <2>1. with(g[NodeCount]) = g[NodeCount]
    BY <1>6, <1>8, <1>9
  <2> QED  BY <1>4, <2>1 DEF DownClosed
<1>11. Below(v) \in SUBSET nodes
  BY <1>4, <1>7, <1>9
<1>12. ASSUME NEW S \in SUBSET nodes, v \in S, DownClosed(S) PROVE Below(v) \subseteq S
  <2> DEFINE good == {n \in Nat : g[n] \subseteq S}
  <2>1. 0 \in good
    BY <1>5, <1>12
  <2>2. ASSUME NEW n \in Nat, n \in good PROVE n + 1 \in good
    <3>1. with(g[n]) \subseteq S
      BY <1>12, <2>2 DEF DownClosed
    <3> QED  BY <1>6, <3>1
  <2>3. Nat \subseteq good
    <3> HIDE DEF good
    <3> QED  BY <2>1, <2>2, Inductive
  <2> QED  BY <1>4, <1>9, <2>3
<1>13. v \in Below(v)
  <2> DEFINE good == {n \in Nat : v \in g[n]}
  <2>1. 0 \in good
    BY <1>5
  <2>2. ASSUME NEW n \in Nat, n \in good PROVE n + 1 \in good
    BY <1>6, <2>2
  <2>3. Nat \subseteq good
    <3> HIDE DEF good
    <3> QED  BY <2>1, <2>2, Inductive
  <2> QED  BY <1>4, <1>9, <2>3
<1> QED  BY <1>10, <1>11, <1>12, <1>13
-----------------------------------------------------------------------------
\* The nodes of the tree, the root and whatever has a parent.
Tree == {v \in nodes : v = First \/ parent[v] # 0}

\* The edge of a node leads to its parent and is tight.
HangsTight(v) ==
  /\ via[v] \in Positions
  /\ Joins(via[v], v, parent[v])
  /\ Slack(via[v]) = 0
  /\ parent[v] \in Tree

\* All parents lead to the root.
Rooted == \A S \in SUBSET nodes : First \in S /\ DownClosed(S) => Tree \subseteq S

TreeInv ==
  /\ First \in RankNodes
  /\ parent \in [nodes -> nodes \union {0}]
  /\ via \in [nodes -> Positions \union {0}]
  /\ parent[First] = 0
  /\ \A v \in nodes : parent[v] = 0 => via[v] = 0
  /\ \A v \in nodes : parent[v] # 0 => HangsTight(v)
  /\ Tree \subseteq RankNodes
  /\ Rooted

GrowInv == TreeInv /\ inTree = Tree /\ work \in Seq(inTree)

PivotInv ==
  /\ TreeInv
  /\ inTree = RankNodes
  /\ \A k \in Positions : edges[k].from \in Tree <=> edges[k].to \in Tree
  /\ DOMAIN cuts = {v \in nodes : parent[v] # 0}

RanksInv ==
  /\ rank \in [nodes -> Int]
  /\ missed = {} => Feasible
  /\ phase = "grow" => GrowInv
  /\ phase = "pivot" => PivotInv /\ EdgeCount > 0

\* The nodes to be ranked, and the root of the tree among them.
LEMMA RankNodesFacts ==
  ASSUME NetworkOK
  PROVE  /\ RankNodes \in SUBSET nodes /\ IsFiniteSet(RankNodes) /\ RankNodes \in SUBSET Int
         /\ \A k \in Positions : edges[k].from \in RankNodes /\ edges[k].to \in RankNodes
         /\ RankNodes # {} => First \in RankNodes
<1>1. RankNodes \in SUBSET nodes /\ RankNodes \in SUBSET Int
  <2>1. nodes \in SUBSET Int
    <3>1. nodes \in SUBSET (Nat \ {0})
      BY DEF NetworkOK
    <3> QED  BY <3>1
  <2>2. RankNodes \in SUBSET nodes
    BY DEF RankNodes
  <2> QED  BY <2>1, <2>2
<1>2. IsFiniteSet(RankNodes)
  BY <1>1, FS_Subset DEF NetworkOK
<1>3. \A k \in Positions : edges[k].from \in RankNodes /\ edges[k].to \in RankNodes
  BY EdgesJoinNodes DEF RankNodes
<1>4. RankNodes # {} => First \in RankNodes
  BY <1>1, <1>2, LeastInteger DEF First
<1> QED  BY <1>1, <1>2, <1>3, <1>4

NetworkUnchanged == UNCHANGED <<graphVars, compoundVars, minlen>>

\* What the ranking only reads stays as it is.
LEMMA NetworkStays ==
  ASSUME NetworkUnchanged
  PROVE  /\ NetworkOK => NetworkOK'
         /\ Positions' = Positions /\ RankNodes' = RankNodes /\ First' = First /\ nodes' = nodes
         /\ edges' = edges /\ minlen' = minlen /\ EdgeCount' = EdgeCount
         /\ Compounds' = Compounds
         /\ \A k : Source(k)' = Source(k) /\ Target(k)' = Target(k)
         /\ \A k, v, w : Joins(k, v, w)' = Joins(k, v, w)
<1>1. UNCHANGED <<nodes, edges, reversed, config, parents, unplaced, minlen>>
  BY DEF NetworkUnchanged, graphVars, compoundVars
<1>2. Positions' = Positions /\ Compounds' = Compounds
  BY <1>1 DEF Positions, Compounds
<1>3. RankNodes' = RankNodes
  BY <1>1, <1>2 DEF RankNodes
<1>4. First' = First
  BY <1>3 DEF First
<1>5. NetworkOK => NetworkOK'
  BY <1>1, <1>2, Zenon DEF NetworkOK
<1>6. \A k : Source(k)' = Source(k) /\ Target(k)' = Target(k)
  BY <1>1 DEF Source, Target
<1>7. \A k, v, w : Joins(k, v, w)' = Joins(k, v, w)
  BY <1>1 DEF Joins
<1>8. EdgeCount' = EdgeCount
  BY <1>1 DEF EdgeCount
<1> QED  BY <1>1, <1>2, <1>3, <1>4, <1>5, <1>6, <1>7, <1>8
-----------------------------------------------------------------------------
(* feasible_tree_with_mode: the tree grows.                                *)

\* The last element of a stack, and the others.
LEMMA LastAndFront ==
  ASSUME NEW R, NEW s \in Seq(R), s # <<>>
  PROVE  Last(s) \in R /\ Front(s) \in Seq(R)
<1>1. Len(s) \in Nat /\ Len(s) >= 1 /\ Len(s) \in DOMAIN s
  OBVIOUS
<1>2. Last(s) \in R
  BY <1>1 DEF Last
<1>3. \A i \in 1..(Len(s) - 1) : s[i] \in R
  BY <1>1
<1>4. Front(s) \in Seq(R)
  BY <1>1, <1>3 DEF Front
<1> QED  BY <1>2, <1>4

\* The ranks of the first phase.
LEMMA InitialRanksKeep ==
  ASSUME NetworkOK, InitialRanks
  PROVE  RanksInv' /\ NetworkOK' /\ phase' \in {"ranked", "grow"}
<1>1. NetworkUnchanged /\ UNCHANGED <<graphVars, compoundVars, minlen, weight, cuts, rounds>>
  BY DEF InitialRanks, NetworkUnchanged
<1>2. /\ NetworkOK' /\ Positions' = Positions /\ RankNodes' = RankNodes /\ First' = First
      /\ nodes' = nodes /\ \A k : Source(k)' = Source(k) /\ Target(k)' = Target(k)
      /\ minlen' = minlen /\ EdgeCount' = EdgeCount
  BY <1>1, NetworkStays
<1>3. \/ rank' = LongestPath
      \/ rank' = DagreLongestPath
  BY DEF InitialRanks
<1>4. rank' \in [nodes -> Int] /\ (Processed = nodes => KeepsMinlen(rank'))
  BY <1>3, LongestPathIsFeasible, DagreLongestPathIsFeasible
<1>5. missed' = {} => Processed = nodes
  <2>1. missed' = nodes \ Processed
    BY DEF InitialRanks
  <2>2. PICK done : KahnRun(done) /\ Processed = done[NodeCount]
    BY KahnRuns
  <2>3. Processed \in SUBSET nodes
    BY <2>2, NumbersOfNodes DEF KahnRun, Iterates
  <2> QED  BY <2>1, <2>3
<1>6. KeepsMinlen(rank') => Feasible'
  BY <1>2 DEF KeepsMinlen, Feasible, Slack
<1>7. phase' \in {"ranked", "grow"}
  BY DEF InitialRanks
<1>8. ASSUME phase' = "grow" PROVE GrowInv'
  <2>1. /\ inTree' = {First} /\ work' = <<First>>
        /\ parent' = [v \in nodes |-> 0] /\ via' = [v \in nodes |-> 0]
        /\ Cardinality(RankNodes) > 1
    BY <1>8 DEF InitialRanks
  <2>2. First \in RankNodes /\ RankNodes \in SUBSET nodes
    <3>1. RankNodes # {}
      BY <2>1, FS_EmptySet
    <3> QED  BY <3>1, RankNodesFacts
  <2>3. \A v \in nodes : parent'[v] = 0 /\ via'[v] = 0
    BY <2>1
  <2>4. Tree' = {First}
    BY <1>2, <2>2, <2>3 DEF Tree
  <2>5. Rooted'
    BY <1>2, <2>4 DEF Rooted
  <2>6. TreeInv'
    BY <1>2, <2>1, <2>2, <2>3, <2>4, <2>5 DEF TreeInv
  <2>7. work' \in Seq(inTree')
    BY <2>1
  <2> QED  BY <2>1, <2>4, <2>6, <2>7 DEF GrowInv
<1> QED  BY <1>2, <1>4, <1>5, <1>6, <1>7, <1>8 DEF RanksInv

\* The node at the other end of an edge.
LEMMA OtherEnd ==
  ASSUME NEW k, NEW v, NEW w, NEW u, Joins(k, v, w), Joins(k, v, u)
  PROVE  w = u
<1>1. {v, w} = {v, u}
  BY DEF Joins
<1> QED  BY <1>1

Other(k, v) == CHOOSE w \in nodes : Joins(k, v, w)

\* The tight edges tight_tree follows from a node lead out of the tree, and none is missed.
LEMMA TightFromFacts ==
  ASSUME NetworkOK, NEW v, inTree \in SUBSET nodes
  PROVE  /\ TightFrom(v) \in SUBSET Positions
         /\ \A k \in TightFrom(v) : /\ Slack(k) = 0 /\ Joins(k, v, Other(k, v))
                                    /\ Other(k, v) \in RankNodes \ inTree
         /\ \A k \in Positions, w \in RankNodes \ inTree :
              Slack(k) = 0 /\ Joins(k, v, w) => TightFrom(v) # {}
<1> DEFINE outside == RankNodes \ inTree
           leads == {k \in Positions : Slack(k) = 0 /\ \E w \in outside : Joins(k, v, w)}
           other(k) == CHOOSE w \in outside : Joins(k, v, w)
           firsts == {k \in leads : \A j \in leads : j < k => other(j) # other(k)}
<1>1. TightFrom(v) = firsts
  BY DEF TightFrom
<1>2. outside \in SUBSET nodes
  BY RankNodesFacts
<1>3. ASSUME NEW k \in leads PROVE Slack(k) = 0 /\ Joins(k, v, Other(k, v)) /\ Other(k, v) \in outside
  <2>1. PICK w \in outside : Joins(k, v, w)
    OBVIOUS
  <2>2. \E x \in nodes : Joins(k, v, x)
    BY <1>2, <2>1
  <2>3. Joins(k, v, Other(k, v))
    BY <2>2 DEF Other
  <2>4. Other(k, v) = w
    BY <2>1, <2>3, OtherEnd
  <2> QED  BY <2>1, <2>3, <2>4
<1>4. ASSUME NEW k \in Positions, NEW w \in outside, Slack(k) = 0, Joins(k, v, w)
      PROVE  firsts # {}
  <2>1. k \in leads
    BY <1>4
  <2>2. leads \in SUBSET Nat /\ leads # {}
    BY <2>1, NumbersOfNodes
  <2>3. PICK m \in leads : \A j \in leads : m <= j
    <3> HIDE DEF leads
    <3> QED  BY <2>2, LeastNumber
  <2>4. \A j \in leads : ~(j < m)
    <3> HIDE DEF leads
    <3> QED  BY <2>2, <2>3
  <2>5. m \in firsts
    <3> HIDE DEF leads
    <3> QED  BY <2>4
  <2> QED  BY <2>5
<1>5. firsts \in SUBSET leads /\ leads \in SUBSET Positions
  OBVIOUS
<1> HIDE DEF firsts, leads
<1> QED  BY <1>1, <1>3, <1>4, <1>5

\* What a node taken off the stack brings into the tree.
LEMMA GrowTreeKeeps ==
  ASSUME NetworkOK, RanksInv, GrowTree
  PROVE  RanksInv' /\ NetworkOK' /\ phase' = "grow"
<1>1. /\ NetworkUnchanged /\ phase = "grow" /\ work # <<>>
      /\ UNCHANGED <<rank, missed, rounds>> /\ phase' = "grow"
  BY DEF GrowTree, NetworkUnchanged
<1>2. /\ NetworkOK' /\ Positions' = Positions /\ RankNodes' = RankNodes /\ First' = First
      /\ nodes' = nodes /\ \A k : Source(k)' = Source(k) /\ Target(k)' = Target(k)
      /\ minlen' = minlen /\ EdgeCount' = EdgeCount /\ edges' = edges
      /\ \A k, u, w : Joins(k, u, w)' = Joins(k, u, w)
  BY <1>1, NetworkStays
<1>3. \A k : Slack(k)' = Slack(k)
  BY <1>1, <1>2 DEF Slack
<1>4. GrowInv /\ TreeInv /\ inTree = Tree /\ work \in Seq(inTree) /\ inTree \in SUBSET nodes
  BY <1>1 DEF RanksInv, GrowInv, Tree
<1>5. PICK v \in inTree : v = Last(work)
  BY <1>1, <1>4, LastAndFront
<1> DEFINE tight == TightFrom(v)
           new == {Other(k, v) : k \in tight}
           added == InOrder(tight)
<1>6. /\ tight \in SUBSET Positions
      /\ \A k \in tight : /\ Slack(k) = 0 /\ Joins(k, v, Other(k, v))
                          /\ Other(k, v) \in RankNodes \ inTree
  BY <1>4, TightFromFacts
<1> HIDE DEF tight
<1>7. /\ inTree' = inTree \union new
      /\ parent' = [w \in nodes |-> IF w \in new THEN v ELSE parent[w]]
      /\ via' = [w \in nodes |-> IF w \in new THEN CHOOSE k \in tight : Other(k, v) = w ELSE via[w]]
      /\ work' = Front(work) \o [i \in DOMAIN added |-> Other(added[i], v)]
  BY <1>5 DEF GrowTree, Other, tight
<1>8. new \in SUBSET (RankNodes \ inTree) /\ new \in SUBSET nodes
  BY <1>6, RankNodesFacts
<1>9. v \in nodes /\ v # 0 /\ First \in nodes /\ First \in inTree
  <2>1. First \in nodes /\ First \in Tree
    BY <1>4, RankNodesFacts DEF TreeInv, Tree
  <2> QED  BY <1>4, <2>1 DEF NetworkOK
<1>10. ASSUME NEW w \in new
       PROVE  parent'[w] = v /\ via'[w] \in tight /\ Other(via'[w], v) = w /\ parent[w] = 0
  <2>1. w \in nodes /\ w \notin Tree
    BY <1>4, <1>8
  <2>2. parent'[w] = v /\ parent[w] = 0
    BY <1>7, <2>1 DEF Tree
  <2>3. \E k \in tight : Other(k, v) = w
    OBVIOUS
  <2>4. via'[w] = CHOOSE k \in tight : Other(k, v) = w
    BY <1>7, <2>1
  <2> QED  BY <2>2, <2>3, <2>4
<1>11. \A w \in nodes : w \notin new => parent'[w] = parent[w] /\ via'[w] = via[w]
  BY <1>7
<1> HIDE DEF new
<1>12. Tree' = Tree \union new
  <2>1. ASSUME NEW w \in nodes PROVE (w = First \/ parent'[w] # 0) <=> (w \in Tree \/ w \in new)
    <3>1. CASE w \in new
      BY <1>9, <1>10, <3>1
    <3>2. CASE w \notin new
      BY <1>11, <3>2 DEF Tree
    <3> QED  BY <3>1, <3>2
  <2>2. Tree' = {w \in nodes : w = First \/ parent'[w] # 0}
    BY <1>2 DEF Tree
  <2>3. Tree \in SUBSET nodes
    BY DEF Tree
  <2> QED  BY <1>8, <2>1, <2>2, <2>3
<1>13. ASSUME NEW w \in nodes, parent'[w] # 0 PROVE HangsTight(w)'
  <2>1. CASE w \in new
    <3>1. via'[w] \in Positions /\ Slack(via'[w]) = 0 /\ Joins(via'[w], v, w) /\ parent'[w] = v
      BY <1>6, <1>10, <2>1
    <3>2. Joins(via'[w], w, v)
      BY <3>1 DEF Joins
    <3>3. v \in Tree'
      BY <1>4, <1>12
    <3>4. Joins(via[w], w, parent[w])'
      BY <1>2, <3>1, <3>2 DEF Joins
    <3>5. Slack(via[w])' = 0
      BY <1>1, <1>2, <3>1 DEF Slack
    <3> QED  BY <1>2, <3>1, <3>3, <3>4, <3>5 DEF HangsTight
  <2>2. CASE w \notin new
    <3>1. parent'[w] = parent[w] /\ via'[w] = via[w] /\ parent[w] # 0
      BY <1>11, <1>13, <2>2
    <3>2. via[w] \in Positions /\ Slack(via[w]) = 0 /\ Joins(via[w], w, parent[w]) /\ parent[w] \in Tree
      BY <1>4, <3>1 DEF TreeInv, HangsTight
    <3>3. Joins(via[w], w, parent[w])'
      BY <1>2, <3>1, <3>2 DEF Joins
    <3>4. Slack(via[w])' = 0
      BY <1>1, <1>2, <3>1, <3>2 DEF Slack
    <3> QED  BY <1>2, <1>12, <3>1, <3>2, <3>3, <3>4 DEF HangsTight
  <2> QED  BY <2>1, <2>2
<1>14. Rooted'
  <2> SUFFICES ASSUME NEW S \in SUBSET nodes, First \in S, \A w \in nodes : parent'[w] \in S => w \in S
               PROVE  Tree' \subseteq S
    BY <1>2 DEF Rooted, DownClosed
  <2>1. ASSUME NEW w \in nodes, parent[w] \in S PROVE w \in S
    <3>1. w \notin new
      <4>1. 0 \notin S
        BY DEF NetworkOK
      <4> QED  BY <1>10, <2>1, <4>1
    <3> QED  BY <1>11, <2>1, <3>1
  <2>2. Tree \subseteq S
    BY <1>4, <2>1 DEF TreeInv, Rooted, DownClosed
  <2>3. new \subseteq S
    BY <1>4, <1>8, <1>10, <2>2
  <2> QED  BY <1>12, <2>2, <2>3
<1>15. TreeInv'
  <2>1. parent' \in [nodes -> nodes \union {0}]
    BY <1>4, <1>7, <1>9 DEF TreeInv
  <2>2. parent'[First] = 0
    BY <1>4, <1>8, <1>9, <1>11 DEF TreeInv
  <2>3. \A w \in nodes : parent'[w] = 0 => via'[w] = 0
    BY <1>4, <1>9, <1>10, <1>11 DEF TreeInv
  <2>4. Tree' \subseteq RankNodes
    BY <1>4, <1>8, <1>12 DEF TreeInv
  <2>5. First \in RankNodes
    BY <1>4 DEF TreeInv
  <2>6. via' \in [nodes -> Positions \union {0}]
    <3>1. \A w \in nodes : via'[w] \in Positions \union {0}
      BY <1>4, <1>6, <1>10, <1>11 DEF TreeInv
    <3> QED  BY <1>7, <3>1
  <2> QED  BY <1>2, <1>13, <1>14, <2>1, <2>2, <2>3, <2>4, <2>5, <2>6 DEF TreeInv
<1>16. inTree' = Tree'
  BY <1>4, <1>7, <1>12
<1>17. work' \in Seq(inTree')
  <2>1. IsFiniteSet(tight) /\ tight \in SUBSET Int
    <3>1. tight \in SUBSET Nat
      BY <1>6, NumbersOfNodes
    <3>2. IsFiniteSet(tight)
      BY <1>6, NumbersOfNodes, FS_Subset, Zenon
    <3> QED  BY <3>1, <3>2
  <2>2. added \in [1..Cardinality(tight) -> tight] /\ Cardinality(tight) \in Nat
    BY <2>1, InOrderFacts
  <2> DEFINE pushed == [i \in DOMAIN added |-> Other(added[i], v)]
  <2>3. \A i \in DOMAIN added : Other(added[i], v) \in new
    BY <2>2 DEF new
  <2> HIDE DEF added
  <2>4. pushed \in Seq(new)
    <3>1. DOMAIN added = 1..Cardinality(tight)
      BY <2>2
    <3> QED  BY <2>2, <2>3, <3>1
  <2>5. Front(work) \in Seq(inTree)
    BY <1>1, <1>4, LastAndFront
  <2>6. Front(work) \in Seq(inTree \union new) /\ pushed \in Seq(inTree \union new)
    BY <2>4, <2>5
  <2>7. work' = Front(work) \o pushed
    BY <1>7
  <2> HIDE DEF pushed
  <2>8. Front(work) \o pushed \in Seq(inTree \union new)
    BY <2>6
  <2>9. inTree' = inTree \union new
    BY <1>7
  <2> QED  BY <2>7, <2>8, <2>9, Zenon
<1>18. Feasible => Feasible'
  BY <1>2, <1>3 DEF Feasible
<1>19. GrowInv'
  BY <1>15, <1>16, <1>17 DEF GrowInv
<1> QED  BY <1>1, <1>2, <1>18, <1>19 DEF RanksInv

\* Slacks are integers.
LEMMA SlackIsInt ==
  ASSUME NetworkOK, rank \in [nodes -> Int], NEW k \in Positions
  PROVE  Slack(k) \in Int
<1>1. Source(k) \in nodes /\ Target(k) \in nodes /\ minlen[k] \in Int
  BY EdgesJoinNodes
<1>2. rank[Source(k)] \in Int /\ rank[Target(k)] \in Int
  BY <1>1
<1> QED  BY <1>1, <1>2 DEF Slack

\* Among some edges there is one of least slack, the first of them.
LEMMA LeastSlackExists ==
  ASSUME NetworkOK, rank \in [nodes -> Int], NEW K \in SUBSET Positions, K # {}
  PROVE  \E k \in K : \A j \in K : Slack(k) < Slack(j) \/ (Slack(k) = Slack(j) /\ k <= j)
<1> DEFINE f == [k \in K |-> Slack(k)]
<1>1. f \in [K -> Int]
  BY SlackIsInt
<1>2. IsFiniteSet(K) /\ K \in SUBSET Nat
  <2>1. IsFiniteSet(K)
    BY NumbersOfNodes, FS_Subset, Zenon
  <2> QED  BY <2>1, NumbersOfNodes
<1>3. \A k \in K : f[k] = Slack(k)
  OBVIOUS
<1> HIDE DEF f
<1>4. \E k \in K : \A j \in K : f[k] < f[j] \/ (f[k] = f[j] /\ k <= j)
  BY <1>1, <1>2, FirstLeast
<1> QED  BY <1>3, <1>4

\* find_min_slack_crossing finds a crossing edge of least slack.
LEMMA LeastSlackCrossingFacts ==
  ASSUME NetworkOK, rank \in [nodes -> Int], Crossing # {}
  PROVE  /\ LeastSlackCrossing \in Crossing
         /\ \A j \in Crossing : Slack(LeastSlackCrossing) <= Slack(j)
<1> DEFINE P(k) == \A j \in Crossing : Slack(k) < Slack(j) \/ (Slack(k) = Slack(j) /\ k <= j)
<1>1. Crossing \in SUBSET Positions
  BY DEF Crossing
<1>2. \E k \in Crossing : P(k)
  BY <1>1, LeastSlackExists
<1>3. LeastSlackCrossing = CHOOSE k \in Crossing : P(k)
  BY DEF LeastSlackCrossing
<1>4. LeastSlackCrossing \in Crossing /\ P(LeastSlackCrossing)
  BY <1>2, <1>3
<1>5. \A j \in Crossing : Slack(j) \in Int
  BY <1>1, SlackIsInt
<1>6. PICK m : m = LeastSlackCrossing
  OBVIOUS
<1>7. m \in Crossing /\ \A j \in Crossing : Slack(m) < Slack(j) \/ (Slack(m) = Slack(j) /\ m <= j)
  BY <1>4, <1>6
<1>8. \A j \in Crossing : Slack(m) <= Slack(j)
  BY <1>5, <1>7
<1> QED  BY <1>6, <1>7, <1>8

\* Ranks moved by d for a set of nodes.
Moved(S, d) == [v \in nodes |-> IF v \in S THEN rank[v] + d ELSE rank[v]]

SlackIn(r, k) == r[Target(k)] - r[Source(k)] - minlen[k]

\* An edge with both ends inside or both outside keeps its slack; one that crosses
\* gains or loses d.
LEMMA MovedSlack ==
  ASSUME NetworkOK, rank \in [nodes -> Int], NEW S, NEW d \in Int, NEW k \in Positions
  PROVE  /\ Moved(S, d) \in [nodes -> Int]
         /\ (Source(k) \in S <=> Target(k) \in S) => SlackIn(Moved(S, d), k) = Slack(k)
         /\ Source(k) \in S /\ Target(k) \notin S => SlackIn(Moved(S, d), k) = Slack(k) - d
         /\ Source(k) \notin S /\ Target(k) \in S => SlackIn(Moved(S, d), k) = Slack(k) + d
<1>1. Source(k) \in nodes /\ Target(k) \in nodes /\ minlen[k] \in Int
  BY EdgesJoinNodes
<1>2. rank[Source(k)] \in Int /\ rank[Target(k)] \in Int
  BY <1>1
<1>3. Moved(S, d) \in [nodes -> Int]
  BY DEF Moved
<1>4. /\ Moved(S, d)[Source(k)] = IF Source(k) \in S THEN rank[Source(k)] + d ELSE rank[Source(k)]
      /\ Moved(S, d)[Target(k)] = IF Target(k) \in S THEN rank[Target(k)] + d ELSE rank[Target(k)]
  BY <1>1 DEF Moved
<1> QED  BY <1>1, <1>2, <1>3, <1>4 DEF SlackIn, Slack

\* The tree moves until one more edge is tight.
LEMMA ShiftTreeKeeps ==
  ASSUME NetworkOK, RanksInv, ShiftTree
  PROVE  RanksInv' /\ NetworkOK' /\ phase' = "grow"
<1>1. /\ NetworkUnchanged /\ phase = "grow" /\ Crossing # {}
      /\ UNCHANGED <<missed, inTree, parent, via>> /\ phase' = "grow"
      /\ work' = InOrder(inTree)
  BY DEF ShiftTree, NetworkUnchanged
<1>2. /\ NetworkOK' /\ Positions' = Positions /\ RankNodes' = RankNodes /\ First' = First
      /\ nodes' = nodes /\ \A k : Source(k)' = Source(k) /\ Target(k)' = Target(k)
      /\ minlen' = minlen /\ EdgeCount' = EdgeCount /\ edges' = edges
      /\ \A k, u, w : Joins(k, u, w)' = Joins(k, u, w)
  BY <1>1, NetworkStays
<1>3. /\ GrowInv /\ TreeInv /\ inTree = Tree /\ inTree \in SUBSET nodes
      /\ rank \in [nodes -> Int] /\ (missed = {} => Feasible)
  BY <1>1 DEF RanksInv, GrowInv, Tree
<1> DEFINE m == LeastSlackCrossing
           d == IF Source(m) \in inTree THEN Slack(m) ELSE -Slack(m)
<1>4. m \in Crossing /\ \A j \in Crossing : Slack(m) <= Slack(j)
  BY <1>1, <1>3, LeastSlackCrossingFacts
<1>5. Slack(m) \in Int /\ d \in Int /\ m \in Positions
  <2>1. m \in Positions
    BY <1>4 DEF Crossing
  <2>2. Slack(m) \in Int
    BY <1>3, <2>1, SlackIsInt
  <2> QED  BY <2>1, <2>2
<1>6. rank' = Moved(inTree, d)
  BY DEF ShiftTree, Moved
<1>7. ASSUME NEW k \in Positions PROVE Slack(k)' = SlackIn(Moved(inTree, d), k)
  BY <1>2, <1>6 DEF Slack, SlackIn
<1>8. ASSUME NEW k \in Positions
      PROVE  k \in Crossing <=> ~(Source(k) \in inTree <=> Target(k) \in inTree)
  <2>1. {edges[k].from, edges[k].to} = {Source(k), Target(k)}
    BY EdgesJoinNodes
  <2> QED  BY <2>1 DEF Crossing, Source, Target
<1> HIDE DEF m, d
<1>9. rank' \in [nodes -> Int]
  BY <1>3, <1>5, <1>6, MovedSlack
<1>10. ASSUME Feasible PROVE Feasible'
  <2> SUFFICES ASSUME NEW k \in Positions PROVE SlackIn(Moved(inTree, d), k) >= 0
    BY <1>2, <1>7 DEF Feasible
  <2>1. Slack(k) \in Int /\ Slack(k) >= 0 /\ Slack(m) >= 0
    BY <1>3, <1>5, <1>10, SlackIsInt DEF Feasible
  <2>2. CASE k \notin Crossing
    BY <1>3, <1>5, <1>8, <2>1, <2>2, MovedSlack
  <2>3. CASE k \in Crossing
    <3>1. Slack(m) <= Slack(k)
      BY <1>4, <2>3
    <3>2. d = Slack(m) \/ d = -Slack(m)
      BY DEF d
    <3>3. SlackIn(Moved(inTree, d), k) = Slack(k) - d \/ SlackIn(Moved(inTree, d), k) = Slack(k) + d
      BY <1>3, <1>5, <1>8, <2>3, MovedSlack
    <3> QED  BY <1>5, <2>1, <3>1, <3>2, <3>3
  <2> QED  BY <2>2, <2>3
<1>11. Tree' = Tree
  BY <1>1, <1>2 DEF Tree
<1>12. ASSUME NEW v \in nodes, parent[v] # 0 PROVE HangsTight(v)'
  <2>1. via[v] \in Positions /\ Slack(via[v]) = 0 /\ Joins(via[v], v, parent[v]) /\ parent[v] \in Tree
    BY <1>3, <1>12 DEF TreeInv, HangsTight
  <2>2. v \in inTree /\ parent[v] \in inTree
    BY <1>3, <1>12, <2>1 DEF Tree
  <2>3. {v, parent[v]} = {Source(via[v]), Target(via[v])}
    BY <2>1, EdgesJoinNodes DEF Joins
  <2>4. Source(via[v]) \in inTree /\ Target(via[v]) \in inTree
    BY <2>2, <2>3
  <2>5. Slack(via[v])' = 0
    <3>1. SlackIn(Moved(inTree, d), via[v]) = 0
      BY <1>3, <1>5, <2>1, <2>4, MovedSlack
    <3>2. SlackIn(Moved(inTree, d), via[v]) = Slack(via[v])'
      BY <1>1, <1>2, <1>6 DEF Slack, SlackIn
    <3> QED  BY <3>1, <3>2
  <2>6. Joins(via[v], v, parent[v])'
    BY <1>1, <1>2, <2>1 DEF Joins
  <2> QED  BY <1>1, <1>2, <1>11, <2>1, <2>5, <2>6 DEF HangsTight
<1>13. Rooted'
  BY <1>1, <1>2, <1>3, <1>11 DEF TreeInv, Rooted, DownClosed
<1>14. TreeInv'
  BY <1>1, <1>2, <1>3, <1>11, <1>12, <1>13 DEF TreeInv
<1>15. work' \in Seq(inTree')
  <2>1. IsFiniteSet(inTree) /\ inTree \in SUBSET Int
    <3>1. IsFiniteSet(inTree)
      BY <1>3, FS_Subset DEF NetworkOK
    <3>2. nodes \in SUBSET Int
      <4>1. nodes \in SUBSET (Nat \ {0})
        BY DEF NetworkOK
      <4> QED  BY <4>1
    <3> QED  BY <1>3, <3>1, <3>2
  <2>2. InOrder(inTree) \in [1..Cardinality(inTree) -> inTree] /\ Cardinality(inTree) \in Nat
    BY <2>1, InOrderFacts
  <2>3. InOrder(inTree) \in Seq(inTree)
    BY <2>2
  <2> QED  BY <1>1, <2>3
<1>16. GrowInv'
  BY <1>1, <1>3, <1>11, <1>14, <1>15 DEF GrowInv
<1> QED  BY <1>1, <1>2, <1>3, <1>9, <1>10, <1>16 DEF RanksInv

\* The tree is complete, or no edge leads out of it.
LEMMA FinishTreeKeeps ==
  ASSUME NetworkOK, RanksInv, EdgeCount > 0, FinishTree
  PROVE  RanksInv' /\ NetworkOK' /\ phase' = "pivot"
<1>1. /\ NetworkUnchanged /\ phase = "grow" /\ (inTree = RankNodes \/ Crossing = {})
      /\ UNCHANGED <<rank, missed, parent, via>> /\ phase' = "pivot"
      /\ inTree' = RankNodes /\ cuts' = CutValues(parent, via)
  BY DEF FinishTree, NetworkUnchanged
<1>2. /\ NetworkOK' /\ Positions' = Positions /\ RankNodes' = RankNodes /\ First' = First
      /\ nodes' = nodes /\ \A k : Source(k)' = Source(k) /\ Target(k)' = Target(k)
      /\ minlen' = minlen /\ EdgeCount' = EdgeCount /\ edges' = edges
      /\ \A k, u, w : Joins(k, u, w)' = Joins(k, u, w)
  BY <1>1, NetworkStays
<1>3. \A k : Slack(k)' = Slack(k)
  BY <1>1, <1>2 DEF Slack
<1>4. GrowInv /\ TreeInv /\ inTree = Tree
  BY <1>1 DEF RanksInv, GrowInv
<1>5. Tree' = Tree
  BY <1>1, <1>2 DEF Tree
<1>6. ASSUME NEW v \in nodes, parent[v] # 0 PROVE HangsTight(v)'
  <2>1. via[v] \in Positions /\ Slack(via[v]) = 0 /\ Joins(via[v], v, parent[v]) /\ parent[v] \in Tree
    BY <1>4, <1>6 DEF TreeInv, HangsTight
  <2>2. Joins(via[v], v, parent[v])'
    BY <1>1, <1>2, <2>1 DEF Joins
  <2>3. Slack(via[v])' = 0
    BY <1>1, <1>2, <2>1 DEF Slack
  <2> QED  BY <1>1, <1>2, <1>5, <2>1, <2>2, <2>3 DEF HangsTight
<1>7. Rooted'
  BY <1>1, <1>2, <1>4, <1>5 DEF TreeInv, Rooted, DownClosed
<1>8. TreeInv'
  BY <1>1, <1>2, <1>4, <1>5, <1>6, <1>7 DEF TreeInv
<1>9. \A k \in Positions : edges[k].from \in Tree <=> edges[k].to \in Tree
  BY <1>1, <1>4, RankNodesFacts DEF Crossing
<1>10. DOMAIN cuts' = {v \in nodes : parent[v] # 0}
  BY <1>1 DEF CutValues
<1>11. PivotInv'
  BY <1>1, <1>2, <1>5, <1>8, <1>9, <1>10 DEF PivotInv
<1>12. Feasible => Feasible'
  BY <1>2, <1>3 DEF Feasible
<1> QED  BY <1>1, <1>2, <1>11, <1>12 DEF RanksInv
-----------------------------------------------------------------------------
(* rebuild_parent_pointers: the tree is hung up again.                     *)

\* Sets that grow with every step hold all before them.
LEMMA EarlierIsSmaller ==
  ASSUME NEW f, \A n \in Nat : f[n] \subseteq f[n + 1], NEW m \in Nat, NEW n \in Nat, m <= n
  PROVE  f[m] \subseteq f[n]
<1> DEFINE good == {d \in Nat : f[m] \subseteq f[m + d]}
<1>1. 0 \in good
  OBVIOUS
<1>2. ASSUME NEW d \in Nat, d \in good PROVE d + 1 \in good
  <2>1. m + d \in Nat /\ (m + d) + 1 = m + (d + 1)
    OBVIOUS
  <2>2. f[m + d] \subseteq f[(m + d) + 1]
    BY <2>1
  <2> QED  BY <1>2, <2>1, <2>2
<1>3. Nat \subseteq good
  <2> HIDE DEF good
  <2> QED  BY <1>1, <1>2, Inductive
<1>4. n - m \in good /\ m + (n - m) = n
  BY <1>3
<1> QED  BY <1>4

Seen(L) == {link[1] : link \in L}

Leading(E, S) == {k \in E : (edges[k].from \in S) # (edges[k].to \in S)}

LinkFrom(S, k) == IF edges[k].from \in S
                  THEN <<edges[k].to, edges[k].from, k>>
                  ELSE <<edges[k].from, edges[k].to, k>>

NewLinks(E, S) == {LinkFrom(S, k) : k \in Leading(E, S)}

\* A link to a node outside S from one inside.
LEMMA LinkFacts ==
  ASSUME NetworkOK, NEW E \in SUBSET Positions, NEW S \in SUBSET nodes, NEW l \in NewLinks(E, S)
  PROVE  /\ l \in nodes \X nodes \X E
         /\ l[1] \in nodes \ S /\ l[2] \in S /\ l[3] \in E
         /\ Joins(l[3], l[1], l[2])
<1>1. PICK k \in Leading(E, S) : l = LinkFrom(S, k)
  BY DEF NewLinks
<1>2. k \in Positions /\ k \in E /\ (edges[k].from \in S) # (edges[k].to \in S)
  BY <1>1 DEF Leading
<1>3. edges[k].from \in nodes /\ edges[k].to \in nodes
  BY <1>2, EdgesJoinNodes
<1>4. CASE edges[k].from \in S
  <2>1. l = <<edges[k].to, edges[k].from, k>> /\ edges[k].to \notin S
    BY <1>1, <1>2, <1>4 DEF LinkFrom
  <2> QED  BY <1>2, <1>3, <1>4, <2>1 DEF Joins
<1>5. CASE edges[k].from \notin S
  <2>1. l = <<edges[k].from, edges[k].to, k>> /\ edges[k].to \in S
    BY <1>1, <1>2, <1>5 DEF LinkFrom
  <2> QED  BY <1>2, <1>3, <1>5, <2>1 DEF Joins
<1> QED  BY <1>4, <1>5

HungRun(f, E) ==
  Iterates(f, SUBSET (nodes \X (nodes \union {0}) \X (E \union {0})), {<<First, 0, 0>>},
           [L \in SUBSET (nodes \X (nodes \union {0}) \X (E \union {0})) |-> L \union NewLinks(E, Seen(L))])

\* rebuild_parent_pointers iterates NewLinks.
LEMMA HungRuns ==
  ASSUME NetworkOK, First \in nodes, NEW E \in SUBSET Positions
  PROVE  \E f : HungRun(f, E) /\ Hung(E) = f[NodeCount]
<1> DEFINE B(f) == f = [n \in Nat |->
                    IF n = 0 THEN {<<First, 0, 0>>}
                    ELSE LET above == f[n - 1]
                             seen == {link[1] : link \in above}
                             leading == {k \in E : (edges[k].from \in seen) # (edges[k].to \in seen)}
                         IN  above \union
                               {IF edges[k].from \in seen
                                THEN <<edges[k].to, edges[k].from, k>>
                                ELSE <<edges[k].from, edges[k].to, k>> : k \in leading}]
           V == SUBSET (nodes \X (nodes \union {0}) \X (E \union {0}))
           with(L) == L \union NewLinks(E, Seen(L))
           base == {<<First, 0, 0>>}
           step == [L \in V |-> with(L)]
<1>1. ASSUME NEW L \in V PROVE with(L) \in V
  <2>1. Seen(L) \in SUBSET nodes
    BY DEF Seen
  <2>2. \A l \in NewLinks(E, Seen(L)) : l \in nodes \X nodes \X E
    BY <2>1, LinkFacts
  <2> QED  BY <2>2
<1>2. base \in V
  OBVIOUS
<1>3. PICK f : Iterates(f, V, base, step)
  <2>1. step \in [V -> V]
    BY <1>1
  <2> HIDE DEF V, step, base
  <2> QED  BY <1>2, <2>1, IterationExists
<1>4. B(f)
  <2>1. f \in [Nat -> V] /\ f[0] = base
    BY <1>3 DEF Iterates
  <2>2. ASSUME NEW n \in Nat, n # 0 PROVE f[n] = with(f[n - 1])
    <3>1. n - 1 \in Nat /\ (n - 1) + 1 = n
      BY <2>2
    <3>2. f[(n - 1) + 1] = step[f[n - 1]]
      BY <1>3, <3>1 DEF Iterates
    <3>3. f[n - 1] \in V
      BY <2>1, <3>1
    <3> QED  BY <3>1, <3>2, <3>3
  <2> HIDE DEF V
  <2> QED  BY <2>1, <2>2 DEF NewLinks, LinkFrom, Leading, Seen
<1> DEFINE g == CHOOSE h : B(h)
<1>5. B(g)
  <2> HIDE DEF B
  <2> QED  BY <1>4
<1>6. Hung(E) = g[NodeCount]
  BY DEF Hung
<1> HIDE DEF g
<1>7. g[0] = base /\ DOMAIN g = Nat
  BY <1>5
<1>8. ASSUME NEW n \in Nat PROVE g[n + 1] = with(g[n])
  <2>1. n + 1 \in Nat /\ n + 1 # 0 /\ (n + 1) - 1 = n
    OBVIOUS
  <2>2. g[n + 1] = with(g[(n + 1) - 1])
    BY <1>5, <2>1 DEF NewLinks, LinkFrom, Leading, Seen
  <2> QED  BY <2>1, <2>2
<1>9. g \in [Nat -> V]
  <2>1. g = [n \in Nat |-> g[n]]
    BY <1>5
  <2> DEFINE good == {n \in Nat : g[n] \in V}
  <2>2. 0 \in good
    BY <1>2, <1>7
  <2>3. ASSUME NEW n \in Nat, n \in good PROVE n + 1 \in good
    <3>1. with(g[n]) \in V
      BY <1>1, <2>3
    <3>2. g[n + 1] \in V
      <4> HIDE DEF V, with
      <4> QED  BY <1>8, <3>1
    <3> HIDE DEF V
    <3> QED  BY <3>2
  <2>4. Nat \subseteq good
    <3> HIDE DEF good
    <3> QED  BY <2>2, <2>3, Inductive
  <2> HIDE DEF V, B
  <2> QED  BY <2>1, <2>4
<1>10. HungRun(g, E)
  <2>1. \A n \in Nat : g[n + 1] = step[g[n]]
    BY <1>8, <1>9
  <2> HIDE DEF V
  <2> QED  BY <1>7, <1>9, <2>1 DEF HungRun, Iterates, V
<1> HIDE DEF B
<1> QED  BY <1>6, <1>10

\* The parent and the edge that rebuild_parent_pointers gives a node.
Relinked(E, v, i) ==
  IF \E l \in Hung(E) : l[1] = v THEN (CHOOSE l \in Hung(E) : l[1] = v)[i] ELSE 0

\* H hangs from the root by edges of E, and holds what these lead to.
HangsBy(E, H) ==
  /\ H \in SUBSET nodes /\ First \in H
  /\ \A k \in E : edges[k].from \in H <=> edges[k].to \in H
  /\ \A T \in SUBSET nodes : First \in T /\ (\A k \in E : edges[k].from \in T <=> edges[k].to \in T)
                               => H \subseteq T
  /\ \A v \in nodes : v \notin H \/ v = First => Relinked(E, v, 2) = 0 /\ Relinked(E, v, 3) = 0
  /\ \A v \in H \ {First} : /\ Relinked(E, v, 2) \in H /\ Relinked(E, v, 2) # v
                            /\ Relinked(E, v, 3) \in E
                            /\ Joins(Relinked(E, v, 3), v, Relinked(E, v, 2))
  /\ \A S \in SUBSET nodes :
       First \in S /\ (\A v \in nodes : Relinked(E, v, 2) \in S => v \in S) => H \subseteq S

\* rebuild_parent_pointers gives every node it reaches one parent and one edge to it.
LEMMA HungHangs ==
  ASSUME NetworkOK, First \in nodes, NEW E \in SUBSET Positions
  PROVE  \E H : HangsBy(E, H)
<1> DEFINE V == SUBSET (nodes \X (nodes \union {0}) \X (E \union {0}))
           root == <<First, 0, 0>>
<1>1. PICK f : HungRun(f, E) /\ Hung(E) = f[NodeCount]
  BY HungRuns
<1>2. f \in [Nat -> V] /\ f[0] = {root}
  BY <1>1 DEF HungRun, Iterates
<1>3. ASSUME NEW n \in Nat PROVE f[n + 1] = f[n] \union NewLinks(E, Seen(f[n]))
  <2> DEFINE step == [L \in V |-> L \union NewLinks(E, Seen(L))]
  <2>1. f[n + 1] = step[f[n]]
    BY <1>1 DEF HungRun, Iterates
  <2>2. f[n] \in V
    BY <1>2
  <2> HIDE DEF V
  <2> QED  BY <2>1, <2>2
<1> DEFINE seen == [n \in Nat |-> Seen(f[n])]
<1>4. seen \in [Nat -> SUBSET nodes] /\ seen[0] = {First}
  <2>1. ASSUME NEW n \in Nat PROVE seen[n] \in SUBSET nodes
    <3>1. f[n] \in V
      BY <1>2
    <3> QED  BY <3>1 DEF Seen
  <2>2. seen[0] = {First}
    <3>1. Seen({root}) = {root[1]}
      BY DEF Seen
    <3>2. seen[0] = Seen(f[0]) /\ root[1] = First
      OBVIOUS
    <3> QED  BY <1>2, <3>1, <3>2
  <2> QED  BY <2>1, <2>2
<1>5. ASSUME NEW n \in Nat PROVE seen[n + 1] = seen[n] \union Seen(NewLinks(E, seen[n]))
  <2>1. \A L, M : Seen(L \union M) = Seen(L) \union Seen(M)
    BY DEF Seen
  <2>2. seen[n + 1] = Seen(f[n + 1]) /\ seen[n] = Seen(f[n])
    OBVIOUS
  <2> HIDE DEF seen
  <2> QED  BY <1>3, <2>1, <2>2
<1>6. \A n \in Nat : seen[n] = Seen(f[n])
  OBVIOUS
<1> HIDE DEF seen
<1>7. \A n \in Nat : seen[n] \subseteq seen[n + 1]
  BY <1>5
<1>8. NodeCount \in Nat
  BY NumbersOfNodes
<1>9. seen[NodeCount + 1] = seen[NodeCount]
  <2>1. ASSUME NEW n \in Nat, seen[n + 1] = seen[n] PROVE seen[n + 2] = seen[n + 1]
    <3>1. (n + 1) + 1 = n + 2 /\ n + 1 \in Nat
      OBVIOUS
    <3>2. seen[n + 2] = seen[n + 1] \union Seen(NewLinks(E, seen[n + 1]))
      BY <1>5, <3>1
    <3> QED  BY <1>5, <2>1, <3>2
  <2>2. Grows(seen, nodes)
    BY <1>4, <1>7, <2>1 DEF Grows
  <2> QED  BY <2>2, GrowthEnds DEF NetworkOK, NodeCount
<1> DEFINE H == seen[NodeCount]
<1>10. H \in SUBSET nodes /\ First \in H
  <2>1. seen[0] \subseteq seen[NodeCount]
    BY <1>7, <1>8, EarlierIsSmaller
  <2> QED  BY <1>4, <1>8, <2>1
<1>11. \A n \in Nat : n <= NodeCount => seen[n] \subseteq H
  BY <1>7, <1>8, EarlierIsSmaller
<1>12. ASSUME NEW k \in E PROVE edges[k].from \in H <=> edges[k].to \in H
  <2> SUFFICES ASSUME (edges[k].from \in H) # (edges[k].to \in H) PROVE FALSE
    OBVIOUS
  <2>1. k \in Leading(E, H)
    BY DEF Leading
  <2>2. LinkFrom(H, k) \in NewLinks(E, H)
    BY <2>1 DEF NewLinks
  <2>3. LinkFrom(H, k)[1] \in nodes \ H
    BY <1>10, <2>2, LinkFacts
  <2>4. LinkFrom(H, k)[1] \in Seen(NewLinks(E, H))
    BY <2>2 DEF Seen
  <2>5. Seen(NewLinks(E, H)) \subseteq H
    BY <1>5, <1>8, <1>9
  <2> QED  BY <2>3, <2>4, <2>5
<1>13. ASSUME NEW T \in SUBSET nodes, First \in T, \A k \in E : edges[k].from \in T <=> edges[k].to \in T
       PROVE  H \subseteq T
  <2> DEFINE good == {n \in Nat : seen[n] \subseteq T}
  <2>1. 0 \in good
    BY <1>4, <1>13
  <2>2. ASSUME NEW n \in Nat, n \in good PROVE n + 1 \in good
    <3>1. seen[n] \in SUBSET nodes /\ seen[n] \subseteq T
      BY <1>4, <2>2
    <3>2. ASSUME NEW l \in NewLinks(E, seen[n]) PROVE l[1] \in T
      <4>1. l[2] \in T /\ l[3] \in E /\ Joins(l[3], l[1], l[2])
        BY <3>1, LinkFacts
      <4>2. {edges[l[3]].from, edges[l[3]].to} = {l[1], l[2]}
        BY <4>1 DEF Joins
      <4>3. PICK k \in E : k = l[3]
        BY <4>1
      <4>4. edges[k].from \in T <=> edges[k].to \in T
        BY <1>13
      <4> QED  BY <4>1, <4>2, <4>3, <4>4
    <3>3. Seen(NewLinks(E, seen[n])) \subseteq T
      BY <3>2 DEF Seen
    <3> QED  BY <1>5, <3>1, <3>3
  <2>3. Nat \subseteq good
    <3> HIDE DEF good
    <3> QED  BY <2>1, <2>2, Inductive
  <2> QED  BY <1>8, <2>3
\* At which step a link was made.
<1> DEFINE madeBy(l, n) == \E m \in Nat : m < n /\ l \in NewLinks(E, seen[m])
<1>14. ASSUME NEW n \in Nat PROVE \A l \in f[n] : l = root \/ madeBy(l, n)
  <2> DEFINE good == {i \in Nat : \A l \in f[i] : l = root \/ madeBy(l, i)}
  <2>1. 0 \in good
    BY <1>2
  <2>2. ASSUME NEW i \in Nat, i \in good PROVE i + 1 \in good
    <3>1. ASSUME NEW l \in f[i + 1] PROVE l = root \/ madeBy(l, i + 1)
      <4>1. l \in f[i] \/ l \in NewLinks(E, seen[i])
        BY <1>3, <1>6
      <4>2. CASE l \in f[i]
        <5>1. l = root \/ madeBy(l, i)
          BY <2>2, <4>2
        <5>2. \A m \in Nat : m < i => m < i + 1
          OBVIOUS
        <5> QED  BY <5>1, <5>2
      <4>3. CASE l \in NewLinks(E, seen[i])
        BY <4>3
      <4> QED  BY <4>1, <4>2, <4>3
    <3> HIDE DEF madeBy
    <3> QED  BY <3>1
  <2>3. Nat \subseteq good
    <3> HIDE DEF good
    <3> QED  BY <2>1, <2>2, Inductive
  <2> HIDE DEF madeBy
  <2> QED  BY <2>3
<1> DEFINE links == Hung(E)
           chosen(v) == CHOOSE l \in links : l[1] = v
<1>15. \A v : v \in H <=> \E l \in links : l[1] = v
  <2>1. H = Seen(links)
    BY <1>1, <1>6, <1>8
  <2> QED  BY <2>1 DEF Seen
<1>16. ASSUME NEW v \in H PROVE chosen(v) \in links /\ chosen(v)[1] = v
  <2>1. \E l \in links : l[1] = v
    BY <1>15
  <2> HIDE DEF links
  <2> QED  BY <2>1
<1>17. ASSUME NEW v \in H, v # First
       PROVE  \E m \in Nat : m < NodeCount /\ chosen(v) \in NewLinks(E, seen[m])
  <2>1. chosen(v) \in f[NodeCount] /\ chosen(v)[1] = v
    BY <1>1, <1>16
  <2>2. chosen(v) # root
    <3>1. root[1] = First
      OBVIOUS
    <3> HIDE DEF root, chosen
    <3> QED  BY <1>17, <2>1, <3>1
  <2> QED  BY <1>8, <1>14, <2>1, <2>2
<1>18. ASSUME NEW v \in nodes, v \notin H PROVE Relinked(E, v, 2) = 0 /\ Relinked(E, v, 3) = 0
  BY <1>15, <1>18 DEF Relinked
<1>19. ASSUME NEW v \in H, NEW i PROVE Relinked(E, v, i) = chosen(v)[i]
  BY <1>15 DEF Relinked
<1>20. Relinked(E, First, 2) = 0 /\ Relinked(E, First, 3) = 0
  <2>1. chosen(First) \in f[NodeCount] /\ chosen(First)[1] = First
    BY <1>1, <1>10, <1>16
  <2>2. ASSUME NEW m \in Nat, chosen(First) \in NewLinks(E, seen[m]) PROVE FALSE
    <3>1. seen[0] \subseteq seen[m] /\ seen[m] \in SUBSET nodes
      BY <1>4, <1>7, EarlierIsSmaller
    <3>2. chosen(First)[1] \notin seen[m]
      BY <2>2, <3>1, LinkFacts
    <3> QED  BY <1>4, <2>1, <3>1, <3>2
  <2>3. chosen(First) = root
    BY <1>8, <1>14, <2>1, <2>2
  <2> QED  BY <1>10, <1>19, <2>3
<1>21. ASSUME NEW v \in H, v # First
       PROVE  \E m \in Nat : /\ m < NodeCount /\ Relinked(E, v, 2) \in seen[m] /\ v \notin seen[m]
                             /\ Relinked(E, v, 3) \in E
                             /\ Joins(Relinked(E, v, 3), v, Relinked(E, v, 2))
  <2>1. PICK m \in Nat : m < NodeCount /\ chosen(v) \in NewLinks(E, seen[m])
    BY <1>17, <1>21
  <2>2. seen[m] \in SUBSET nodes
    BY <1>4
  <2>3. PICK l : l = chosen(v)
    OBVIOUS
  <2>4. l[1] \notin seen[m] /\ l[2] \in seen[m] /\ l[3] \in E /\ Joins(l[3], l[1], l[2])
    BY <2>1, <2>2, <2>3, LinkFacts
  <2>5. l[1] = v /\ Relinked(E, v, 2) = l[2] /\ Relinked(E, v, 3) = l[3]
    BY <1>16, <1>19, <2>3
  <2> QED  BY <2>1, <2>4, <2>5
<1> HIDE DEF chosen, links
<1>22. ASSUME NEW S \in SUBSET nodes, First \in S, \A v \in nodes : Relinked(E, v, 2) \in S => v \in S
       PROVE  H \subseteq S
  <2> DEFINE good == {n \in Nat : n <= NodeCount => seen[n] \subseteq S}
  <2>1. 0 \in good
    BY <1>4, <1>22
  <2>2. ASSUME NEW n \in Nat, n \in good PROVE n + 1 \in good
    <3> SUFFICES ASSUME n + 1 <= NodeCount, NEW v \in seen[n + 1] PROVE v \in S
      OBVIOUS
    <3>1. seen[n] \subseteq S /\ v \in H /\ v \in nodes
      BY <1>8, <1>10, <1>11, <2>2
    <3>2. CASE v = First
      BY <1>22, <3>2
    <3>3. CASE v # First
      <4>1. PICK m \in Nat : m < NodeCount /\ Relinked(E, v, 2) \in seen[m] /\ v \notin seen[m]
        BY <1>21, <3>1, <3>3
      <4>2. m <= n
        <5>1. ASSUME n + 1 <= m PROVE FALSE
          <6>1. n + 1 \in Nat
            OBVIOUS
          <6>2. seen[n + 1] \subseteq seen[m]
            BY <1>7, <5>1, <6>1, EarlierIsSmaller
          <6> QED  BY <4>1, <6>2
        <5> QED  BY <5>1
      <4>3. seen[m] \subseteq seen[n]
        BY <1>7, <4>2, EarlierIsSmaller
      <4> QED  BY <1>22, <3>1, <4>1, <4>3
    <3> QED  BY <3>2, <3>3
  <2>3. Nat \subseteq good
    <3> HIDE DEF good
    <3> QED  BY <2>1, <2>2, Inductive
  <2> QED  BY <1>8, <2>3
<1>23. ASSUME NEW v \in H \ {First}
       PROVE  /\ Relinked(E, v, 2) \in H /\ Relinked(E, v, 2) # v
              /\ Relinked(E, v, 3) \in E /\ Joins(Relinked(E, v, 3), v, Relinked(E, v, 2))
  <2>1. PICK m \in Nat : /\ m < NodeCount /\ Relinked(E, v, 2) \in seen[m] /\ v \notin seen[m]
                         /\ Relinked(E, v, 3) \in E
                         /\ Joins(Relinked(E, v, 3), v, Relinked(E, v, 2))
    BY <1>21
  <2>2. seen[m] \subseteq H
    BY <1>8, <1>11, <2>1
  <2> QED  BY <2>1, <2>2
<1> HIDE DEF H
<1> QED  BY <1>10, <1>12, <1>13, <1>18, <1>20, <1>22, <1>23 DEF HangsBy
-----------------------------------------------------------------------------
(* The exchange of two tree edges.                                         *)

\* The leaving edge is one of the tree.
LEMMA LeavingFacts ==
  ASSUME NetworkOK, PivotInv, NegativeCuts # {}
  PROVE  Leaving \in nodes /\ parent[Leaving] # 0
<1>1. NegativeCuts \in SUBSET {v \in nodes : parent[v] # 0}
  BY DEF PivotInv, NegativeCuts
<1>2. NegativeCuts \in SUBSET Int /\ IsFiniteSet(NegativeCuts)
  <2>1. nodes \in SUBSET (Nat \ {0}) /\ IsFiniteSet(nodes)
    BY DEF NetworkOK
  <2>2. NegativeCuts \in SUBSET nodes
    BY <1>1
  <2>3. NegativeCuts \in SUBSET Int
    BY <2>1, <2>2
  <2> QED  BY <2>1, <2>2, <2>3, FS_Subset
<1>3. Leaving \in NegativeCuts
  BY <1>2, LeastInteger DEF Leaving
<1> QED  BY <1>1, <1>3

\* The part of the tree below a node is closed both ways but for its own edge.
LEMMA PartBelow ==
  ASSUME NetworkOK, TreeInv, NEW c \in nodes, parent[c] # 0
  PROVE  /\ Below(c) \in SUBSET nodes /\ c \in Below(c) /\ First \notin Below(c)
         /\ \A w \in nodes : parent[w] # 0 /\ w # c => (w \in Below(c) <=> parent[w] \in Below(c))
         /\ parent[c] \notin Below(c)
         /\ \A w \in Below(c) : parent[w] # 0
<1> DEFINE B == Below(c)
<1>1. /\ B \in SUBSET nodes /\ c \in B /\ DownClosed(B)
      /\ \A S \in SUBSET nodes : c \in S /\ DownClosed(S) => B \subseteq S
  BY BelowFacts
<1> HIDE DEF B
<1>2. First \in nodes /\ parent[First] = 0 /\ 0 \notin nodes
  BY RankNodesFacts DEF TreeInv, NetworkOK
<1>3. First \notin B
  <2> DEFINE S == nodes \ {First}
  <2>1. c \in S
    BY <1>2
  <2>2. DownClosed(S)
    BY <1>2 DEF DownClosed
  <2>3. B \subseteq S
    BY <1>1, <2>1, <2>2
  <2> QED  BY <2>3
<1>4. \A w \in B : w = c \/ parent[w] \in B
  <2> DEFINE S == {w \in B : w = c \/ parent[w] \in B}
  <2>1. c \in S /\ S \in SUBSET nodes
    BY <1>1
  <2>2. DownClosed(S)
    BY <1>1 DEF DownClosed
  <2>3. B \subseteq S
    BY <1>1, <2>1, <2>2
  <2> QED  BY <2>3
<1>5. ASSUME NEW w \in nodes, parent[w] # 0, w # c PROVE w \in B <=> parent[w] \in B
  BY <1>1, <1>4, <1>5 DEF DownClosed
<1>6. ASSUME NEW w \in B PROVE parent[w] # 0
  <2>1. CASE w = c
    BY <2>1
  <2>2. CASE w # c
    BY <1>1, <1>2, <1>4, <2>2
  <2> QED  BY <2>1, <2>2
<1>7. parent[c] \notin B
  <2> SUFFICES ASSUME parent[c] \in B PROVE FALSE
    OBVIOUS
  <2> DEFINE S == nodes \ B
  <2>1. First \in S /\ DownClosed(S)
    <3>1. ASSUME NEW w \in nodes, parent[w] \in S PROVE w \in S
      <4>1. parent[w] # 0 /\ parent[w] \notin B
        BY <1>2, <3>1
      <4>2. w # c
        BY <4>1
      <4> QED  BY <1>5, <4>1, <4>2
    <3> QED  BY <1>2, <1>3, <3>1 DEF DownClosed
  <2>2. Tree \subseteq S
    BY <2>1 DEF TreeInv, Rooted
  <2>3. c \in Tree
    BY DEF Tree
  <2> QED  BY <1>1, <2>2, <2>3
<1> QED  BY <1>1, <1>3, <1>5, <1>6, <1>7 DEF B

\* Each edge of the tree belongs to one node.
LEMMA ViaDiffers ==
  ASSUME NetworkOK, TreeInv, NEW u \in nodes, NEW v \in nodes, parent[u] # 0, parent[v] # 0,
         via[u] = via[v]
  PROVE  u = v
<1> SUFFICES ASSUME u # v PROVE FALSE
  OBVIOUS
<1>1. Joins(via[u], u, parent[u]) /\ Joins(via[u], v, parent[v])
  BY DEF TreeInv, HangsTight
<1>2. {u, parent[u]} = {v, parent[v]}
  BY <1>1 DEF Joins
<1>3. parent[u] = v /\ parent[v] = u
  BY <1>2
<1>4. u \in Below(v) /\ u # v /\ parent[v] \notin Below(v)
  <2>1. v \in Below(v) /\ (u \in Below(v) <=> parent[u] \in Below(v)) /\ parent[v] \notin Below(v)
    BY PartBelow
  <2> QED  BY <1>3, <2>1
<1> QED  BY <1>3, <1>4

\* The edge chosen to enter has least slack among those that cross the cut against the
\* leaving one.
Against(k) ==
  LET below == Below(Leaving)
  IN  IF Target(via[Leaving]) = Leaving
      THEN Source(k) \in below /\ Target(k) \notin below
      ELSE Source(k) \notin below /\ Target(k) \in below

\* enter_edge finds an edge of least slack that crosses the cut against the leaving edge.
LEMMA ChosenFacts ==
  ASSUME NetworkOK, rank \in [nodes -> Int], Entering # {}
  PROVE  /\ Chosen \in Positions /\ Chosen \notin {via[v] : v \in nodes} /\ Against(Chosen)
         /\ \A k \in Positions \ {via[v] : v \in nodes} : Against(k) => Slack(Chosen) <= Slack(k)
<1> DEFINE P(k) == \A j \in Entering : Slack(k) < Slack(j) \/ (Slack(k) = Slack(j) /\ k <= j)
<1>1. Entering = {k \in Positions \ {via[v] : v \in nodes} : Against(k)}
  <2>1. ASSUME NEW k PROVE (/\ (Source(k) \in Below(Leaving)) = (Target(via[Leaving]) = Leaving)
                            /\ (Target(k) \in Below(Leaving)) # (Target(via[Leaving]) = Leaving))
                           <=> Against(k)
    BY DEF Against
  <2> QED  BY <2>1 DEF Entering
<1>2. Entering \in SUBSET Positions
  BY <1>1
<1>3. \E k \in Entering : P(k)
  BY <1>2, LeastSlackExists
<1>4. Chosen = CHOOSE k \in Entering : P(k)
  BY DEF Chosen
<1>5. Chosen \in Entering /\ P(Chosen)
  BY <1>3, <1>4
<1>6. \A j \in Entering : Slack(j) \in Int
  BY <1>2, SlackIsInt
<1>7. PICK m : m = Chosen
  OBVIOUS
<1>8. m \in Entering /\ \A j \in Entering : Slack(m) < Slack(j) \/ (Slack(m) = Slack(j) /\ m <= j)
  BY <1>5, <1>7
<1>9. \A j \in Entering : Slack(m) <= Slack(j)
  BY <1>6, <1>8
<1> QED  BY <1>1, <1>7, <1>8, <1>9

TreeEdges == ({via[v] : v \in nodes} \ {0, via[Leaving]}) \union {Chosen}

\* The edges of the tree after the exchange.
LEMMA TreeEdgesFacts ==
  ASSUME NetworkOK, PivotInv, NegativeCuts # {}, rank \in [nodes -> Int], Entering # {}
  PROVE  /\ TreeEdges \in SUBSET Positions
         /\ \A v \in nodes : parent[v] # 0 /\ v # Leaving => via[v] \in TreeEdges
         /\ \A k \in TreeEdges : k = Chosen \/ \E v \in nodes : parent[v] # 0 /\ v # Leaving /\ k = via[v]
<1>1. TreeInv /\ Leaving \in nodes /\ parent[Leaving] # 0
  BY LeavingFacts DEF PivotInv
<1>2. Chosen \in Positions
  BY ChosenFacts
<1>3. 0 \notin Positions
  BY DEF NetworkOK, Positions
<1>4. \A v \in nodes : IF parent[v] = 0 THEN via[v] = 0 ELSE via[v] \in Positions /\ via[v] # 0
  BY <1>1, <1>3 DEF TreeInv, HangsTight
<1>5. \A v \in nodes : parent[v] # 0 /\ v # Leaving => via[v] # via[Leaving]
  BY <1>1, ViaDiffers
<1> QED  BY <1>1, <1>2, <1>4, <1>5 DEF TreeEdges

\* The exchange leaves out no node of the tree.
LEMMA ExchangeReachesAll ==
  ASSUME NetworkOK, PivotInv, NegativeCuts # {}, rank \in [nodes -> Int], Entering # {},
         NEW H, HangsBy(TreeEdges, H)
  PROVE  H = Tree
<1> DEFINE c == Leaving
           B == Below(c)
           E == TreeEdges
<1>1. TreeInv /\ c \in nodes /\ parent[c] # 0
  BY LeavingFacts DEF PivotInv
<1>2. /\ B \in SUBSET nodes /\ c \in B /\ First \notin B
      /\ \A w \in nodes : parent[w] # 0 /\ w # c => (w \in B <=> parent[w] \in B)
      /\ \A w \in B : parent[w] # 0
  BY <1>1, PartBelow
<1>3. /\ E \in SUBSET Positions
      /\ \A v \in nodes : parent[v] # 0 /\ v # c => via[v] \in E
  BY TreeEdgesFacts
<1>4. /\ H \in SUBSET nodes /\ First \in H
      /\ \A k \in E : edges[k].from \in H <=> edges[k].to \in H
      /\ \A T \in SUBSET nodes : First \in T /\ (\A k \in E : edges[k].from \in T <=> edges[k].to \in T)
                                   => H \subseteq T
  BY DEF HangsBy
<1>5. First \in nodes /\ 0 \notin nodes
  BY <1>1, RankNodesFacts DEF TreeInv, NetworkOK
<1>6. Tree \in SUBSET nodes /\ First \in Tree
  BY <1>5 DEF Tree
<1>7. H \subseteq Tree
  BY <1>3, <1>4, <1>6 DEF PivotInv
<1>8. \A S \in SUBSET nodes : First \in S /\ DownClosed(S) => Tree \subseteq S
  BY <1>1 DEF TreeInv, Rooted
<1>9. \A S \in SUBSET nodes : c \in S /\ DownClosed(S) => B \subseteq S
  BY <1>1, BelowFacts
<1>10. DownClosed(B)
  BY <1>1, BelowFacts
<1>11. Chosen \in E /\ Chosen \in Positions /\ Against(Chosen)
  BY ChosenFacts DEF TreeEdges
<1> HIDE DEF B, E, c
<1>12. ASSUME NEW w \in nodes, parent[w] # 0, w # c PROVE w \in H <=> parent[w] \in H
  <2>1. via[w] \in E /\ Joins(via[w], w, parent[w])
    BY <1>1, <1>3, <1>12 DEF TreeInv, HangsTight
  <2>2. {edges[via[w]].from, edges[via[w]].to} = {w, parent[w]}
    BY <2>1 DEF Joins
  <2>3. edges[via[w]].from \in H <=> edges[via[w]].to \in H
    BY <1>4, <2>1
  <2> QED  BY <2>2, <2>3
\* The upper part hangs as before.
<1>13. Tree \subseteq H \union B
  <2> DEFINE S == H \union B
  <2>1. S \in SUBSET nodes /\ First \in S
    BY <1>2, <1>4
  <2>2. ASSUME NEW w \in nodes, parent[w] \in S PROVE w \in S
    <3>1. parent[w] # 0
      BY <1>2, <1>4, <1>5, <2>2
    <3>2. CASE w = c
      BY <1>2, <3>2
    <3>3. CASE w # c
      BY <1>2, <1>12, <2>2, <3>1, <3>3
    <3> QED  BY <3>2, <3>3
  <2>3. DownClosed(S)
    BY <2>2 DEF DownClosed
  <2> QED  BY <1>8, <2>1, <2>3
\* The new edge leads to the lower part.
<1>14. PICK x \in B : x \in H
  <2>1. \/ Source(Chosen) \in B /\ Target(Chosen) \notin B
        \/ Source(Chosen) \notin B /\ Target(Chosen) \in B
    BY <1>11 DEF Against, B, c
  <2>2. {edges[Chosen].from, edges[Chosen].to} = {Source(Chosen), Target(Chosen)}
    BY <1>11, EdgesJoinNodes
  <2>3. Source(Chosen) \in Tree <=> Target(Chosen) \in Tree
    BY <1>11, <2>2 DEF PivotInv, Source, Target
  <2>4. Source(Chosen) \in H <=> Target(Chosen) \in H
    BY <1>4, <1>11, <2>2 DEF Source, Target
  <2>5. B \subseteq Tree
    BY <1>2 DEF Tree
  <2> QED  BY <1>13, <2>1, <2>3, <2>4, <2>5
<1>15. x \in Tree
  BY <1>2 DEF Tree
<1>16. c \in H
  <2> SUFFICES ASSUME c \notin H PROVE FALSE
    OBVIOUS
  <2> DEFINE S == nodes \ (B \intersect H)
  <2>1. S \in SUBSET nodes /\ First \in S
    BY <1>2, <1>5
  <2>2. ASSUME NEW w \in nodes, parent[w] \in S PROVE w \in S
    <3>1. parent[w] # 0
      BY <1>5, <2>2
    <3>2. CASE w = c
      BY <3>2
    <3>3. CASE w # c
      BY <1>2, <1>12, <2>2, <3>1, <3>3
    <3> QED  BY <3>2, <3>3
  <2>3. DownClosed(S)
    BY <2>2 DEF DownClosed
  <2>4. Tree \subseteq S
    BY <1>8, <2>1, <2>3
  <2> QED  BY <1>14, <1>15, <2>4
<1>17. B \subseteq H
  <2> DEFINE S == B \intersect H
  <2>1. S \in SUBSET nodes /\ c \in S
    BY <1>2, <1>16
  <2>2. ASSUME NEW w \in nodes, parent[w] \in S PROVE w \in S
    <3>1. parent[w] # 0 /\ w \in B
      BY <1>2, <1>5, <1>10, <2>2 DEF DownClosed
    <3>2. CASE w = c
      BY <1>16, <3>1, <3>2
    <3>3. CASE w # c
      BY <1>12, <2>2, <3>1, <3>3
    <3> QED  BY <3>2, <3>3
  <2>3. DownClosed(S)
    BY <2>2 DEF DownClosed
  <2> QED  BY <1>9, <2>1, <2>3
<1> QED  BY <1>7, <1>13, <1>17

\* The ranks after the exchange: the part below moves until the new edge is tight.
Shifted ==
  Moved(Below(Leaving), IF Target(via[Leaving]) = Leaving THEN Slack(Chosen) ELSE -Slack(Chosen))

\* Moving one side of the cut makes the entering edge tight and keeps every edge long enough.
LEMMA ShiftedFacts ==
  ASSUME NetworkOK, PivotInv, NegativeCuts # {}, rank \in [nodes -> Int], Entering # {}
  PROVE  /\ Shifted \in [nodes -> Int]
         /\ \A k \in TreeEdges : SlackIn(Shifted, k) = 0
         /\ Feasible => \A k \in Positions : SlackIn(Shifted, k) >= 0
         /\ \A v \in nodes : parent[v] = 0 => Shifted[v] = rank[v]
<1> DEFINE c == Leaving
           B == Below(c)
           childIsHead == Target(via[c]) = c
           m == Chosen
           d == IF childIsHead THEN Slack(m) ELSE -Slack(m)
<1>1. TreeInv /\ c \in nodes /\ parent[c] # 0
  BY LeavingFacts DEF PivotInv
<1>2. /\ B \in SUBSET nodes /\ c \in B /\ parent[c] \notin B
      /\ \A w \in nodes : parent[w] # 0 /\ w # c => (w \in B <=> parent[w] \in B)
      /\ \A w \in B : parent[w] # 0
  BY <1>1, PartBelow
<1>3. /\ m \in Positions /\ m \notin {via[v] : v \in nodes} /\ Against(m)
      /\ \A k \in Positions \ {via[v] : v \in nodes} : Against(k) => Slack(m) <= Slack(k)
  BY ChosenFacts
<1>4. /\ TreeEdges \in SUBSET Positions
      /\ \A k \in TreeEdges : k = m \/ \E v \in nodes : parent[v] # 0 /\ v # c /\ k = via[v]
  BY TreeEdgesFacts
<1>5. Slack(m) \in Int /\ d \in Int
  <2>1. Slack(m) \in Int
    BY <1>3, SlackIsInt
  <2> QED  BY <2>1
<1>6. Shifted = Moved(B, d)
  BY DEF Shifted
<1>7. \A k : Against(k) <=> IF childIsHead THEN Source(k) \in B /\ Target(k) \notin B
                                           ELSE Source(k) \notin B /\ Target(k) \in B
  BY DEF Against
\* A tree edge but the leaving one has both ends below the cut, or none.
<1>8. ASSUME NEW v \in nodes, parent[v] # 0
      PROVE  /\ via[v] \in Positions /\ Slack(via[v]) = 0
             /\ {Source(via[v]), Target(via[v])} = {v, parent[v]}
  <2>1. via[v] \in Positions /\ Slack(via[v]) = 0 /\ Joins(via[v], v, parent[v])
    BY <1>1, <1>8 DEF TreeInv, HangsTight
  <2> QED  BY <2>1, EdgesJoinNodes DEF Joins
<1> HIDE DEF B, c, m, d, childIsHead
<1>9. ASSUME NEW k \in TreeEdges PROVE SlackIn(Shifted, k) = 0
  <2>1. CASE k = m
    <3>1. CASE childIsHead
      <4>1. Source(k) \in B /\ Target(k) \notin B /\ d = Slack(k)
        BY <1>3, <1>7, <2>1, <3>1 DEF d
      <4>2. SlackIn(Shifted, k) = Slack(k) - d
        BY <1>3, <1>5, <1>6, <2>1, <4>1, MovedSlack
      <4> QED  BY <1>5, <2>1, <4>1, <4>2
    <3>2. CASE ~childIsHead
      <4>1. Source(k) \notin B /\ Target(k) \in B /\ d = -Slack(k)
        BY <1>3, <1>7, <2>1, <3>2 DEF d
      <4>2. SlackIn(Shifted, k) = Slack(k) + d
        BY <1>3, <1>5, <1>6, <2>1, <4>1, MovedSlack
      <4> QED  BY <1>5, <2>1, <4>1, <4>2
    <3> QED  BY <3>1, <3>2
  <2>2. CASE k # m
    <3>1. PICK v \in nodes : parent[v] # 0 /\ v # c /\ k = via[v]
      BY <1>4, <2>2
    <3>2. k \in Positions /\ Slack(k) = 0 /\ {Source(k), Target(k)} = {v, parent[v]}
      BY <1>8, <3>1
    <3>3. Source(k) \in B <=> Target(k) \in B
      BY <1>2, <3>1, <3>2
    <3> QED  BY <1>5, <1>6, <3>2, <3>3, MovedSlack
  <2> QED  BY <2>1, <2>2
<1>10. ASSUME Feasible, NEW k \in Positions PROVE SlackIn(Shifted, k) >= 0
  <2>1. Slack(k) \in Int /\ Slack(k) >= 0 /\ Slack(m) >= 0
    BY <1>3, <1>10, SlackIsInt DEF Feasible
  <2>2. CASE Source(k) \in B <=> Target(k) \in B
    BY <1>5, <1>6, <2>1, <2>2, MovedSlack
  <2>3. CASE Source(k) \in B /\ Target(k) \notin B
    <3>1. SlackIn(Shifted, k) = Slack(k) - d
      BY <1>5, <1>6, <2>3, MovedSlack
    <3>2. CASE ~childIsHead
      BY <1>5, <2>1, <3>1, <3>2 DEF d
    <3>3. CASE childIsHead
      <4>1. k \notin {via[v] : v \in nodes}
        <5> SUFFICES ASSUME NEW v \in nodes, k = via[v] PROVE FALSE
          OBVIOUS
        <5>1. parent[v] # 0
          <6>1. via[v] # 0
            BY DEF NetworkOK, Positions
          <6> QED  BY <1>1, <6>1 DEF TreeInv
        <5>2. {Source(k), Target(k)} = {v, parent[v]}
          BY <1>8, <5>1
        <5>3. v = c
          BY <1>2, <2>3, <5>1, <5>2
        <5>4. Target(k) = c
          BY <3>3, <5>3 DEF childIsHead
        <5> QED  BY <1>2, <2>3, <5>4
      <4>2. Slack(m) <= Slack(k)
        BY <1>3, <1>7, <2>3, <3>3, <4>1
      <4> QED  BY <1>5, <2>1, <3>1, <3>3, <4>2 DEF d
    <3> QED  BY <3>2, <3>3
  <2>4. CASE Source(k) \notin B /\ Target(k) \in B
    <3>1. SlackIn(Shifted, k) = Slack(k) + d
      BY <1>5, <1>6, <2>4, MovedSlack
    <3>2. CASE childIsHead
      BY <1>5, <2>1, <3>1, <3>2 DEF d
    <3>3. CASE ~childIsHead
      <4>1. k \notin {via[v] : v \in nodes}
        <5> SUFFICES ASSUME NEW v \in nodes, k = via[v] PROVE FALSE
          OBVIOUS
        <5>1. parent[v] # 0
          <6>1. via[v] # 0
            BY DEF NetworkOK, Positions
          <6> QED  BY <1>1, <6>1 DEF TreeInv
        <5>2. {Source(k), Target(k)} = {v, parent[v]}
          BY <1>8, <5>1
        <5>3. v = c
          BY <1>2, <2>4, <5>1, <5>2
        <5>4. Target(k) # c
          BY <3>3, <5>3 DEF childIsHead
        <5> QED  BY <1>2, <2>4, <5>2, <5>3, <5>4
      <4>2. Slack(m) <= Slack(k)
        BY <1>3, <1>7, <2>4, <3>3, <4>1
      <4> QED  BY <1>5, <2>1, <3>1, <3>3, <4>2 DEF d
    <3> QED  BY <3>2, <3>3
  <2> QED  BY <2>2, <2>3, <2>4
<1>11. Shifted \in [nodes -> Int]
  BY <1>3, <1>5, <1>6, MovedSlack
<1>12. ASSUME NEW v \in nodes, parent[v] = 0 PROVE Shifted[v] = rank[v]
  BY <1>2, <1>6, <1>12 DEF Moved
<1> QED  BY <1>9, <1>10, <1>11, <1>12

\* update_ranks finds the shifted ranks.
LEMMA TightRanksShift ==
  ASSUME NetworkOK, PivotInv, NegativeCuts # {}, rank \in [nodes -> Int], Entering # {},
         NEW up, NEW edgeUp,
         up = [v \in nodes |-> Relinked(TreeEdges, v, 2)],
         edgeUp = [v \in nodes |-> Relinked(TreeEdges, v, 3)]
  PROVE  TightRanks(up, edgeUp) = Shifted
<1> DEFINE body(f, v) == IF up[v] = 0 THEN rank[v]
                         ELSE IF Source(edgeUp[v]) = v
                              THEN f[up[v]] - minlen[edgeUp[v]]
                              ELSE f[up[v]] + minlen[edgeUp[v]]
           B(f) == f = [v \in nodes |-> IF up[v] = 0 THEN rank[v]
                                        ELSE IF Source(edgeUp[v]) = v
                                             THEN f[up[v]] - minlen[edgeUp[v]]
                                             ELSE f[up[v]] + minlen[edgeUp[v]]]
           g == CHOOSE f : B(f)
           E == TreeEdges
<1>1. First \in nodes /\ 0 \notin nodes /\ TreeInv
  BY RankNodesFacts DEF PivotInv, TreeInv, NetworkOK
<1>2. E \in SUBSET Positions
  BY TreeEdgesFacts
<1>3. PICK H : HangsBy(E, H)
  BY <1>1, <1>2, HungHangs
<1>4. H = Tree
  BY <1>3, ExchangeReachesAll
<1>5. /\ Shifted \in [nodes -> Int]
      /\ \A k \in E : SlackIn(Shifted, k) = 0
      /\ \A v \in nodes : parent[v] = 0 => Shifted[v] = rank[v]
  BY ShiftedFacts
<1>6. \A v \in nodes : up[v] = Relinked(E, v, 2) /\ edgeUp[v] = Relinked(E, v, 3)
  OBVIOUS
<1> HIDE DEF E
<1>7. ASSUME NEW v \in nodes, up[v] = 0 PROVE Shifted[v] = rank[v]
  <2>1. v \notin H \ {First}
    BY <1>1, <1>3, <1>6, <1>7 DEF HangsBy
  <2>2. parent[v] = 0
    BY <1>1, <1>4, <2>1 DEF Tree, TreeInv
  <2> QED  BY <1>5, <2>2
<1>8. ASSUME NEW v \in nodes, up[v] # 0
      PROVE  /\ up[v] \in nodes /\ edgeUp[v] \in E /\ v \in H
             /\ Shifted[v] = IF Source(edgeUp[v]) = v
                             THEN Shifted[up[v]] - minlen[edgeUp[v]]
                             ELSE Shifted[up[v]] + minlen[edgeUp[v]]
  <2>1. v \in H \ {First}
    BY <1>3, <1>6, <1>8 DEF HangsBy
  <2>2. /\ up[v] \in nodes /\ up[v] # v /\ edgeUp[v] \in E /\ Joins(edgeUp[v], v, up[v])
    BY <1>3, <1>6, <2>1 DEF HangsBy
  <2>3. edgeUp[v] \in Positions /\ minlen[edgeUp[v]] \in Int
    BY <1>2, <2>2, EdgesJoinNodes
  <2>4. {Source(edgeUp[v]), Target(edgeUp[v])} = {v, up[v]}
    BY <2>2, <2>3, EdgesJoinNodes DEF Joins
  <2>5. SlackIn(Shifted, edgeUp[v]) = 0
    BY <1>5, <2>2
  <2>6. Shifted[v] \in Int /\ Shifted[up[v]] \in Int
    BY <1>5, <2>2
  <2>7. CASE Source(edgeUp[v]) = v
    <3>1. Target(edgeUp[v]) = up[v]
      BY <2>2, <2>4, <2>7
    <3>2. Shifted[up[v]] - Shifted[v] - minlen[edgeUp[v]] = 0
      BY <2>5, <2>7, <3>1 DEF SlackIn
    <3>3. Shifted[v] = Shifted[up[v]] - minlen[edgeUp[v]]
      BY <2>3, <2>6, <3>2
    <3> QED  BY <2>1, <2>2, <2>7, <3>3
  <2>8. CASE Source(edgeUp[v]) # v
    <3>1. Source(edgeUp[v]) = up[v] /\ Target(edgeUp[v]) = v
      BY <2>2, <2>4, <2>8
    <3>2. Shifted[v] - Shifted[up[v]] - minlen[edgeUp[v]] = 0
      BY <2>5, <3>1 DEF SlackIn
    <3>3. Shifted[v] = Shifted[up[v]] + minlen[edgeUp[v]]
      BY <2>3, <2>6, <3>2
    <3> QED  BY <2>1, <2>2, <2>8, <3>3
  <2> QED  BY <2>7, <2>8
<1>9. B(Shifted)
  <2>1. \A v \in nodes : Shifted[v] = body(Shifted, v)
    BY <1>7, <1>8
  <2>2. Shifted = [v \in nodes |-> Shifted[v]]
    BY <1>5
  <2>3. Shifted = [v \in nodes |-> body(Shifted, v)]
    <3> HIDE DEF body
    <3> QED  BY <2>1, <2>2
  <2> QED  BY <2>3
<1>10. B(g)
  <2> HIDE DEF B
  <2> QED  BY <1>9
<1>11. TightRanks(up, edgeUp) = g
  BY DEF TightRanks
<1> HIDE DEF g
<1>12. DOMAIN g = nodes /\ \A v \in nodes : g[v] = body(g, v)
  BY <1>10
<1> DEFINE S == {v \in nodes : g[v] = Shifted[v]}
<1>13. First \in S
  <2>1. up[First] = 0
    BY <1>1, <1>3, <1>6 DEF HangsBy
  <2> QED  BY <1>1, <1>7, <1>12, <2>1
<1>14. \A v \in nodes : up[v] \in S => v \in S
  <2> SUFFICES ASSUME NEW v \in nodes, up[v] \in S PROVE v \in S
    OBVIOUS
  <2>1. up[v] # 0 /\ g[up[v]] = Shifted[up[v]]
    BY <1>1
  <2> QED  BY <1>8, <1>12, <2>1
<1>15. H \subseteq S
  <2>1. S \in SUBSET nodes
    OBVIOUS
  <2> HIDE DEF S
  <2> QED  BY <1>3, <1>6, <1>13, <1>14, <2>1 DEF HangsBy
<1>16. \A v \in nodes : g[v] = Shifted[v]
  <2> SUFFICES ASSUME NEW v \in nodes PROVE g[v] = Shifted[v]
    OBVIOUS
  <2>1. CASE up[v] = 0
    BY <1>7, <1>12, <2>1
  <2>2. CASE up[v] # 0
    BY <1>8, <1>15, <2>2
  <2> QED  BY <2>1, <2>2
<1>17. g = Shifted
  <2>1. g = [v \in nodes |-> g[v]] /\ Shifted = [v \in nodes |-> Shifted[v]]
    BY <1>5, <1>10
  <2> HIDE DEF B
  <2> QED  BY <1>16, <2>1
<1> QED  BY <1>11, <1>17

\* The pivot loop.
LEMMA PivotKeeps ==
  ASSUME NetworkOK, RanksInv, Pivot
  PROVE  RanksInv' /\ NetworkOK' /\ phase' = "pivot"
<1>1. /\ NetworkUnchanged /\ phase = "pivot" /\ NegativeCuts # {} /\ Entering # {}
      /\ UNCHANGED <<missed, inTree>> /\ phase' = "pivot"
  BY DEF Pivot, CanPivot, NetworkUnchanged
<1>2. /\ NetworkOK' /\ Positions' = Positions /\ RankNodes' = RankNodes /\ First' = First
      /\ nodes' = nodes /\ \A k : Source(k)' = Source(k) /\ Target(k)' = Target(k)
      /\ minlen' = minlen /\ EdgeCount' = EdgeCount /\ edges' = edges
      /\ \A k, u, w : Joins(k, u, w)' = Joins(k, u, w)
  BY <1>1, NetworkStays
<1>3. /\ PivotInv /\ TreeInv /\ rank \in [nodes -> Int] /\ (missed = {} => Feasible)
      /\ EdgeCount > 0
  BY <1>1 DEF RanksInv, PivotInv
<1> DEFINE E == TreeEdges
           up == [v \in nodes |-> Relinked(E, v, 2)]
           edgeUp == [v \in nodes |-> Relinked(E, v, 3)]
<1>4. /\ parent' = up /\ via' = edgeUp /\ rank' = TightRanks(up, edgeUp)
      /\ cuts' = CutValues(up, edgeUp)
  BY DEF Pivot, Relinked, TreeEdges
<1>5. rank' = Shifted
  <2> HIDE DEF E
  <2>1. TightRanks(up, edgeUp) = Shifted
    BY <1>1, <1>3, TightRanksShift DEF E
  <2> QED  BY <1>4, <2>1
<1>6. First \in nodes /\ 0 \notin nodes /\ First \in RankNodes
  BY <1>3, RankNodesFacts DEF TreeInv, NetworkOK
<1>7. E \in SUBSET Positions
  BY <1>1, <1>3, TreeEdgesFacts
<1>8. PICK H : HangsBy(E, H)
  BY <1>6, <1>7, HungHangs
<1>9. H = Tree
  BY <1>1, <1>3, <1>8, ExchangeReachesAll
<1>10. /\ Shifted \in [nodes -> Int]
       /\ \A k \in E : SlackIn(Shifted, k) = 0
       /\ Feasible => \A k \in Positions : SlackIn(Shifted, k) >= 0
  BY <1>1, <1>3, ShiftedFacts
<1> HIDE DEF E
<1>11. \A v \in nodes : parent'[v] = Relinked(E, v, 2) /\ via'[v] = Relinked(E, v, 3)
  BY <1>4
<1>12. Feasible => Feasible'
  BY <1>2, <1>5, <1>10 DEF Feasible, Slack, SlackIn
<1>13. \A v \in nodes : parent'[v] # 0 <=> v \in H \ {First}
  BY <1>6, <1>8, <1>11 DEF HangsBy
<1>14. Tree' = Tree
  <2>1. Tree' = {v \in nodes : v = First \/ parent'[v] # 0}
    BY <1>2 DEF Tree
  <2>2. First \in H /\ H \in SUBSET nodes
    BY <1>8 DEF HangsBy
  <2>3. \A v \in nodes : (v = First \/ parent'[v] # 0) <=> v \in H
    BY <1>13, <2>2
  <2> QED  BY <1>9, <2>1, <2>2, <2>3
<1>15. ASSUME NEW v \in nodes, parent'[v] # 0 PROVE HangsTight(v)'
  <2>1. v \in H \ {First}
    BY <1>13, <1>15
  <2>2. parent'[v] \in H /\ via'[v] \in E /\ Joins(via'[v], v, parent'[v])
    BY <1>8, <1>11, <2>1 DEF HangsBy
  <2>3. Joins(via[v], v, parent[v])'
    BY <1>2, <2>2 DEF Joins
  <2>4. Slack(via[v])' = 0
    <3>1. SlackIn(Shifted, via'[v]) = 0
      BY <1>10, <2>2
    <3>2. Slack(via[v])' = SlackIn(Shifted, via'[v])
      BY <1>2, <1>5 DEF Slack, SlackIn
    <3> QED  BY <3>1, <3>2
  <2> QED  BY <1>2, <1>7, <1>9, <1>14, <2>2, <2>3, <2>4 DEF HangsTight
<1>16. Rooted'
  <2> SUFFICES ASSUME NEW S \in SUBSET nodes, First \in S, \A w \in nodes : parent'[w] \in S => w \in S
               PROVE  Tree' \subseteq S
    BY <1>2 DEF Rooted, DownClosed
  <2>1. H \subseteq S
    BY <1>8, <1>11 DEF HangsBy
  <2> QED  BY <1>9, <1>14, <2>1
<1>17. TreeInv'
  <2>1. parent' \in [nodes -> nodes \union {0}]
    <3>1. \A v \in nodes : Relinked(E, v, 2) \in nodes \union {0}
      BY <1>8 DEF HangsBy
    <3> QED  BY <1>4, <3>1
  <2>2. parent'[First] = 0
    BY <1>6, <1>13
  <2>3. \A v \in nodes : parent'[v] = 0 => via'[v] = 0
    <3>1. ASSUME NEW v \in nodes, parent'[v] = 0 PROVE via'[v] = 0
      <4>1. v \notin H \/ v = First
        BY <1>13, <3>1
      <4> QED  BY <1>8, <1>11, <4>1 DEF HangsBy
    <3> QED  BY <3>1
  <2>4. Tree' \subseteq RankNodes
    BY <1>3, <1>14 DEF TreeInv
  <2>5. via' \in [nodes -> Positions \union {0}]
    <3>1. \A v \in nodes : parent'[v] # 0 => via'[v] \in Positions
      BY <1>2, <1>15 DEF HangsTight
    <3>2. \A v \in nodes : via'[v] \in Positions \union {0}
      BY <2>3, <3>1
    <3> HIDE DEF up
    <3> QED  BY <1>4, <3>2
  <2> QED  BY <1>2, <1>6, <1>15, <1>16, <2>1, <2>2, <2>3, <2>4, <2>5 DEF TreeInv
<1>18. DOMAIN cuts' = {v \in nodes : parent'[v] # 0}
  <2>1. DOMAIN cuts' = {v \in nodes : up[v] # 0}
    BY <1>4 DEF CutValues
  <2> QED  BY <1>4, <2>1
<1>19. PivotInv'
  <2>1. inTree = RankNodes /\ \A k \in Positions : edges[k].from \in Tree <=> edges[k].to \in Tree
    BY <1>3 DEF PivotInv
  <2> QED  BY <1>1, <1>2, <1>14, <1>17, <1>18, <2>1 DEF PivotInv
<1> QED  BY <1>1, <1>2, <1>3, <1>5, <1>10, <1>12, <1>19 DEF RanksInv

\* Normalizing moves all nodes alike.
LEMMA NormalizedFacts ==
  ASSUME NetworkOK, rank \in [nodes -> Int], NEW P \in SUBSET nodes, P # {}
  PROVE  /\ Normalized(rank, P) \in [nodes -> Int]
         /\ \A k \in Positions : SlackIn(Normalized(rank, P), k) = Slack(k)
<1> DEFINE lowest == Min({rank[v] : v \in P})
<1>1. lowest \in Int
  BY ValuesOfRanks
<1>2. Normalized(rank, P) = [v \in nodes |-> rank[v] - lowest]
  BY DEF Normalized
<1> HIDE DEF lowest
<1>3. Normalized(rank, P) \in [nodes -> Int]
  BY <1>1, <1>2
<1>4. ASSUME NEW k \in Positions PROVE SlackIn(Normalized(rank, P), k) = Slack(k)
  <2>1. Source(k) \in nodes /\ Target(k) \in nodes /\ minlen[k] \in Int
    BY EdgesJoinNodes
  <2>2. rank[Source(k)] \in Int /\ rank[Target(k)] \in Int
    BY <2>1
  <2> QED  BY <1>1, <1>2, <2>1, <2>2 DEF SlackIn, Slack
<1> QED  BY <1>3, <1>4

\* The end of run_with_policy, where the ranks are normalised.
LEMMA FinishRanksKeeps ==
  ASSUME NetworkOK, unplaced = {}, RanksInv, FinishRanks
  PROVE  RanksInv' /\ NetworkOK' /\ phase' = "ranked"
<1>1. /\ NetworkUnchanged /\ phase = "pivot" /\ UNCHANGED missed /\ phase' = "ranked"
      /\ rank' = IF config.dfsOnly THEN rank ELSE Normalized(rank, PositionNodes)
  BY DEF FinishRanks, NetworkUnchanged
<1>2. /\ NetworkOK' /\ Positions' = Positions
      /\ nodes' = nodes /\ \A k : Source(k)' = Source(k) /\ Target(k)' = Target(k)
      /\ minlen' = minlen /\ edges' = edges
  BY <1>1, NetworkStays
<1>3. rank \in [nodes -> Int] /\ (missed = {} => Feasible) /\ EdgeCount > 0
  BY <1>1 DEF RanksInv
<1>4. PositionNodes \in SUBSET nodes /\ PositionNodes # {}
  <2>1. 1 \in Positions
    BY <1>3 DEF NetworkOK, Positions, EdgeCount
  <2>2. edges[1].from \in nodes \ Compounds
    BY <2>1, EdgesJoinNodes
  <2> QED  BY <2>2 DEF PositionNodes
<1>5. rank' \in [nodes -> Int] /\ \A k \in Positions : SlackIn(rank', k) = Slack(k)
  <2>1. CASE config.dfsOnly
    BY <1>1, <1>3, <2>1 DEF SlackIn, Slack
  <2>2. CASE ~config.dfsOnly
    BY <1>1, <1>3, <1>4, <2>2, NormalizedFacts
  <2> QED  BY <2>1, <2>2
<1>6. Feasible => Feasible'
  BY <1>2, <1>5 DEF Feasible, Slack, SlackIn
<1> QED  BY <1>1, <1>2, <1>3, <1>5, <1>6 DEF RanksInv
=============================================================================
