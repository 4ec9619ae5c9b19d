--------------------------- MODULE OrderingProofs ---------------------------
(***************************************************************************)
(* The order of the nodes on their ranks, for every graph in which no      *)
(* three compounds stand abreast in one parent.                            *)
(*                                                                         *)
(* While ranks are sorted and neighbours switched, the places on a rank    *)
(* without strays are 0, 1, 2 and so on, each taken once.  Once a sweep    *)
(* has passed, every frame is drawn around its own nodes and nothing else, *)
(* and keeps to its side of its neighbours.  And a switch that changes the *)
(* order leaves fewer crossings in the whole drawing.                      *)
(*                                                                         *)
(* The argument, from the inside out: sort_entries lays out every entry    *)
(* once and whole (InterleavedEntries); with two compounds abreast there   *)
(* is one constraint at most between the children of a compound, and       *)
(* resolve_conflicts merges two entries or none (ResolvedOne); so          *)
(* sort_subgraph lists what stands in a compound between its border nodes  *)
(* (SortedOne), by induction over the nesting (AllSubSorted); the          *)
(* constraints noted of a rank are the order of its compounds              *)
(* (MatesPaired), which the ranks that follow keep.  Exchanging two        *)
(* neighbours changes no crossing but those of the links of one with the   *)
(* links of the other (WrongSplits), and these are what greedy_switch      *)
(* compares.  LayoutIInv puts this together with what the phases before    *)
(* leave: the shape of the graph (ShapeAdded) and of its layers            *)
(* (LayersAdded), and ranks from zero on (FromZero), without which a link  *)
(* could end outside every layer.                                          *)
(***************************************************************************)
EXTENDS Layout, LayeringProofs

-----------------------------------------------------------------------------
(* sort_entries: what it is given, and how it interleaves lists.           *)

\* The sums of the fields of entries, and of the places across.
LEMMA EntrySums ==
  ASSUME NEW E, IsFiniteSet(E), \A e \in E : e.sum \in Int /\ e.weight \in Nat
  PROVE  Sums(E) \in Int /\ Weights(E) \in Nat
<1>1. Sums(E) \in Int
  <2> DEFINE f == [e \in E |-> e.sum]
             B(g) == g = [T \in SUBSET E |->
                            IF T = {} THEN 0
                            ELSE (CHOOSE x \in T : TRUE).sum + g[T \ {CHOOSE x \in T : TRUE}]]
  <2>1. f \in [E -> Int]
    OBVIOUS
  <2>2. ASSUME NEW g PROVE B(g) <=> SumRun(g, E, f)
    <3>1. \A T \in SUBSET E : T # {} =>
            /\ (CHOOSE x \in T : TRUE) \in E
            /\ f[CHOOSE x \in T : TRUE] = (CHOOSE x \in T : TRUE).sum
      OBVIOUS
    <3> HIDE DEF f
    <3> QED  BY <3>1 DEF SumRun
  <2>3. \E g : B(g)
    <3> HIDE DEF f
    <3>1. PICK g : SumRun(g, E, f)
      BY <2>1, SumExists
    <3>2. B(g)
      BY <2>2, <3>1
    <3> HIDE DEF B
    <3> QED  BY <3>2
  <2> DEFINE it == CHOOSE g : B(g)
  <2>4. B(it)
    BY <2>3, Zenon
  <2>5. Sums(E) = it[E]
    BY DEF Sums, MapThenSumSet, MapThenFoldSet
  <2>6. SumRun(it, E, f)
    BY <2>2, <2>4
  <2> HIDE DEF it, f
  <2>7. it[E] \in Int
    BY <2>1, <2>6, SumTyped
  <2> QED  BY <2>5, <2>7
<1>2. Weights(E) \in Nat
  <2> DEFINE f == [e \in E |-> e.weight]
             B(g) == g = [T \in SUBSET E |->
                            IF T = {} THEN 0
                            ELSE (CHOOSE x \in T : TRUE).weight + g[T \ {CHOOSE x \in T : TRUE}]]
  <2>1. f \in [E -> Nat] /\ f \in [E -> Int]
    OBVIOUS
  <2>2. ASSUME NEW g PROVE B(g) <=> SumRun(g, E, f)
    <3>1. \A T \in SUBSET E : T # {} =>
            /\ (CHOOSE x \in T : TRUE) \in E
            /\ f[CHOOSE x \in T : TRUE] = (CHOOSE x \in T : TRUE).weight
      OBVIOUS
    <3> HIDE DEF f
    <3> QED  BY <3>1 DEF SumRun
  <2>3. \E g : B(g)
    <3> HIDE DEF f
    <3>1. PICK g : SumRun(g, E, f)
      BY <2>1, SumExists
    <3>2. B(g)
      BY <2>2, <3>1
    <3> HIDE DEF B
    <3> QED  BY <3>2
  <2> DEFINE it == CHOOSE g : B(g)
  <2>4. B(it)
    BY <2>3, Zenon
  <2>5. Weights(E) = it[E]
    BY DEF Weights, MapThenSumSet, MapThenFoldSet
  <2>6. SumRun(it, E, f)
    BY <2>2, <2>4
  <2> HIDE DEF it, f
  <2>7. it[E] \in Nat
    BY <2>1, <2>6, SumTyped
  <2> QED  BY <2>5, <2>7
<1> QED  BY <1>1, <1>2

\* Entries of sort_entries: their nodes, which are in M, are apart, and so are their indices.
EntriesOK(E, M) ==
  /\ IsFiniteSet(E)
  /\ \A e \in E : /\ e.vs \in Seq(M) /\ IsInjective(e.vs)
                  /\ e.i \in Nat /\ e.sum \in Int /\ e.weight \in Nat
  /\ \A e, f \in E : e # f => e.i # f.i /\ ToSet(e.vs) \intersect ToSet(f.vs) = {}

\* The indices that an entry stands for: it places at least as many nodes, and an entry without
\* a barycenter has its own only.  None of those before the index of such an entry is missing.
Accounts(E, own) ==
  /\ \A e \in E : /\ own[e] \in SUBSET Nat /\ IsFiniteSet(own[e])
                  /\ IF e.weight = 0 THEN own[e] = {e.i} ELSE Cardinality(own[e]) <= Len(e.vs)
  /\ \A e \in E : e.weight = 0 => \A n \in Nat : n < e.i => \E f \in E : n \in own[f]

\* The entries with a barycenter, and the two orders sort_with_bias lists entries in.
Sortable(E) == {e \in E : e.weight > 0}
Before(E) == {p \in E \X E : SortsBefore(p[1], p[2])}
ByIndex(E) == {p \in E \X E : p[1].i < p[2].i}

\* Entries with barycenters are strictly ordered: by barycenter, and by index where it ties,
LEMMA SortsStrictly ==
  ASSUME NEW M, NEW E, EntriesOK(E, M), \A e \in E : e.weight > 0
  PROVE  StrictOrder(E, Before(E))
<1>1. \A e \in E : e.i \in Nat /\ e.sum \in Int /\ e.weight \in Nat \ {0}
  BY DEF EntriesOK
<1>2. ASSUME NEW e \in E, NEW f \in E
      PROVE  e.sum * f.weight \in Int /\ (<<e, f>> \in Before(E) <=> SortsBefore(e, f))
  BY <1>1 DEF Before
<1>3. ASSUME NEW e \in E PROVE <<e, e>> \notin Before(E)
  BY <1>1, <1>2 DEF SortsBefore
<1>4. ASSUME NEW e \in E, NEW f \in E, NEW g \in E, <<e, f>> \in Before(E), <<f, g>> \in Before(E)
      PROVE  <<e, g>> \in Before(E)
  <2> DEFINE ef == e.sum * f.weight  fe == f.sum * e.weight  fg == f.sum * g.weight
             gf == g.sum * f.weight  eg == e.sum * g.weight  ge == g.sum * e.weight
  <2>1. /\ ef < fe /\ fg < gf => eg < ge
        /\ ef < fe /\ fg = gf => eg < ge
        /\ ef = fe /\ fg < gf => eg < ge
        /\ ef = fe /\ fg = gf => eg = ge
    <3>1. PICK a \in Int, b \in Int, c \in Int, k \in Nat \ {0}, l \in Nat \ {0}, m \in Nat \ {0} :
            a = e.sum /\ b = f.sum /\ c = g.sum /\ k = e.weight /\ l = f.weight /\ m = g.weight
      BY <1>1
    <3>2. /\ a * l < b * k /\ b * m < c * l => a * m < c * k
          /\ a * l < b * k /\ b * m = c * l => a * m < c * k
          /\ a * l = b * k /\ b * m < c * l => a * m < c * k
          /\ a * l = b * k /\ b * m = c * l => a * m = c * k
      BY Fractions
    <3> QED  BY <3>1, <3>2
  <2>2. ef < fe \/ (ef = fe /\ IF BiasRight THEN e.i > f.i ELSE e.i < f.i)
    BY <1>2, <1>4 DEF SortsBefore
  <2>3. fg < gf \/ (fg = gf /\ IF BiasRight THEN f.i > g.i ELSE f.i < g.i)
    BY <1>2, <1>4 DEF SortsBefore
  <2>4. (eg < ge \/ (eg = ge /\ IF BiasRight THEN e.i > g.i ELSE e.i < g.i)) => SortsBefore(e, g)
    BY DEF SortsBefore
  <2> HIDE DEF ef, fe, fg, gf, eg, ge
  <2>5. eg < ge \/ (eg = ge /\ IF BiasRight THEN e.i > g.i ELSE e.i < g.i)
    <3>1. e.i \in Nat /\ f.i \in Nat /\ g.i \in Nat
      BY <1>1
    <3>2. CASE ef < fe \/ fg < gf
      BY <2>1, <2>2, <2>3, <3>2
    <3>3. CASE ~(ef < fe \/ fg < gf)
      <4>1. eg = ge
        BY <2>1, <2>2, <2>3, <3>3
      <4>2. IF BiasRight THEN e.i > f.i /\ f.i > g.i ELSE e.i < f.i /\ f.i < g.i
        BY <2>2, <2>3, <3>3
      <4>3. IF BiasRight THEN e.i > g.i ELSE e.i < g.i
        BY <3>1, <4>2
      <4> QED  BY <4>1, <4>3
    <3> QED  BY <3>2, <3>3
  <2> QED  BY <1>2, <2>4, <2>5
<1>5. ASSUME NEW e \in E, NEW f \in E
      PROVE  e = f \/ <<e, f>> \in Before(E) \/ <<f, e>> \in Before(E)
  <2>1. e # f => e.i # f.i
    BY DEF EntriesOK
  <2>2. e.sum * f.weight \in Int /\ f.sum * e.weight \in Int /\ e.i \in Nat /\ f.i \in Nat
    BY <1>1, <1>2
  <2>3. e # f => SortsBefore(e, f) \/ SortsBefore(f, e)
    BY <2>1, <2>2 DEF SortsBefore
  <2> QED  BY <1>2, <2>3
<1> QED  BY <1>3, <1>4, <1>5, Zenon DEF StrictOrder

\* and all entries by index.
LEMMA IndicesStrict ==
  ASSUME NEW M, NEW E, EntriesOK(E, M)
  PROVE  StrictOrder(E, ByIndex(E))
<1>1. \A e, f \in E : e.i \in Nat /\ (e # f => e.i # f.i) /\ (<<e, f>> \in ByIndex(E) <=> e.i < f.i)
  BY DEF EntriesOK, ByIndex
<1>2. \A e \in E : <<e, e>> \notin ByIndex(E)
  BY <1>1
<1>3. \A e, f, g \in E : <<e, f>> \in ByIndex(E) /\ <<f, g>> \in ByIndex(E) => <<e, g>> \in ByIndex(E)
  <2> TAKE e, f, g \in E
  <2>1. e.i \in Nat /\ f.i \in Nat /\ g.i \in Nat
    BY <1>1
  <2>2. e.i < f.i /\ f.i < g.i => e.i < g.i
    BY <2>1
  <2> QED  BY <1>1, <2>2
<1>4. \A e, f \in E : e = f \/ <<e, f>> \in ByIndex(E) \/ <<f, e>> \in ByIndex(E)
  <2> TAKE e, f \in E
  <2>1. e.i \in Nat /\ f.i \in Nat /\ (e # f => e.i # f.i)
    BY <1>1
  <2>2. e # f => e.i < f.i \/ f.i < e.i
    BY <2>1
  <2> QED  BY <1>1, <2>2
<1> QED  BY <1>2, <1>3, <1>4, Zenon DEF StrictOrder

\* Some of the entries are entries.
LEMMA SubEntries ==
  ASSUME NEW M, NEW E, NEW F \in SUBSET E, EntriesOK(E, M)
  PROVE  EntriesOK(F, M)
<1>1. IsFiniteSet(F)
  BY FS_Subset DEF EntriesOK
<1> QED  BY <1>1 DEF EntriesOK

\* The two lists of sort_entries.
LEMMA EntriesLined ==
  ASSUME NEW M, NEW E, EntriesOK(E, M)
  PROVE  /\ IsLining(Lined(Sortable(E), SortsBefore), Sortable(E), Before(Sortable(E)))
         /\ IsLining(Lined(E \ Sortable(E), LAMBDA e, f : e.i < f.i), E \ Sortable(E),
                     ByIndex(E \ Sortable(E)))
<1> DEFINE S == Sortable(E)  T == E \ Sortable(E)
<1>1. EntriesOK(S, M) /\ EntriesOK(T, M)
  BY SubEntries DEF Sortable
<1>2. StrictOrder(S, Before(S)) /\ IsFiniteSet(S)
  <2>1. \A e \in S : e.weight > 0
    BY DEF Sortable
  <2> HIDE DEF S
  <2> QED  BY <1>1, <2>1, SortsStrictly DEF EntriesOK
<1>3. StrictOrder(T, ByIndex(T)) /\ IsFiniteSet(T)
  <2> HIDE DEF T
  <2> QED  BY <1>1, IndicesStrict DEF EntriesOK
<1>4. IsLining(Lined(S, SortsBefore), S, Before(S))
  <2> HIDE DEF S
  <2> DEFINE o == Lined(S, SortsBefore)
  <2>1. ASSUME NEW v \in S PROVE {w \in S : SortsBefore(w, v)} = {w \in S : <<w, v>> \in Before(S)}
    BY DEF Before
  <2>2. ASSUME NEW k \in 1..Cardinality(S) PROVE o[k] \in S /\ TurnIn(S, Before(S), o[k]) = k - 1
    <3>1. Cardinality(S) \in Nat
      BY <1>2, FS_CardinalityType
    <3>2. k - 1 \in 0..(Cardinality(S) - 1)
      BY <3>1
    <3>3. \E v \in S : TurnIn(S, Before(S), v) = k - 1
      BY <1>2, <3>2, OrderedTurns
    <3>4. \E v \in S : Cardinality({w \in S : SortsBefore(w, v)}) = k - 1
      BY <2>1, <3>3 DEF TurnIn
    <3>5. o[k] = CHOOSE v \in S : Cardinality({w \in S : SortsBefore(w, v)}) = k - 1
      BY DEF Lined
    <3>6. o[k] \in S /\ Cardinality({w \in S : SortsBefore(w, o[k])}) = k - 1
      BY <3>4, <3>5
    <3> QED  BY <2>1, <3>6 DEF TurnIn
  <2>3. DOMAIN o = 1..Cardinality(S) /\ o = [k \in DOMAIN o |-> o[k]]
    BY DEF Lined
  <2> HIDE DEF o
  <2>4. IsLining(o, S, Before(S))
    BY <1>2, <2>2, <2>3, LiningOf
  <2> QED  BY <2>4 DEF o
<1>5. IsLining(Lined(T, LAMBDA e, f : e.i < f.i), T, ByIndex(T))
  <2> HIDE DEF T
  <2> DEFINE o == Lined(T, LAMBDA e, f : e.i < f.i)
  <2>1. ASSUME NEW v \in T PROVE {w \in T : w.i < v.i} = {w \in T : <<w, v>> \in ByIndex(T)}
    BY DEF ByIndex
  <2>2. ASSUME NEW k \in 1..Cardinality(T) PROVE o[k] \in T /\ TurnIn(T, ByIndex(T), o[k]) = k - 1
    <3>1. Cardinality(T) \in Nat
      BY <1>3, FS_CardinalityType
    <3>2. k - 1 \in 0..(Cardinality(T) - 1)
      BY <3>1
    <3>3. \E v \in T : TurnIn(T, ByIndex(T), v) = k - 1
      BY <1>3, <3>2, OrderedTurns
    <3>4. \E v \in T : Cardinality({w \in T : w.i < v.i}) = k - 1
      BY <2>1, <3>3 DEF TurnIn
    <3>5. o[k] = CHOOSE v \in T : Cardinality({w \in T : w.i < v.i}) = k - 1
      BY DEF Lined
    <3>6. o[k] \in T /\ Cardinality({w \in T : w.i < o[k].i}) = k - 1
      BY <3>4, <3>5
    <3> QED  BY <2>1, <3>6 DEF TurnIn
  <2>3. DOMAIN o = 1..Cardinality(T) /\ o = [k \in DOMAIN o |-> o[k]]
    <3> DEFINE nth(n) == CHOOSE v \in T : Cardinality({w \in T : w.i < v.i}) = n - 1
    <3>1. o = [n \in 1..Cardinality(T) |-> nth(n)]
      BY DEF Lined
    <3> HIDE DEF o, nth
    <3> QED  BY <3>1
  <2> HIDE DEF o
  <2>4. IsLining(o, T, ByIndex(T))
    BY <1>3, <2>2, <2>3, LiningOf
  <2> QED  BY <2>4 DEF o
<1> QED  BY <1>4, <1>5

\* What sort_entries has laid out when it has taken the entries in C: off says from where on
\* the nodes of each stand.
LaidOut(t, E, C, off) ==
  /\ IsInjective(t)
  /\ ToSet(t) = UNION {ToSet(e.vs) : e \in C}
  /\ \A e \in C : Embeds(t, e.vs, off[e])
  /\ \A e, f \in C \intersect Sortable(E) : SortsBefore(e, f) => off[e] + Len(e.vs) <= off[f]

\* The states of the interleaving, and what is so when the entries in C are laid out.
LayTyped(s, M, E) ==
  s \in [vs : Seq(M), count : Nat, sorted : Seq(E), loose : Seq(E)]
LayGood(s, M, E, own, C, off) ==
  /\ LayTyped(s, M, E)
  /\ C \in SUBSET E
  /\ LaidOut(s.vs, E, C, off)
  /\ Lines(s.sorted, Sortable(E) \ C, Before(Sortable(E)))
  /\ Lines(s.loose, (E \ Sortable(E)) \ C, ByIndex(E \ Sortable(E)))
  /\ \A e \in C \intersect Sortable(E), f \in Sortable(E) \ C : SortsBefore(e, f)
  /\ Cardinality(UNION {own[e] : e \in C}) <= s.count

\* One more entry behind those that are laid out.
LEMMA LaidMore ==
  ASSUME NEW M, NEW E, EntriesOK(E, M), NEW t \in Seq(M), NEW C \in SUBSET E, NEW off,
         LaidOut(t, E, C, off), NEW h \in E \ C,
         \A e \in C \intersect Sortable(E) : h \in Sortable(E) => SortsBefore(e, h)
  PROVE  /\ t \o h.vs \in Seq(M)
         /\ \E p : LaidOut(t \o h.vs, E, C \union {h}, p)
<1> DEFINE p == [e \in C \union {h} |-> IF e = h THEN Len(t) ELSE off[e]]
<1>1. h.vs \in Seq(M) /\ IsInjective(h.vs) /\ \A e \in C : e.vs \in Seq(M) /\ e \in E /\ e # h
  BY DEF EntriesOK
<1>2. \A e \in C : ToSet(e.vs) \intersect ToSet(h.vs) = {}
  BY <1>1 DEF EntriesOK
<1>3. PICK u : u = t \o h.vs
  OBVIOUS
<1>4. ToSet(t) \intersect ToSet(h.vs) = {}
  BY <1>2 DEF LaidOut
<1>5. /\ u \in Seq(M) /\ Len(u) = Len(t) + Len(h.vs) /\ ToSet(u) = ToSet(t) \union ToSet(h.vs)
      /\ IsInjective(u) /\ Embeds(u, t, 0) /\ Embeds(u, h.vs, Len(t))
  BY <1>1, <1>3, <1>4, Joined DEF LaidOut
<1>6. ToSet(u) = UNION {ToSet(e.vs) : e \in C \union {h}}
  BY <1>5 DEF LaidOut
<1>7. ASSUME NEW e \in C \union {h} PROVE Embeds(u, e.vs, p[e])
  <2>1. CASE e = h
    BY <1>5, <2>1
  <2>2. CASE e # h
    <3>1. Embeds(t, e.vs, off[e]) /\ e \in C /\ p[e] = off[e]
      BY <2>2 DEF LaidOut
    <3>2. Embeds(u, e.vs, 0 + off[e])
      BY <1>1, <1>5, <3>1, EmbedsOn
    <3>3. 0 + off[e] = off[e]
      BY <3>1 DEF Embeds
    <3> QED  BY <3>1, <3>2, <3>3
  <2> QED  BY <2>1, <2>2
<1>8. ASSUME NEW e \in (C \union {h}) \intersect Sortable(E), NEW f \in (C \union {h}) \intersect Sortable(E),
             SortsBefore(e, f)
      PROVE  p[e] + Len(e.vs) <= p[f]
  <2>1. EntriesOK(Sortable(E), M) /\ \A g \in Sortable(E) : g.weight > 0
    BY SubEntries DEF Sortable
  <2>2. StrictOrder(Sortable(E), Before(Sortable(E)))
    BY <2>1, SortsStrictly
  <2>3. \A d, g \in Sortable(E) : <<d, g>> \in Before(Sortable(E)) <=> SortsBefore(d, g)
    BY DEF Before
  <2>4. ~SortsBefore(e, e) /\ ~SortsBefore(f, e)
    BY <1>8, <2>2, <2>3 DEF StrictOrder
  <2>5. e # h
    <3>1. f = h \/ f \in C \intersect Sortable(E)
      OBVIOUS
    <3>2. e = h => SortsBefore(f, e) \/ f = e
      BY <3>1
    <3> QED  BY <1>8, <2>4, <3>2
  <2>6. CASE f = h
    <3>1. Embeds(t, e.vs, off[e])
      BY <2>5 DEF LaidOut
    <3> QED  BY <2>5, <2>6, <3>1 DEF Embeds
  <2>7. CASE f # h
    BY <1>8, <2>5, <2>7 DEF LaidOut
  <2> QED  BY <2>6, <2>7
<1> HIDE DEF p
<1>9. LaidOut(u, E, C \union {h}, p)
  BY <1>5, <1>6, <1>7, <1>8 DEF LaidOut
<1> QED  BY <1>3, <1>5, <1>9

\* The indices of one more entry.
LEMMA OwnMore ==
  ASSUME NEW M, NEW E, EntriesOK(E, M), NEW own, Accounts(E, own), NEW C \in SUBSET E, NEW h \in E,
         NEW m \in Nat, NEW n \in Nat, Cardinality(UNION {own[e] : e \in C}) <= m,
         Cardinality(own[h]) <= n
  PROVE  /\ IsFiniteSet(UNION {own[e] : e \in C})
         /\ Cardinality(UNION {own[e] : e \in C \union {h}}) <= m + n
<1> DEFINE f == [e \in C |-> own[e]]
           T == {f[e] : e \in C}
           U == UNION {own[e] : e \in C}
<1>1. IsFiniteSet(C)
  BY FS_Subset DEF EntriesOK
<1>2. IsFiniteSet(T)
  <2>1. DOMAIN f = C
    OBVIOUS
  <2> HIDE DEF f
  <2> QED  BY <1>1, <2>1, FiniteImage
<1>3. \A S \in T : IsFiniteSet(S)
  BY DEF Accounts
<1>4. U = UNION T
  OBVIOUS
<1>5. IsFiniteSet(U)
  <2> HIDE DEF T, U
  <2> QED  BY <1>2, <1>3, <1>4, FS_UNION
<1>6. IsFiniteSet(own[h])
  BY DEF Accounts
<1>7. UNION {own[e] : e \in C \union {h}} = U \union own[h]
  OBVIOUS
<1>8. Cardinality(U \union own[h]) <= m + n
  <2> HIDE DEF U
  <2>1. /\ Cardinality(U \union own[h]) = Cardinality(U) + Cardinality(own[h]) - Cardinality(U \intersect own[h])
        /\ IsFiniteSet(U \intersect own[h])
    BY <1>5, <1>6, FS_Union, FS_Intersection
  <2>2. Cardinality(U) \in Nat /\ Cardinality(own[h]) \in Nat /\ Cardinality(U \intersect own[h]) \in Nat
    BY <1>5, <1>6, <2>1, FS_CardinalityType
  <2>3. Cardinality(U) <= m
    BY DEF U
  <2> QED  BY <2>1, <2>2, <2>3
<1> QED  BY <1>5, <1>7, <1>8

\* How many entries are still to lay out.
Remaining(s) == Len(s.sorted) + Len(s.loose)

\* What the two orders say of two entries.
LEMMA OrdersOfEntries ==
  ASSUME NEW M, NEW E, EntriesOK(E, M)
  PROVE  /\ \A e \in Sortable(E) : <<e, e>> \notin Before(Sortable(E))
         /\ \A e, f \in Sortable(E) : <<e, f>> \in Before(Sortable(E)) <=> SortsBefore(e, f)
         /\ \A e \in E \ Sortable(E) : <<e, e>> \notin ByIndex(E \ Sortable(E))
         /\ \A e, f \in E \ Sortable(E) : <<e, f>> \in ByIndex(E \ Sortable(E)) <=> e.i < f.i
         /\ \A e \in E \ Sortable(E) : e.weight = 0
<1>1. EntriesOK(Sortable(E), M) /\ EntriesOK(E \ Sortable(E), M) /\ \A g \in Sortable(E) : g.weight > 0
  BY SubEntries DEF Sortable
<1>2. StrictOrder(Sortable(E), Before(Sortable(E)))
  BY <1>1, SortsStrictly
<1>3. StrictOrder(E \ Sortable(E), ByIndex(E \ Sortable(E)))
  BY <1>1, IndicesStrict
<1>4. \A e \in E \ Sortable(E) : e.weight = 0
  BY DEF EntriesOK, Sortable
<1> QED  BY <1>2, <1>3, <1>4 DEF StrictOrder, Before, ByIndex

\* While there is no barycenter left, the index of the next entry is reached.
LEMMA NeverStuck ==
  ASSUME NEW M, NEW E, EntriesOK(E, M), NEW own, Accounts(E, own), NEW s, NEW C, NEW off,
         LayGood(s, M, E, own, C, off), s.sorted = <<>>, s.loose # <<>>
  PROVE  Head(s.loose).i <= s.count
<1> DEFINE T == E \ Sortable(E)  h == Head(s.loose)  U == UNION {own[e] : e \in C}
<1>1. C \in SUBSET E /\ s.count \in Nat /\ Lines(s.loose, T \ C, ByIndex(T)) /\ Sortable(E) \subseteq C
  <2>1. Lines(s.sorted, Sortable(E) \ C, Before(Sortable(E)))
    BY DEF LayGood
  <2>2. Sortable(E) \ C = {}
    BY <2>1, LinesNone
  <2> QED  BY <2>2 DEF LayGood, LayTyped
<1>2. h \in T \ C /\ \A e \in (T \ C) \ {h} : <<h, e>> \in ByIndex(T)
  <2>1. \A x \in T \ C : <<x, x>> \notin ByIndex(T)
    BY OrdersOfEntries
  <2> HIDE DEF T
  <2> QED  BY <1>1, <2>1, LinesTail
<1>3. h \in E /\ h.i \in Nat /\ h.weight = 0
  BY <1>2, OrdersOfEntries DEF EntriesOK
<1>4. ASSUME NEW n \in 0..(h.i - 1) PROVE n \in U
  <2>1. n \in Nat /\ n < h.i
    BY <1>3
  <2>2. PICK f \in E : n \in own[f]
    BY <1>3, <2>1 DEF Accounts
  <2>3. CASE f \in Sortable(E)
    BY <1>1, <2>2, <2>3
  <2>4. CASE f \in T
    <3>1. f.weight = 0 /\ own[f] = {f.i}
      BY <2>4, OrdersOfEntries DEF Accounts
    <3>2. f.i < h.i
      BY <2>1, <2>2, <3>1
    <3>3. ~(h.i < f.i) /\ f # h
      BY <1>3, <2>1, <2>2, <3>1
    <3>4. f \notin (T \ C) \ {h}
      BY <1>2, <3>3, OrdersOfEntries
    <3> QED  BY <2>2, <2>4, <3>3, <3>4
  <2> QED  BY <2>2, <2>3, <2>4
<1>5. 0..(h.i - 1) \in SUBSET U
  BY <1>4
<1>6. IsFiniteSet(U) /\ Cardinality(U) <= s.count
  <2>1. Cardinality(own[h]) <= 1
    <3> HIDE DEF h
    <3>1. own[h] = {h.i}
      BY <1>3 DEF Accounts
    <3>2. Cardinality({h.i}) = 1
      BY FS_Singleton
    <3> QED  BY <3>1, <3>2
  <2>2. Cardinality(U) <= s.count
    BY DEF LayGood
  <2>3. IsFiniteSet(U)
    <3> HIDE DEF h
    <3>1. PICK m \in Nat : m = s.count
      BY <1>1
    <3>2. 1 \in Nat /\ C \in SUBSET E /\ h \in E /\ Cardinality(UNION {own[e] : e \in C}) <= m
      BY <1>1, <1>3, <2>2, <3>1
    <3> QED  BY <2>1, <3>2, OwnMore, Zenon
  <2> QED  BY <2>2, <2>3
<1>7. Cardinality(0..(h.i - 1)) = h.i
  BY <1>3, FS_Interval
<1> HIDE DEF U, h
<1>8. Cardinality(0..(h.i - 1)) <= Cardinality(U) /\ Cardinality(U) \in Nat
  BY <1>5, <1>6, FS_Subset, FS_CardinalityType
<1> QED  BY <1>1, <1>3, <1>6, <1>7, <1>8 DEF h

\* One turn of sort_entries takes one entry.
LEMMA LayStep ==
  ASSUME NEW M, NEW E, EntriesOK(E, M), NEW own, Accounts(E, own), NEW s, NEW C, NEW off,
         LayGood(s, M, E, own, C, off)
  PROVE  /\ \E D, p : LayGood(LayNext(s), M, E, own, D, p)
         /\ Remaining(s) \in Nat
         /\ Remaining(s) # 0 => Remaining(LayNext(s)) = Remaining(s) - 1
<1> DEFINE S == Sortable(E)  T == E \ Sortable(E)
<1>1. /\ LayTyped(s, M, E) /\ C \in SUBSET E /\ LaidOut(s.vs, E, C, off)
      /\ Lines(s.sorted, S \ C, Before(S)) /\ Lines(s.loose, T \ C, ByIndex(T))
      /\ \A e \in C \intersect S, f \in S \ C : SortsBefore(e, f)
      /\ Cardinality(UNION {own[e] : e \in C}) <= s.count
  BY DEF LayGood
<1>2. /\ s.vs \in Seq(M) /\ s.count \in Nat /\ s.sorted \in Seq(E) /\ s.loose \in Seq(E)
      /\ Len(s.sorted) \in Nat /\ Len(s.loose) \in Nat
  BY <1>1 DEF LayTyped
<1>3. S \subseteq E
  BY DEF Sortable
<1>8. PICK a \in Nat, b \in Nat : a = Len(s.sorted) /\ b = Len(s.loose)
  BY <1>2
<1>4. ASSUME s.loose # <<>>, Head(s.loose).i <= s.count
      PROVE  /\ \E D, p : LayGood(LayNext(s), M, E, own, D, p)
             /\ Remaining(LayNext(s)) = Remaining(s) - 1
  <2> DEFINE h == Head(s.loose)  n == LayNext(s)
  <2>1. n = [s EXCEPT !.vs = @ \o h.vs, !.count = @ + 1, !.loose = Tail(@)]
    BY <1>4 DEF LayNext
  <2>2. /\ h \in T \ C /\ Lines(Tail(s.loose), (T \ C) \ {h}, ByIndex(T))
        /\ Len(Tail(s.loose)) = Len(s.loose) - 1 /\ Tail(s.loose) \in Seq(E)
    <3>1. \A x \in T \ C : <<x, x>> \notin ByIndex(T)
      BY OrdersOfEntries
    <3> HIDE DEF T
    <3>2. Tail(s.loose) \in Seq(E)
      BY <1>2, <1>4, HeadAndTail
    <3> QED  BY <1>1, <1>4, <3>1, <3>2, LinesTail
  <2>3. h \in E \ C /\ h \notin S /\ h.weight = 0
    BY <2>2, OrdersOfEntries
  <2>4. /\ s.vs \o h.vs \in Seq(M)
        /\ \E p : LaidOut(s.vs \o h.vs, E, C \union {h}, p)
    <3> HIDE DEF h
    <3> QED  BY <1>1, <1>2, <2>3, LaidMore
  <2>5. Cardinality(UNION {own[e] : e \in C \union {h}}) <= s.count + 1
    <3> HIDE DEF h
    <3>1. own[h] = {h.i}
      BY <2>3 DEF Accounts
    <3>2. Cardinality({h.i}) = 1
      BY FS_Singleton
    <3>3. PICK m \in Nat : m = s.count
      BY <1>2
    <3>4. 1 \in Nat /\ Cardinality(UNION {own[e] : e \in C}) <= m /\ Cardinality(own[h]) <= 1
      BY <1>1, <3>1, <3>2, <3>3
    <3>5. Cardinality(UNION {own[e] : e \in C \union {h}}) <= m + 1
      BY <1>1, <2>3, <3>4, OwnMore
    <3> QED  BY <3>3, <3>5
  <2> HIDE DEF h
  <2>6. /\ n.vs = s.vs \o h.vs /\ n.count = s.count + 1 /\ n.sorted = s.sorted
        /\ n.loose = Tail(s.loose) /\ LayTyped(n, M, E)
    <3>1. s.count + 1 \in Nat
      BY <1>2
    <3> HIDE DEF n
    <3> QED  BY <1>1, <1>2, <2>1, <2>2, <2>4, <3>1 DEF LayTyped
  <2>7. S \ (C \union {h}) = S \ C /\ C \intersect S = (C \union {h}) \intersect S
        /\ (T \ C) \ {h} = T \ (C \union {h})
    BY <2>3
  <2>8. PICK p : LaidOut(s.vs \o h.vs, E, C \union {h}, p)
    BY <2>4
  <2> HIDE DEF n, S, T
  <2>9. LayGood(n, M, E, own, C \union {h}, p)
    <3>1. C \union {h} \in SUBSET E
      BY <1>1, <2>3
    <3> QED  BY <1>1, <2>2, <2>5, <2>6, <2>7, <2>8, <3>1 DEF LayGood, S, T
  <2>10. Remaining(n) = Remaining(s) - 1
    <3>1. Remaining(s) = a + b /\ Remaining(n) = a + (b - 1)
      BY <1>8, <2>2, <2>6 DEF Remaining
    <3> QED  BY <3>1
  <2> QED  BY <2>9, <2>10 DEF n
<1>5. ASSUME ~(s.loose # <<>> /\ Head(s.loose).i <= s.count), s.sorted # <<>>
      PROVE  /\ \E D, p : LayGood(LayNext(s), M, E, own, D, p)
             /\ Remaining(LayNext(s)) = Remaining(s) - 1
  <2> DEFINE h == Head(s.sorted)  n == LayNext(s)
  <2>1. n = [s EXCEPT !.vs = @ \o h.vs, !.count = @ + Len(h.vs), !.sorted = Tail(@)]
    BY <1>5 DEF LayNext
  <2>2. /\ h \in S \ C /\ Lines(Tail(s.sorted), (S \ C) \ {h}, Before(S))
        /\ \A x \in (S \ C) \ {h} : <<h, x>> \in Before(S)
        /\ Len(Tail(s.sorted)) = Len(s.sorted) - 1 /\ Tail(s.sorted) \in Seq(E)
    <3>1. \A x \in S \ C : <<x, x>> \notin Before(S)
      BY OrdersOfEntries
    <3> HIDE DEF S
    <3>2. Tail(s.sorted) \in Seq(E)
      BY <1>2, <1>5, HeadAndTail
    <3> QED  BY <1>1, <1>5, <3>1, <3>2, LinesTail
  <2>3. h \in E \ C /\ h \in S /\ h.vs \in Seq(M) /\ Len(h.vs) \in Nat /\ h.weight # 0
    <3>1. h \in S /\ h \in E
      BY <1>3, <2>2
    <3>2. h.weight # 0
      BY <3>1 DEF Sortable, EntriesOK
    <3> HIDE DEF h
    <3> QED  BY <2>2, <3>1, <3>2 DEF EntriesOK
  <2>4. /\ s.vs \o h.vs \in Seq(M)
        /\ \E p : LaidOut(s.vs \o h.vs, E, C \union {h}, p)
    <3>1. \A e \in C \intersect S : SortsBefore(e, h)
      BY <1>1, <2>2
    <3> HIDE DEF h
    <3> QED  BY <1>1, <1>2, <2>3, <3>1, LaidMore
  <2>5. Cardinality(UNION {own[e] : e \in C \union {h}}) <= s.count + Len(h.vs)
    <3>1. Cardinality(own[h]) <= Len(h.vs)
      BY <2>3 DEF Accounts
    <3> HIDE DEF h
    <3>2. PICK m \in Nat, n1 \in Nat : m = s.count /\ n1 = Len(h.vs)
      BY <1>2, <2>3
    <3>3. /\ Cardinality(UNION {own[e] : e \in C}) <= m /\ Cardinality(own[h]) <= n1
          /\ C \in SUBSET E /\ h \in E
      BY <1>1, <2>3, <3>1, <3>2
    <3>4. Cardinality(UNION {own[e] : e \in C \union {h}}) <= m + n1
      BY <3>3, OwnMore, Zenon
    <3> QED  BY <3>2, <3>4
  <2>6. \A x \in (S \ C) \ {h} : SortsBefore(h, x)
    BY <2>2, OrdersOfEntries
  <2> HIDE DEF h
  <2>7. /\ n.vs = s.vs \o h.vs /\ n.count = s.count + Len(h.vs) /\ n.sorted = Tail(s.sorted)
        /\ n.loose = s.loose /\ LayTyped(n, M, E)
    <3>1. s.count + Len(h.vs) \in Nat
      BY <1>2, <2>3
    <3> HIDE DEF n
    <3> QED  BY <1>1, <1>2, <2>1, <2>2, <2>4, <3>1 DEF LayTyped
  <2>8. /\ (S \ C) \ {h} = S \ (C \union {h}) /\ T \ C = T \ (C \union {h})
        /\ \A e \in (C \union {h}) \intersect S, f \in S \ (C \union {h}) : SortsBefore(e, f)
    <3>1. h \notin T
      BY <2>3
    <3> QED  BY <1>1, <2>6, <3>1
  <2>9. PICK p : LaidOut(s.vs \o h.vs, E, C \union {h}, p)
    BY <2>4
  <2> HIDE DEF n, S, T
  <2>10. LayGood(n, M, E, own, C \union {h}, p)
    <3>1. C \union {h} \in SUBSET E
      BY <1>1, <2>3
    <3> QED  BY <1>1, <2>2, <2>5, <2>7, <2>8, <2>9, <3>1 DEF LayGood, S, T
  <2>11. Remaining(n) = Remaining(s) - 1
    <3>1. Remaining(s) = a + b /\ Remaining(n) = (a - 1) + b
      BY <1>8, <2>2, <2>7 DEF Remaining
    <3> QED  BY <3>1
  <2> QED  BY <2>10, <2>11 DEF n
<1>6. ASSUME ~(s.loose # <<>> /\ Head(s.loose).i <= s.count), s.sorted = <<>>
      PROVE  LayNext(s) = s /\ Remaining(s) = 0
  <2>1. s.loose = <<>>
    BY <1>6, NeverStuck
  <2> QED  BY <1>6, <2>1 DEF LayNext, Remaining
<1>7. Remaining(s) \in Nat
  <2>1. Remaining(s) = a + b
    BY <1>8 DEF Remaining
  <2> QED  BY <2>1
<1> QED  BY <1>4, <1>5, <1>6, <1>7

\* The interleaving begins with nothing laid out.
LEMMA LayBegins ==
  ASSUME NEW M, NEW E, EntriesOK(E, M), NEW own, Accounts(E, own), NEW so, NEW lo, NEW s,
         IsLining(so, Sortable(E), Before(Sortable(E))),
         IsLining(lo, E \ Sortable(E), ByIndex(E \ Sortable(E))),
         s = [vs |-> <<>>, count |-> 0, sorted |-> so, loose |-> lo]
  PROVE  LayGood(s, M, E, own, {}, <<>>) /\ Remaining(s) = Cardinality(E)
<1> DEFINE S == Sortable(E)  T == E \ Sortable(E)
<1>1. S \in SUBSET E /\ T \in SUBSET E /\ IsFiniteSet(E)
  BY DEF Sortable, EntriesOK
<1>2. IsLining(s.sorted, S, Before(S)) /\ IsLining(s.loose, T, ByIndex(T))
  OBVIOUS
<1>3. /\ Lines(s.sorted, S, Before(S)) /\ Lines(s.loose, T, ByIndex(T))
      /\ Len(s.sorted) = Cardinality(S) /\ Len(s.loose) = Cardinality(T)
  <2> HIDE DEF S, T
  <2> QED  BY <1>2, LiningLines
<1>4. s.vs = <<>> /\ s.count = 0 /\ s = [vs |-> <<>>, count |-> 0, sorted |-> s.sorted, loose |-> s.loose]
  OBVIOUS
<1>5. LayTyped(s, M, E)
  <2>1. s.sorted \in Seq(E) /\ s.loose \in Seq(E) /\ <<>> \in Seq(M) /\ 0 \in Nat
    <3>1. s.sorted \in Seq(S) /\ s.loose \in Seq(T)
      BY <1>3 DEF Lines
    <3> HIDE DEF S, T
    <3>2. s.sorted \in Seq(E)
      <4>1. \A k \in 1..Len(s.sorted) : s.sorted[k] \in E
        BY <1>1, <3>1
      <4> QED  BY <3>1, <4>1, SeqWithin
    <3>3. s.loose \in Seq(E)
      <4>1. \A k \in 1..Len(s.loose) : s.loose[k] \in E
        BY <1>1, <3>1
      <4> QED  BY <3>1, <4>1, SeqWithin
    <3> QED  BY <3>2, <3>3
  <2> QED  BY <1>4, <2>1 DEF LayTyped
<1>6. LaidOut(<<>>, E, {}, <<>>)
  <2>1. IsInjective(<<>>) /\ ToSet(<<>>) = {}
    <3>1. DOMAIN <<>> = {}
      OBVIOUS
    <3> QED  BY <3>1 DEF IsInjective, ToSet
  <2>2. ToSet(<<>>) = UNION {ToSet(e.vs) : e \in {}}
    BY <2>1
  <2> QED  BY <2>1, <2>2 DEF LaidOut
<1>7. Cardinality(UNION {own[e] : e \in {}}) <= s.count
  <2>1. UNION {own[e] : e \in {}} = {}
    OBVIOUS
  <2>2. Cardinality(UNION {own[e] : e \in {}}) = 0
    BY <2>1, FS_EmptySet
  <2> QED  BY <1>4, <2>2
<1>8. S \ {} = S /\ T \ {} = T
  OBVIOUS
<1>9. Cardinality(S) + Cardinality(T) = Cardinality(E)
  <2> HIDE DEF S
  <2>1. T = E \ S /\ E \intersect S = S
    BY <1>1 DEF S
  <2>2. Cardinality(T) = Cardinality(E) - Cardinality(S) /\ IsFiniteSet(S)
    BY <1>1, <2>1, FS_Difference, FS_Subset
  <2>3. Cardinality(S) \in Nat /\ Cardinality(E) \in Nat
    BY <1>1, <2>2, FS_CardinalityType
  <2>4. PICK a \in Nat, b \in Nat : a = Cardinality(S) /\ b = Cardinality(E)
    BY <2>3
  <2> QED  BY <2>2, <2>4
<1>10. Remaining(s) = Cardinality(E)
  BY <1>3, <1>9 DEF Remaining
<1>11. LayGood(s, M, E, own, {}, <<>>)
  <2>1. Lines(s.sorted, S \ {}, Before(S)) /\ Lines(s.loose, T \ {}, ByIndex(T))
    BY <1>3, <1>8
  <2>2. LaidOut(s.vs, E, {}, <<>>)
    BY <1>4, <1>6
  <2> QED  BY <1>5, <1>7, <2>1, <2>2 DEF LayGood
<1> QED  BY <1>10, <1>11

\* sort_entries places the nodes of every entry: those of one together, those with a
\* barycenter in its order.
LEMMA InterleavedEntries ==
  ASSUME NEW M, NEW E, EntriesOK(E, M), NEW own, Accounts(E, own)
  PROVE  /\ Interleaved(E) \in Seq(M)
         /\ \E off : LaidOut(Interleaved(E), E, E, off)
<1> DEFINE base == [vs |-> <<>>, count |-> 0, sorted |-> Lined(Sortable(E), SortsBefore),
                    loose |-> Lined(E \ Sortable(E), LAMBDA e, f : e.i < f.i)]
           B(f) == f = [n \in Nat |-> IF n = 0 THEN base ELSE LayNext(f[n - 1])]
           V == {s \in [vs : Seq(M), count : Nat, sorted : Seq(E), loose : Seq(E)] :
                   \E C, off : LayGood(s, M, E, own, C, off)}
           next == [s \in V |-> LayNext(s)]
           g == CHOOSE f : B(f)
<1>1. Interleaved(E) = g[Cardinality(E)].vs
  BY DEF Interleaved, Sortable
<1>2. LayGood(base, M, E, own, {}, <<>>) /\ Remaining(base) = Cardinality(E)
  <2> DEFINE so == Lined(Sortable(E), SortsBefore)
             lo == Lined(E \ Sortable(E), LAMBDA e, f : e.i < f.i)
  <2>1. IsLining(so, Sortable(E), Before(Sortable(E))) /\ IsLining(lo, E \ Sortable(E), ByIndex(E \ Sortable(E)))
    BY EntriesLined
  <2>2. base = [vs |-> <<>>, count |-> 0, sorted |-> so, loose |-> lo]
    OBVIOUS
  <2> HIDE DEF base, so, lo
  <2> QED  BY <2>1, <2>2, LayBegins
<1> HIDE DEF base
<1>3. ASSUME NEW s, NEW C, NEW off, LayGood(s, M, E, own, C, off) PROVE s \in V
  BY <1>3 DEF LayGood, LayTyped
<1>4. base \in V
  <2> HIDE DEF V
  <2> QED  BY <1>2, <1>3
<1>5. ASSUME NEW s \in V
      PROVE  /\ LayNext(s) \in V /\ Remaining(s) \in Nat
             /\ Remaining(s) # 0 => Remaining(LayNext(s)) = Remaining(s) - 1
  <2>1. PICK C, off : LayGood(s, M, E, own, C, off)
    OBVIOUS
  <2>2. /\ \E D, p : LayGood(LayNext(s), M, E, own, D, p)
        /\ Remaining(s) \in Nat
        /\ Remaining(s) # 0 => Remaining(LayNext(s)) = Remaining(s) - 1
    BY <2>1, LayStep
  <2> HIDE DEF V
  <2> QED  BY <1>3, <2>2
<1>6. next \in [V -> V] /\ \A s \in V : next[s] = LayNext(s)
  <2> HIDE DEF V
  <2> QED  BY <1>5
<1>7. B(g)
  <2>1. PICK f \in [Nat -> V] : f[0] = base /\ \A n \in Nat : n # 0 => n - 1 \in Nat /\ f[n - 1] \in V /\ f[n] = next[f[n - 1]]
    <3> HIDE DEF V, next
    <3> QED  BY <1>4, <1>6, RecursionExists
  <2>2. \A n \in Nat : f[n] = IF n = 0 THEN base ELSE LayNext(f[n - 1])
    <3> HIDE DEF V, next
    <3> QED  BY <1>6, <2>1
  <2>3. B(f)
    <3> HIDE DEF V
    <3> QED  BY <2>1, <2>2
  <2> HIDE DEF B
  <2> QED  BY <2>3
<1>8. g[0] = base /\ \A n \in Nat : n + 1 \in Nat /\ g[n + 1] = LayNext(g[n])
  <2> HIDE DEF g
  <2>1. g[0] = base
    BY <1>7
  <2>2. ASSUME NEW n \in Nat PROVE n + 1 \in Nat /\ g[n + 1] = LayNext(g[n])
    <3>1. n + 1 \in Nat /\ n + 1 # 0 /\ (n + 1) - 1 = n
      OBVIOUS
    <3> QED  BY <1>7, <3>1
  <2> QED  BY <2>1, <2>2
<1> HIDE DEF g, V
<1>9. Cardinality(E) \in Nat
  BY FS_CardinalityType DEF EntriesOK
<1> DEFINE good == {n \in Nat : g[n] \in V /\ (n <= Cardinality(E) => Remaining(g[n]) = Cardinality(E) - n)}
<1>10. Nat \subseteq good
  <2>1. 0 \in good
    BY <1>2, <1>4, <1>8, <1>9
  <2>2. ASSUME NEW n \in Nat, n \in good PROVE n + 1 \in good
    <3>1. g[n] \in V /\ (n <= Cardinality(E) => Remaining(g[n]) = Cardinality(E) - n)
      BY <2>2
    <3>2. g[n + 1] \in V /\ (Remaining(g[n]) # 0 => Remaining(g[n + 1]) = Remaining(g[n]) - 1)
      BY <1>5, <1>8, <3>1
    <3>3. n + 1 <= Cardinality(E) => Remaining(g[n + 1]) = Cardinality(E) - (n + 1)
      BY <1>9, <3>1, <3>2
    <3> QED  BY <3>2, <3>3
  <2> HIDE DEF good
  <2> QED  BY <2>1, <2>2, Inductive
<1>11. PICK s : s = g[Cardinality(E)]
  OBVIOUS
<1>12. s \in V /\ Remaining(s) = 0
  <2>1. Cardinality(E) \in good
    <3> HIDE DEF good
    <3> QED  BY <1>9, <1>10
  <2> QED  BY <1>9, <1>11, <2>1
<1>13. PICK C, off : LayGood(s, M, E, own, C, off)
  BY <1>12 DEF V
<1>14. s.sorted = <<>> /\ s.loose = <<>> /\ s.vs \in Seq(M)
  <2>1. s.sorted \in Seq(E) /\ s.loose \in Seq(E) /\ s.vs \in Seq(M)
    BY <1>13 DEF LayGood, LayTyped
  <2>2. PICK a \in Nat, b \in Nat : a = Len(s.sorted) /\ b = Len(s.loose)
    BY <2>1
  <2>3. a + b = 0
    BY <1>12, <2>2 DEF Remaining
  <2>4. a = 0 /\ b = 0
    BY <2>3
  <2>5. Len(s.sorted) = 0 /\ Len(s.loose) = 0
    BY <2>2, <2>4
  <2> QED  BY <2>1, <2>5
<1>15. C = E
  <2>1. Lines(s.sorted, Sortable(E) \ C, Before(Sortable(E))) /\ C \in SUBSET E
        /\ Lines(s.loose, (E \ Sortable(E)) \ C, ByIndex(E \ Sortable(E)))
    BY <1>13 DEF LayGood
  <2>2. Sortable(E) \ C = {} /\ (E \ Sortable(E)) \ C = {}
    BY <1>14, <2>1, LinesNone
  <2> QED  BY <2>1, <2>2
<1> QED  BY <1>1, <1>11, <1>13, <1>14, <1>15 DEF LayGood
-----------------------------------------------------------------------------
(* resolve_conflicts, with one constraint between the entries or none.     *)

\* Nothing was taken before.
LEMMA SwallowNone ==
  ASSUME NEW s, NEW c, s.taken[c] = <<>>
  PROVE  Swallow(s, c) = s
<1> DEFINE add(u, t) == IF u \notin t.gone /\ Conflict(t.entry[u], t.entry[c])
                        THEN [t EXCEPT !.gone = @ \union {u}, !.entry[c] = Merged(t.entry[u], t.entry[c])]
                        ELSE t
           D == DOMAIN s.taken[c]
           B(f) == f = [T \in SUBSET D |-> IF T = {} THEN s
                                           ELSE add(s.taken[c][Min(T)], f[T \ {Min(T)}])]
           g == CHOOSE f : B(f)
<1>1. Swallow(s, c) = g[D]
  BY DEF Swallow, FoldRight, MapThenFoldSet
<1>2. D = {}
  OBVIOUS
<1> HIDE DEF D, add
<1>3. B([T \in SUBSET D |-> s])
  BY <1>2
<1>4. B(g)
  <2> HIDE DEF B
  <2> QED  BY <1>3
<1>5. g[{}] = s
  <2>1. {} \in SUBSET D
    OBVIOUS
  <2> HIDE DEF g
  <2> QED  BY <1>4, <2>1
<1> QED  BY <1>1, <1>2, <1>5

\* One was taken before, and is still there.
LEMMA SwallowOne ==
  ASSUME NEW s, NEW c, NEW d, s.taken[c] = <<d>>, s.gone = {}
  PROVE  Swallow(s, c) = IF Conflict(s.entry[d], s.entry[c])
                         THEN [s EXCEPT !.gone = {d}, !.entry[c] = Merged(s.entry[d], s.entry[c])]
                         ELSE s
<1> DEFINE add(u, t) == IF u \notin t.gone /\ Conflict(t.entry[u], t.entry[c])
                        THEN [t EXCEPT !.gone = @ \union {u}, !.entry[c] = Merged(t.entry[u], t.entry[c])]
                        ELSE t
           D == DOMAIN s.taken[c]
           B(f) == f = [T \in SUBSET D |-> IF T = {} THEN s
                                           ELSE add(s.taken[c][Min(T)], f[T \ {Min(T)}])]
           g == CHOOSE f : B(f)
<1>1. Swallow(s, c) = g[D]
  BY DEF Swallow, FoldRight, MapThenFoldSet
<1>2. D = {1} /\ s.taken[c][1] = d
  OBVIOUS
<1>3. \A T \in SUBSET D : T # {} => T = {1} /\ Min(T) = 1 /\ T \ {1} = {}
  <2>1. Min({1}) = 1
    BY DEF Min
  <2> QED  BY <1>2, <2>1
<1>4. add(d, s) = IF Conflict(s.entry[d], s.entry[c])
                  THEN [s EXCEPT !.gone = {d}, !.entry[c] = Merged(s.entry[d], s.entry[c])]
                  ELSE s
  <2>1. s.gone \union {d} = {d} /\ d \notin s.gone
    OBVIOUS
  <2> QED  BY <2>1
<1> HIDE DEF D, add
<1>5. B([T \in SUBSET D |-> IF T = {} THEN s ELSE add(d, s)])
  <2> DEFINE h == [T \in SUBSET D |-> IF T = {} THEN s ELSE add(d, s)]
  <2>1. \A T \in SUBSET D : h[T] = IF T = {} THEN s ELSE add(s.taken[c][Min(T)], h[T \ {Min(T)}])
    <3>1. h[{}] = s
      OBVIOUS
    <3> HIDE DEF h
    <3>2. \A T \in SUBSET D : h[T] = IF T = {} THEN s ELSE add(d, s)
      BY DEF h
    <3> QED  BY <1>2, <1>3, <3>1, <3>2
  <2> HIDE DEF h
  <2>2. B(h)
    <3>1. h = [T \in SUBSET D |-> h[T]]
      BY DEF h
    <3> QED  BY <2>1, <3>1
  <2> QED  BY <2>2 DEF h
<1>6. B(g)
  <2> HIDE DEF B
  <2> QED  BY <1>5
<1>7. g[D] = add(d, s)
  <2> HIDE DEF g
  <2>1. g[{}] = s
    BY <1>6
  <2>2. D # {} /\ D \in SUBSET D
    BY <1>2
  <2>3. g[D] = add(s.taken[c][Min(D)], g[D \ {Min(D)}])
    BY <1>6, <2>2
  <2> QED  BY <1>2, <1>3, <2>1, <2>2, <2>3
<1> QED  BY <1>1, <1>4, <1>7

\* The variables of resolve_conflicts.
Takings(K, X) ==
  [entry : [K -> X], gone : SUBSET K, done : SUBSET K, ready : Seq(K),
   waiting : [K -> Nat], taken : [K -> Seq(K)]]

\* What resolve_conflicts works with when d has to stand to the left of e, and nothing else is
\* asked for.
Phase(s, K, ent, d, e) ==
  /\ s.done \in SUBSET K
  /\ e \in s.done => d \in s.done
  /\ s.entry = IF e \in s.done /\ Conflict(ent[d], ent[e])
               THEN [ent EXCEPT ![e] = Merged(ent[d], ent[e])] ELSE ent
  /\ s.gone = IF e \in s.done /\ Conflict(ent[d], ent[e]) THEN {d} ELSE {}
  /\ s.waiting = [x \in K |-> IF x = e /\ d \notin s.done THEN 1 ELSE 0]
  /\ s.taken = [x \in K |-> IF x = e /\ d \in s.done THEN <<d>> ELSE <<>>]
  /\ Lists(s.ready, IF d \in s.done THEN K \ s.done ELSE K \ (s.done \union {e}))

\* The listing of one entry, and of none.
LEMMA LinedOne ==
  ASSUME NEW a, a[1] \in Nat
  PROVE  Lined({a}, LAMBDA x, y : x[1] < y[1]) = <<a>>
<1>1. {w \in {a} : w[1] < a[1]} = {}
  OBVIOUS
<1>2. Cardinality({a}) = 1 /\ Cardinality({w \in {a} : w[1] < a[1]}) = 0
  BY <1>1, FS_Singleton, FS_EmptySet
<1>3. 1..1 = {1} /\ 1 - 1 = 0
  OBVIOUS
<1> DEFINE nth(n) == CHOOSE v \in {a} : Cardinality({w \in {a} : w[1] < v[1]}) = n - 1
<1>4. nth(1) = a
  BY <1>2, <1>3
<1>5. Lined({a}, LAMBDA x, y : x[1] < y[1]) = [n \in 1..Cardinality({a}) |-> nth(n)]
  BY DEF Lined
<1> HIDE DEF nth
<1>6. [n \in 1..Cardinality({a}) |-> nth(n)] = <<a>>
  <2>1. [n \in {1} |-> nth(n)] = <<a>>
    <3>1. <<a>> = [n \in 1..1 |-> a]
      OBVIOUS
    <3> QED  BY <1>3, <1>4, <3>1
  <2> QED  BY <1>2, <1>3, <2>1
<1> QED  BY <1>5, <1>6
LEMMA LinedNone == Lined({}, LAMBDA x, y : x[1] < y[1]) = <<>>
<1> DEFINE nth(n) == CHOOSE v \in {} : Cardinality({w \in {} : w[1] < v[1]}) = n - 1
<1>1. Lined({}, LAMBDA x, y : x[1] < y[1]) = [n \in 1..Cardinality({}) |-> nth(n)]
  BY DEF Lined
<1> HIDE DEF nth
<1>2. Cardinality({}) = 0 /\ 1..0 = {}
  BY FS_EmptySet
<1>3. [n \in 1..Cardinality({}) |-> nth(n)] = <<>>
  BY <1>2
<1> QED  BY <1>1, <1>3

\* Taking a child that none has to follow.
LEMMA TakeLoose ==
  ASSUME NEW s, NEW c, c = Last(s.ready), NEW arc, c # arc[2]
  PROVE  Take({arc}, s) =
           [entry |-> Swallow(s, c).entry, gone |-> Swallow(s, c).gone, done |-> s.done \union {c},
            ready |-> Front(s.ready) \o <<>>,
            waiting |-> [x \in DOMAIN s.waiting |-> s.waiting[x]],
            taken |-> [x \in DOMAIN s.taken |-> s.taken[x]]]
<1> DEFINE arcs == {arc}
           next == {a \in arcs : a[2] = c}
           right == {a[3] : a \in next}
           free == {a \in next : s.waiting[a[3]] = 1}
           freed == Lined(free, LAMBDA a, b : a[1] < b[1])
<1>1. next = {} /\ right = {} /\ free = {}
  OBVIOUS
<1>2. freed = <<>>
  BY <1>1, LinedNone
<1>3. Take(arcs, s) =
        [entry |-> Swallow(s, c).entry, gone |-> Swallow(s, c).gone, done |-> s.done \union {c},
         ready |-> Front(s.ready) \o [n \in DOMAIN freed |-> freed[n][3]],
         waiting |-> [x \in DOMAIN s.waiting |-> IF x \in right THEN s.waiting[x] - 1 ELSE s.waiting[x]],
         taken |-> [x \in DOMAIN s.taken |-> IF x \in right THEN Append(s.taken[x], c) ELSE s.taken[x]]]
  BY DEF Take
<1> HIDE DEF freed, right, arcs
<1>4. [n \in DOMAIN freed |-> freed[n][3]] = <<>>
  BY <1>2
<1>5. [x \in DOMAIN s.waiting |-> IF x \in right THEN s.waiting[x] - 1 ELSE s.waiting[x]]
        = [x \in DOMAIN s.waiting |-> s.waiting[x]]
  BY <1>1
<1>6. [x \in DOMAIN s.taken |-> IF x \in right THEN Append(s.taken[x], c) ELSE s.taken[x]]
        = [x \in DOMAIN s.taken |-> s.taken[x]]
  BY <1>1
<1> QED  BY <1>3, <1>4, <1>5, <1>6 DEF arcs

\* One more child is taken.
PhaseGoesOn(arc, s, K, X, ent, d, e) ==
  /\ s.ready # <<>>
  /\ Take({arc}, s) \in Takings(K, X)
  /\ Phase(Take({arc}, s), K, ent, d, e)
  /\ \E c \in K \ s.done : Take({arc}, s).done = s.done \union {c}

\* A turn of resolve_conflicts under one constraint.
LEMMA PhaseStep ==
  ASSUME NEW K \in SUBSET Int, NEW X, NEW ent \in [K -> X], NEW d \in K, NEW e \in K, d # e,
         NEW arc, arc[1] \in Nat, arc[2] = d, arc[3] = e,
         Merged(ent[d], ent[e]) \in X,
         NEW s \in Takings(K, X),
         Phase(s, K, ent, d, e), s.done # K
  PROVE  PhaseGoesOn(arc, s, K, X, ent, d, e)
<1> DEFINE S == IF d \in s.done THEN K \ s.done ELSE K \ (s.done \union {e})
           c == Last(s.ready)
           t == Take({arc}, s)
           mer == Merged(ent[d], ent[e])
           conf == Conflict(ent[d], ent[e])
           T == Takings(K, X)
<1>1. /\ s.done \in SUBSET K /\ (e \in s.done => d \in s.done) /\ Lists(s.ready, S)
      /\ s.entry = IF e \in s.done /\ conf THEN [ent EXCEPT ![e] = mer] ELSE ent
      /\ s.gone = IF e \in s.done /\ conf THEN {d} ELSE {}
      /\ s.waiting = [x \in K |-> IF x = e /\ d \notin s.done THEN 1 ELSE 0]
      /\ s.taken = [x \in K |-> IF x = e /\ d \in s.done THEN <<d>> ELSE <<>>]
  BY DEF Phase
<1>2. S # {}
  <2>1. (d \in s.done => \E x \in K : x \notin s.done) /\ (d \notin s.done => d \in K \ (s.done \union {e}))
    <3>1. s.done \in SUBSET K
      BY <1>1
    <3> QED  BY <3>1
  <2> QED  BY <2>1
<1>3. s.ready # <<>> /\ c \in S /\ Lists(Front(s.ready), S \ {c})
  <2> HIDE DEF S
  <2> QED  BY <1>1, <1>2, ListsFront
<1>4. c \in K \ s.done /\ (d \notin s.done => c # e)
  BY <1>3
<1>5. s.entry \in [K -> X] /\ s.gone \in SUBSET K /\ s.waiting \in [K -> Nat] /\ s.taken \in [K -> Seq(K)]
  BY DEF Takings
<1>6. ASSUME NEW q, Lists(q, IF d \in s.done \union {c} THEN K \ (s.done \union {c}) ELSE K \ (s.done \union {c, e}))
      PROVE  q \in Seq(K)
  <2> DEFINE Q == IF d \in s.done \union {c} THEN K \ (s.done \union {c}) ELSE K \ (s.done \union {c, e})
  <2>1. q \in Seq(Q) /\ Q \subseteq K
    BY <1>6 DEF Lists
  <2> HIDE DEF Q
  <2> QED  BY <2>1, SeqWider
<1>7. CASE c = d
  <2>1. d \notin s.done /\ e \notin s.done /\ S = K \ (s.done \union {e})
    BY <1>1, <1>4, <1>7
  <2>2. s.entry = ent /\ s.gone = {} /\ s.taken[d] = <<>> /\ s.waiting[e] = 1
    BY <1>1, <2>1
  <2>3. Swallow(s, d) = s
    BY <2>2, SwallowNone
  <2>4. PICK w, q : /\ w = [x \in K |-> IF x = e /\ d \notin s.done \union {d} THEN 1 ELSE 0]
                    /\ q = [x \in K |-> IF x = e /\ d \in s.done \union {d} THEN <<d>> ELSE <<>>]
    OBVIOUS
  <2>5. w \in [K -> Nat] /\ \A x \in K : w[x] = IF x = e THEN 0 ELSE s.waiting[x]
    BY <1>1, <2>1, <2>4
  <2>6. q \in [K -> Seq(K)] /\ \A x \in K : q[x] = IF x = e THEN Append(s.taken[x], d) ELSE s.taken[x]
    <3>1. \A x \in K : s.taken[x] = <<>>
      BY <1>1, <2>1
    <3>2. Append(<<>>, d) = <<d>> /\ <<d>> \in Seq(K) /\ <<>> \in Seq(K)
      OBVIOUS
    <3> QED  BY <2>4, <3>1, <3>2
  <2>13. t = [entry |-> Swallow(s, d).entry, gone |-> Swallow(s, d).gone, done |-> s.done \union {d},
              ready |-> Front(s.ready) \o <<e>>, waiting |-> w, taken |-> q]
    <3> DEFINE arcs == {arc}
               next == {a \in arcs : a[2] = d}
               right == {a[3] : a \in next}
               free == {a \in next : s.waiting[a[3]] = 1}
               freed == Lined(free, LAMBDA a, b : a[1] < b[1])
    <3>1. Last(s.ready) = d /\ s.waiting[e] = 1
      BY <1>7, <2>2
    <3>2. next = {arc} /\ right = {e} /\ free = {arc} /\ arc[1] \in Nat /\ arc[3] = e
      <4>1. next = {arc}
        OBVIOUS
      <4> HIDE DEF next
      <4> QED  BY <3>1, <4>1
    <3>3. freed = <<arc>>
      <4> HIDE DEF next
      <4>1. Lined({arc}, LAMBDA a, b : a[1] < b[1]) = <<arc>>
        BY <3>2, LinedOne
      <4>2. freed = Lined({arc}, LAMBDA a, b : a[1] < b[1])
        BY <3>2
      <4> QED  BY <4>1, <4>2
    <3>4. Take(arcs, s) =
            [entry |-> Swallow(s, d).entry, gone |-> Swallow(s, d).gone, done |-> s.done \union {d},
             ready |-> Front(s.ready) \o [n \in DOMAIN freed |-> freed[n][3]],
             waiting |-> [x \in DOMAIN s.waiting |-> IF x \in right THEN s.waiting[x] - 1 ELSE s.waiting[x]],
             taken |-> [x \in DOMAIN s.taken |-> IF x \in right THEN Append(s.taken[x], d) ELSE s.taken[x]]]
      BY <3>1 DEF Take
    <3> HIDE DEF freed, right, arcs
    <3>5. [n \in DOMAIN freed |-> freed[n][3]] = <<e>>
      BY <3>2, <3>3
    <3>6. [x \in DOMAIN s.waiting |-> IF x \in right THEN s.waiting[x] - 1 ELSE s.waiting[x]] = w
      <4>1. \A x \in K : (IF x \in right THEN s.waiting[x] - 1 ELSE s.waiting[x]) = w[x]
        <5> TAKE x \in K
        <5>1. CASE x = e
          <6>1. s.waiting[x] = 1 /\ w[x] = 0 /\ 1 - 1 = 0
            BY <2>5, <3>1, <5>1
          <6> QED  BY <3>2, <5>1, <6>1
        <5>2. CASE x # e
          BY <2>5, <3>2, <5>2
        <5> QED  BY <5>1, <5>2
      <4>2. DOMAIN s.waiting = K /\ w = [x \in K |-> w[x]]
        BY <1>5, <2>5
      <4> QED  BY <4>1, <4>2
    <3>7. [x \in DOMAIN s.taken |-> IF x \in right THEN Append(s.taken[x], d) ELSE s.taken[x]] = q
      <4>1. \A x \in K : (IF x \in right THEN Append(s.taken[x], d) ELSE s.taken[x]) = q[x]
        BY <2>6, <3>2
      <4>2. DOMAIN s.taken = K /\ q = [x \in K |-> q[x]]
        BY <1>5, <2>6
      <4> QED  BY <4>1, <4>2
    <3> HIDE DEF t, c, S, mer, conf
    <3>8. t = Take(arcs, s)
      BY DEF t, arcs
    <3> QED  BY <3>4, <3>5, <3>6, <3>7, <3>8
  <2>7. Lists(Front(s.ready) \o <<e>>, K \ (s.done \union {d}))
    <3>1. Lists(<<e>>, {e})
      <4>1. <<e>> \in Seq({e}) /\ Len(<<e>>) = 1 /\ <<e>>[1] = e /\ DOMAIN <<e>> = {1} /\ 1 \in 1..1
        OBVIOUS
      <4> QED  BY <4>1 DEF Lists, IsInjective
    <3>2. (S \ {d}) \intersect {e} = {} /\ (S \ {d}) \union {e} = K \ (s.done \union {d})
      BY <2>1
    <3> HIDE DEF S
    <3>3. Lists(Front(s.ready) \o <<e>>, (S \ {d}) \union {e})
      BY <1>3, <1>7, <3>1, <3>2, ListsJoined
    <3> QED  BY <3>2, <3>3
  <2> HIDE DEF t, c, S
  <2>8. /\ t.entry = ent /\ t.gone = {} /\ t.done = s.done \union {d} /\ t.ready = Front(s.ready) \o <<e>>
        /\ t.waiting = [x \in K |-> IF x = e /\ d \notin s.done \union {d} THEN 1 ELSE 0]
        /\ t.taken = [x \in K |-> IF x = e /\ d \in s.done \union {d} THEN <<d>> ELSE <<>>]
        /\ t = [entry |-> t.entry, gone |-> t.gone, done |-> t.done, ready |-> t.ready,
                waiting |-> t.waiting, taken |-> t.taken]
    BY <2>2, <2>3, <2>4, <2>13
  <2>9. e \notin t.done /\ d \in t.done
    BY <2>1, <2>8
  <2>10. t.waiting \in [K -> Nat] /\ t.taken \in [K -> Seq(K)] /\ t.ready \in Seq(K)
    <3>1. t.waiting \in [K -> Nat]
      BY <2>8
    <3>2. t.taken \in [K -> Seq(K)]
      <4>1. <<d>> \in Seq(K) /\ <<>> \in Seq(K)
        OBVIOUS
      <4> QED  BY <2>8, <4>1
    <3>3. t.ready \in Seq(K)
      <4>1. Lists(t.ready, K \ (s.done \union {d}))
        BY <2>7, <2>8
      <4>2. d \in s.done \union {d}
        OBVIOUS
      <4> QED  BY <1>6, <1>7, <4>1, <4>2
    <3> QED  BY <3>1, <3>2, <3>3
  <2>11. t \in T
    BY <2>8, <2>10 DEF Takings
  <2>12. Phase(t, K, ent, d, e)
    BY <2>7, <2>8, <2>9 DEF Phase
  <2> QED  BY <1>3, <1>4, <1>7, <2>8, <2>11, <2>12 DEF t, PhaseGoesOn
<1>8. CASE c # d
  <2>1. S \ {c} = IF d \in s.done \union {c} THEN K \ (s.done \union {c}) ELSE K \ (s.done \union {c, e})
    BY <1>8
  <2>2. t = [entry |-> Swallow(s, c).entry, gone |-> Swallow(s, c).gone, done |-> s.done \union {c},
             ready |-> Front(s.ready) \o <<>>,
             waiting |-> [x \in DOMAIN s.waiting |-> s.waiting[x]],
             taken |-> [x \in DOMAIN s.taken |-> s.taken[x]]]
    BY <1>8, TakeLoose
  <2>3. Front(s.ready) \o <<>> = Front(s.ready)
    <3>1. Front(s.ready) \in Seq(S \ {c})
      BY <1>3 DEF Lists
    <3> HIDE DEF S, c
    <3> QED  BY <3>1
  <2>4. [x \in DOMAIN s.waiting |-> s.waiting[x]] = s.waiting /\ [x \in DOMAIN s.taken |-> s.taken[x]] = s.taken
    BY <1>5
  <2>5. /\ Swallow(s, c).entry = IF e \in s.done \union {c} /\ conf THEN [ent EXCEPT ![e] = mer] ELSE ent
        /\ Swallow(s, c).gone = IF e \in s.done \union {c} /\ conf THEN {d} ELSE {}
    <3>1. CASE c = e
      <4>1. d \in s.done /\ e \notin s.done
        BY <1>4, <3>1
      <4>2. s.taken[e] = <<d>> /\ s.gone = {} /\ s.entry = ent
        BY <1>1, <4>1
      <4>3. Swallow(s, e) = IF conf THEN [s EXCEPT !.gone = {d}, !.entry[e] = mer] ELSE s
        BY <4>2, SwallowOne
      <4> HIDE DEF conf, mer, c, S, t
      <4>4. conf => Swallow(s, e).gone = {d} /\ Swallow(s, e).entry = [ent EXCEPT ![e] = mer]
        BY <4>2, <4>3 DEF Takings
      <4> QED  BY <3>1, <4>1, <4>2, <4>3, <4>4
    <3>2. CASE c # e
      <4>1. s.taken[c] = <<>>
        BY <1>1, <1>4, <3>2
      <4>2. Swallow(s, c) = s
        BY <4>1, SwallowNone
      <4>3. e \in s.done \union {c} <=> e \in s.done
        BY <3>2
      <4> QED  BY <1>1, <4>2, <4>3
    <3> QED  BY <3>1, <3>2
  <2> HIDE DEF t, c, S, mer, conf
  <2>6. /\ t.entry = IF e \in s.done \union {c} /\ conf THEN [ent EXCEPT ![e] = mer] ELSE ent
        /\ t.gone = IF e \in s.done \union {c} /\ conf THEN {d} ELSE {}
        /\ t.done = s.done \union {c} /\ t.ready = Front(s.ready)
        /\ t.waiting = s.waiting /\ t.taken = s.taken
        /\ t = [entry |-> t.entry, gone |-> t.gone, done |-> t.done, ready |-> t.ready,
                waiting |-> t.waiting, taken |-> t.taken]
    BY <2>2, <2>3, <2>4, <2>5
  <2>7. d \in s.done <=> d \in t.done
    BY <1>8, <2>6
  <2>8. t.entry \in [K -> X] /\ t.gone \in SUBSET K /\ t.done \in SUBSET K
    <3>1. mer \in X /\ [ent EXCEPT ![e] = mer] \in [K -> X]
      BY DEF mer
    <3> QED  BY <1>1, <1>4, <2>6, <3>1
  <2>9. Lists(t.ready, IF d \in t.done THEN K \ t.done ELSE K \ (t.done \union {e}))
    <3>1. s.done \union {c, e} = t.done \union {e}
      BY <2>6
    <3> QED  BY <1>3, <2>1, <2>6, <3>1
  <2>10. t.ready \in Seq(K)
    BY <1>3, <1>6, <2>1, <2>6
  <2>11. t \in T
    BY <1>5, <2>6, <2>8, <2>10 DEF Takings
  <2>12. Phase(t, K, ent, d, e)
    <3>1. e \in t.done => d \in t.done
      BY <1>1, <1>4, <2>6
    <3>2. t.waiting = [x \in K |-> IF x = e /\ d \notin t.done THEN 1 ELSE 0]
          /\ t.taken = [x \in K |-> IF x = e /\ d \in t.done THEN <<d>> ELSE <<>>]
      BY <1>1, <2>6, <2>7
    <3> QED  BY <2>6, <2>8, <2>9, <3>1, <3>2 DEF Phase, conf, mer
  <2> QED  BY <1>3, <1>4, <2>6, <2>11, <2>12 DEF t, PhaseGoesOn
<1> QED  BY <1>7, <1>8

\* The entry of each child.
EntryBy(E) == [c \in {e.child : e \in E} |-> CHOOSE e \in E : e.child = c]

\* Entries of different children are told apart by their child.
LEMMA EntriesByChild ==
  ASSUME NEW E, IsFiniteSet(E), \A e, f \in E : e.child = f.child => e = f
  PROVE  /\ EntryBy(E) \in [{e.child : e \in E} -> E]
         /\ \A c \in {e.child : e \in E} : EntryBy(E)[c].child = c
         /\ \A e \in E : EntryBy(E)[e.child] = e
         /\ IsFiniteSet({e.child : e \in E})
<1> DEFINE K == {e.child : e \in E}
<1>1. ASSUME NEW c \in K PROVE EntryBy(E)[c] \in E /\ EntryBy(E)[c].child = c
  <2>1. \E e \in E : e.child = c
    OBVIOUS
  <2> QED  BY <2>1 DEF EntryBy
<1>2. EntryBy(E) \in [K -> E]
  <2>1. EntryBy(E) = [c \in K |-> EntryBy(E)[c]]
    BY DEF EntryBy
  <2> QED  BY <1>1, <2>1
<1>3. \A e \in E : EntryBy(E)[e.child] = e
  BY <1>1
<1>4. IsFiniteSet(K)
  <2> DEFINE f == [e \in E |-> e.child]
  <2>1. DOMAIN f = E /\ K = {f[e] : e \in E}
    OBVIOUS
  <2> HIDE DEF f, K
  <2> QED  BY <2>1, FiniteImage
<1> QED  BY <1>1, <1>2, <1>3, <1>4

\* Under one constraint the entry on the right swallows the one on the left if it would stand
\* before it, and nothing else happens.
LEMMA ResolvedOne ==
  ASSUME NEW E, IsFiniteSet(E), \A e, f \in E : e.child = f.child => e = f,
         {e.child : e \in E} \in SUBSET Int,
         NEW arc, arc[1] \in Nat, NEW d \in {e.child : e \in E}, NEW e \in {f.child : f \in E}, d # e,
         arc[2] = d, arc[3] = e, Arcs({f.child : f \in E}) = {arc}
  PROVE  Resolved(E) =
           IF Conflict(EntryBy(E)[d], EntryBy(E)[e])
           THEN (E \ {EntryBy(E)[d], EntryBy(E)[e]}) \union {Merged(EntryBy(E)[d], EntryBy(E)[e])}
           ELSE E
<1> DEFINE K == {f.child : f \in E}
           ent == EntryBy(E)
           mer == Merged(ent[d], ent[e])
           conf == Conflict(ent[d], ent[e])
           X == E \union {mer}
           arcs == Arcs(K)
           waiting == [c \in K |-> Cardinality({a \in arcs : a[3] = c})]
           base == [entry |-> [c \in K |-> CHOOSE f \in E : f.child = c],
                    gone |-> {}, done |-> {}, waiting |-> waiting, taken |-> [c \in K |-> <<>>],
                    ready |-> InOrder({c \in K : waiting[c] = 0})]
           B(f) == f = [n \in Nat |-> IF n = 0 THEN base
                                      ELSE LET s == f[n - 1] IN IF s.ready = <<>> THEN s ELSE Take(arcs, s)]
           T == Takings(K, X)
           V == {s \in T : Phase(s, K, ent, d, e)}
           next(s) == IF s.ready = <<>> THEN s ELSE Take(arcs, s)
           succ == [s \in V |-> next(s)]
           g == CHOOSE f : B(f)
           final == g[Cardinality(K)]
<1>1. /\ ent \in [K -> E] /\ \A c \in K : ent[c].child = c
      /\ \A f \in E : ent[f.child] = f
      /\ IsFiniteSet(K) /\ K \in SUBSET Int /\ d \in K /\ e \in K /\ arcs = {arc} /\ arcs # {}
  <2> HIDE DEF K
  <2>1. /\ ent \in [K -> E] /\ \A c \in K : ent[c].child = c
        /\ \A f \in E : ent[f.child] = f
        /\ IsFiniteSet(K)
    BY EntriesByChild DEF K
  <2>2. K \in SUBSET Int /\ d \in K /\ e \in K /\ arcs = {arc}
    BY DEF K
  <2> QED  BY <2>1, <2>2
<1>2. Resolved(E) = {final.entry[c] : c \in final.done \ final.gone}
  <2>1. arcs # {}
    BY <1>1
  <2> QED  BY <2>1 DEF Resolved
<1>3. base.entry = ent
  BY DEF EntryBy
<1> HIDE DEF K, arcs, ent
<1>4. waiting = [x \in K |-> IF x = e /\ d \notin {} THEN 1 ELSE 0]
  <2>1. ASSUME NEW x \in K PROVE Cardinality({a \in arcs : a[3] = x}) = IF x = e THEN 1 ELSE 0
    <3>1. arc[3] = e
      OBVIOUS
    <3>2. CASE x = e
      <4>1. {a \in arcs : a[3] = x} = {arc}
        BY <1>1, <3>1, <3>2
      <4> QED  BY <3>2, <4>1, FS_Singleton
    <3>3. CASE x # e
      <4>1. {a \in arcs : a[3] = x} = {}
        BY <1>1, <3>1, <3>3
      <4> QED  BY <3>3, <4>1, FS_EmptySet
    <3> QED  BY <3>2, <3>3
  <2> QED  BY <2>1
<1>5. base \in T /\ Phase(base, K, ent, d, e)
  <2> DEFINE R == {c \in K : waiting[c] = 0}
  <2>1. R = K \ ({} \union {e})
    BY <1>4
  <2>2. IsFiniteSet(R) /\ R \in SUBSET Int /\ R \in SUBSET K
    <3> HIDE DEF waiting
    <3>1. R \in SUBSET K
      OBVIOUS
    <3> HIDE DEF R
    <3> QED  BY <1>1, <3>1, FS_Subset
  <2> HIDE DEF R, waiting
  <2>3. Lists(InOrder(R), R)
    BY <2>2, ListsInOrder
  <2>4. /\ base.entry = ent /\ base.gone = {} /\ base.done = {} /\ base.waiting = waiting
        /\ base.taken = [c \in K |-> <<>>] /\ base.ready = InOrder(R)
        /\ base = [entry |-> base.entry, gone |-> base.gone, done |-> base.done, ready |-> base.ready,
                   waiting |-> base.waiting, taken |-> base.taken]
    BY <1>3 DEF R
  <2>5. base.ready \in Seq(K)
    <3>1. InOrder(R) \in Seq(R)
      BY <2>3 DEF Lists
    <3>2. InOrder(R) \in Seq(K)
      BY <2>2, <3>1, SeqWider
    <3> QED  BY <2>4, <3>2
  <2>6. base.entry \in [K -> X] /\ base.waiting \in [K -> Nat] /\ base.taken \in [K -> Seq(K)]
    <3>1. base.entry \in [K -> X]
      BY <1>1, <2>4
    <3>2. base.waiting \in [K -> Nat]
      BY <1>4, <2>4
    <3>3. base.taken \in [K -> Seq(K)]
      <4>1. <<>> \in Seq(K)
        OBVIOUS
      <4> QED  BY <2>4, <4>1
    <3> QED  BY <3>1, <3>2, <3>3
  <2> HIDE DEF base
  <2>7. base \in T
    BY <2>4, <2>5, <2>6 DEF Takings
  <2>8. Phase(base, K, ent, d, e)
    <3>1. d \notin base.done /\ e \notin base.done /\ base.done \in SUBSET K
      BY <2>4
    <3>2. base.waiting = [x \in K |-> IF x = e /\ d \notin base.done THEN 1 ELSE 0]
      BY <1>4, <2>4
    <3>3. base.taken = [x \in K |-> IF x = e /\ d \in base.done THEN <<d>> ELSE <<>>]
      BY <2>4
    <3>4. Lists(base.ready, IF d \in base.done THEN K \ base.done ELSE K \ (base.done \union {e}))
      BY <2>1, <2>3, <2>4
    <3> QED  BY <2>4, <3>1, <3>2, <3>3, <3>4 DEF Phase
  <2> QED  BY <2>7, <2>8
<1> HIDE DEF base
<1>6. ASSUME NEW s \in V
      PROVE  /\ next(s) \in V
             /\ IF s.done = K THEN next(s) = s ELSE \E c \in K \ s.done : next(s).done = s.done \union {c}
  <2>1. s \in T /\ Phase(s, K, ent, d, e)
    OBVIOUS
  <2>2. CASE s.done # K
    <3>1. ent \in [K -> X] /\ mer \in X
      BY <1>1
    <3>2. /\ s.ready # <<>>
          /\ Take({arc}, s) \in T
          /\ Phase(Take({arc}, s), K, ent, d, e)
          /\ \E c \in K \ s.done : Take({arc}, s).done = s.done \union {c}
      <4>1. /\ K \in SUBSET Int /\ ent \in [K -> X] /\ d \in K /\ e \in K /\ d # e
            /\ Merged(ent[d], ent[e]) \in X /\ s \in Takings(K, X) /\ Phase(s, K, ent, d, e) /\ s.done # K
        BY <1>1, <2>1, <2>2, <3>1
      <4> HIDE DEF X, mer, V, next, succ, g, final, B
      <4>2. PhaseGoesOn(arc, s, K, X, ent, d, e)
        BY <4>1, PhaseStep, Zenon
      <4> QED  BY <4>2 DEF PhaseGoesOn
    <3>3. next(s) = Take({arc}, s)
      BY <1>1, <3>2
    <3> QED  BY <2>2, <3>2, <3>3
  <2>3. CASE s.done = K
    <3>1. Lists(s.ready, K \ s.done)
      BY <1>1, <2>1, <2>3 DEF Phase
    <3>2. s.ready = <<>>
      <4>1. s.ready \in Seq(K \ s.done) /\ Len(s.ready) \in Nat
        BY <3>1 DEF Lists
      <4>2. s.ready # <<>> => Head(s.ready) \in K \ s.done
        BY <4>1, HeadAndTail
      <4> QED  BY <2>3, <4>2
    <3> QED  BY <2>3, <3>2
  <2> QED  BY <2>2, <2>3
<1>7. succ \in [V -> V] /\ \A s \in V : succ[s] = next(s)
  <2> HIDE DEF V, next
  <2> QED  BY <1>6
<1>8. B(g)
  <2>1. base \in V
    BY <1>5
  <2>2. PICK f \in [Nat -> V] : f[0] = base /\ \A n \in Nat : n # 0 => n - 1 \in Nat /\ f[n - 1] \in V /\ f[n] = succ[f[n - 1]]
    <3> HIDE DEF V, succ
    <3> QED  BY <1>7, <2>1, RecursionExists
  <2>3. \A n \in Nat : f[n] = IF n = 0 THEN base ELSE next(f[n - 1])
    <3> HIDE DEF V, succ, next
    <3> QED  BY <1>7, <2>2
  <2>4. B(f)
    <3>1. f = [n \in Nat |-> f[n]]
      <4> HIDE DEF V
      <4> QED  BY <2>2
    <3> QED  BY <2>3, <3>1
  <2> HIDE DEF B
  <2> QED  BY <2>4
<1>9. g[0] = base /\ \A n \in Nat : n + 1 \in Nat /\ g[n + 1] = next(g[n])
  <2> HIDE DEF g
  <2>1. g[0] = base
    BY <1>8
  <2>2. ASSUME NEW n \in Nat PROVE n + 1 \in Nat /\ g[n + 1] = next(g[n])
    <3>1. n + 1 \in Nat /\ n + 1 # 0 /\ (n + 1) - 1 = n
      OBVIOUS
    <3> QED  BY <1>8, <3>1
  <2> QED  BY <2>1, <2>2
<1>10. Cardinality(K) \in Nat
  BY <1>1, FS_CardinalityType
<1>11. base \in V /\ base.done = {}
  BY <1>5 DEF base
<1> HIDE DEF g, V, next
<1> DEFINE good == {n \in Nat : g[n] \in V /\ (n <= Cardinality(K) => Cardinality(g[n].done) = n)}
<1>12. \A s \in V : s.done \in SUBSET K
  BY DEF V, Takings
<1>13. Nat \subseteq good
  <2>1. 0 \in good
    BY <1>9, <1>11, FS_EmptySet
  <2>2. ASSUME NEW n \in Nat, n \in good PROVE n + 1 \in good
    <3>1. PICK s \in V : s = g[n]
      BY <2>2
    <3>2. g[n + 1] = next(s) /\ next(s) \in V
      BY <1>6, <1>9, <3>1
    <3>3. ASSUME n + 1 <= Cardinality(K) PROVE Cardinality(next(s).done) = n + 1
      <4>1. n <= Cardinality(K)
        BY <1>10, <3>3
      <4>2. Cardinality(s.done) = n
        BY <2>2, <3>1, <4>1
      <4>3. s.done # K
        BY <1>10, <3>3, <4>2
      <4>4. PICK c \in K \ s.done : next(s).done = s.done \union {c}
        BY <1>6, <4>3
      <4>5. IsFiniteSet(s.done)
        BY <1>1, <1>12, FS_Subset
      <4> QED  BY <4>2, <4>4, <4>5, FS_AddElement
    <3> QED  BY <1>9, <3>2, <3>3
  <2> HIDE DEF good
  <2> QED  BY <2>1, <2>2, Inductive
<1>14. final \in V /\ final.done = K
  <2>1. Cardinality(K) \in good
    <3> HIDE DEF good
    <3> QED  BY <1>10, <1>13
  <2>2. final \in V /\ Cardinality(final.done) = Cardinality(K)
    BY <1>10, <2>1
  <2>3. final.done \in SUBSET K
    BY <1>12, <2>2
  <2> QED  BY <1>1, <2>2, <2>3, FS_Subset
<1>15. /\ final.entry = IF conf THEN [ent EXCEPT ![e] = mer] ELSE ent
       /\ final.gone = IF conf THEN {d} ELSE {}
  <2>1. Phase(final, K, ent, d, e) /\ e \in final.done
    BY <1>1, <1>14 DEF V
  <2> QED  BY <2>1 DEF Phase
<1> HIDE DEF final
<1>16. CASE conf
  <2>1. final.done \ final.gone = K \ {d} /\ final.entry = [ent EXCEPT ![e] = mer]
    BY <1>14, <1>15, <1>16
  <2>2. ASSUME NEW c \in K \ {d} PROVE final.entry[c] \in (E \ {ent[d], ent[e]}) \union {mer}
    <3>1. CASE c = e
      BY <1>1, <2>1, <3>1
    <3>2. CASE c # e
      <4>1. final.entry[c] = ent[c] /\ ent[c] \in E
        BY <1>1, <2>1, <3>2
      <4>2. ent[c] # ent[d] /\ ent[c] # ent[e]
        BY <1>1, <3>2
      <4> QED  BY <4>1, <4>2
    <3> QED  BY <3>1, <3>2
  <2>3. ASSUME NEW f \in (E \ {ent[d], ent[e]}) \union {mer} PROVE \E c \in K \ {d} : final.entry[c] = f
    <3>1. CASE f = mer
      <4>1. e \in K \ {d} /\ final.entry[e] = mer
        BY <1>1, <2>1
      <4> QED  BY <3>1, <4>1
    <3>2. CASE f \in E \ {ent[d], ent[e]}
      <4>1. f.child \in K /\ ent[f.child] = f
        BY <1>1, <3>2 DEF K
      <4>2. f.child # d /\ f.child # e
        BY <3>2, <4>1
      <4>3. final.entry[f.child] = f
        BY <1>1, <2>1, <4>1, <4>2
      <4> QED  BY <4>1, <4>2, <4>3
    <3> QED  BY <3>1, <3>2
  <2>4. {final.entry[c] : c \in K \ {d}} = (E \ {ent[d], ent[e]}) \union {mer}
    <3> HIDE DEF mer
    <3> QED  BY <2>2, <2>3
  <2> QED  BY <1>2, <1>16, <2>1, <2>4 DEF ent
<1>17. CASE ~conf
  <2>1. final.done \ final.gone = K /\ final.entry = ent
    BY <1>14, <1>15, <1>17
  <2>2. \A c \in K : final.entry[c] \in E
    BY <1>1, <2>1
  <2>3. \A f \in E : f.child \in K /\ final.entry[f.child] = f
    BY <1>1, <2>1 DEF K
  <2>4. {final.entry[c] : c \in K} = E
    BY <2>2, <2>3
  <2> QED  BY <1>2, <1>17, <2>1, <2>4 DEF ent
<1> QED  BY <1>16, <1>17

\* The nodes of the entries, those of one together.
Placed(t, E, off) ==
  /\ IsInjective(t)
  /\ ToSet(t) = UNION {ToSet(e.vs) : e \in E}
  /\ \A e \in E : Embeds(t, e.vs, off[e])

\* Entries as they come from the children: each has a child of its own, at least one node, and
\* a place in the numbering.
ChildEntries(E, M) ==
  /\ EntriesOK(E, M)
  /\ \A e, f \in E : e.child = f.child => e = f
  /\ E \subseteq [child : Int, vs : Seq(M), i : Nat, sum : Int, weight : Nat]
  /\ \A e \in E : Len(e.vs) >= 1
  /\ \A e \in E : \A n \in Nat : n < e.i => \E f \in E : f.i = n

\* At most one constraint between them, and then both have a barycenter.
OneArc(arc, E, d, e) ==
  /\ arc[1] \in Nat /\ arc[2] = d /\ arc[3] = e /\ d # e
  /\ d \in {f.child : f \in E} /\ e \in {f.child : f \in E}
  /\ Arcs({f.child : f \in E}) = {arc}
  /\ EntryBy(E)[d].weight # 0 /\ EntryBy(E)[e].weight # 0

\* The entries of the children of a compound have lists without a common node.
LEMMA UnresolvedAccounts ==
  ASSUME NEW M, NEW E, ChildEntries(E, M)
  PROVE  \E own : Accounts(E, own)
<1> DEFINE own == [e \in E |-> {e.i}]
<1>1. ASSUME NEW e \in E PROVE /\ own[e] \in SUBSET Nat /\ IsFiniteSet(own[e])
                               /\ IF e.weight = 0 THEN own[e] = {e.i} ELSE Cardinality(own[e]) <= Len(e.vs)
  <2>1. e.i \in Nat /\ own[e] = {e.i} /\ Len(e.vs) >= 1
    BY DEF ChildEntries, EntriesOK
  <2>2. IsFiniteSet({e.i}) /\ Cardinality({e.i}) = 1
    BY FS_Singleton
  <2>3. e.vs \in Seq(M)
    BY DEF ChildEntries, EntriesOK
  <2>4. PICK n \in Nat : n = Len(e.vs)
    BY <2>3
  <2> QED  BY <2>1, <2>2, <2>4
<1>2. ASSUME NEW e \in E, NEW n \in Nat, n < e.i PROVE \E f \in E : n \in own[f]
  <2>1. PICK f \in E : f.i = n
    BY <1>2 DEF ChildEntries
  <2> QED  BY <2>1
<1> HIDE DEF own
<1>3. Accounts(E, own)
  BY <1>1, <1>2 DEF Accounts
<1> QED  BY <1>3

\* With no constraint between the children, their lists come out whole, in some order.
LEMMA SortedFreely ==
  ASSUME NEW M, NEW E, ChildEntries(E, M), Arcs({f.child : f \in E}) = {}
  PROVE  /\ Interleaved(Resolved(E)) \in Seq(M)
         /\ \E off : Placed(Interleaved(Resolved(E)), E, off)
<1>1. Resolved(E) = E
  BY DEF Resolved
<1>2. PICK own : Accounts(E, own)
  BY UnresolvedAccounts
<1>3. Interleaved(E) \in Seq(M) /\ \E off : LaidOut(Interleaved(E), E, E, off)
  BY <1>2, InterleavedEntries DEF ChildEntries
<1> QED  BY <1>1, <1>3 DEF LaidOut, Placed

\* An entry that has swallowed another.
LEMMA MergedEntries ==
  ASSUME NEW M, NEW E, ChildEntries(E, M), NEW u \in E, NEW v \in E, u # v, u.weight # 0, v.weight # 0
  PROVE  /\ EntriesOK((E \ {u, v}) \union {Merged(u, v)}, M)
         /\ \E own : Accounts((E \ {u, v}) \union {Merged(u, v)}, own)
         /\ Merged(u, v) \notin E
         /\ Merged(u, v).vs = u.vs \o v.vs
<1> DEFINE mer == Merged(u, v)
           F == E \ {u, v}
           R == F \union {mer}
<1>1. /\ EntriesOK(E, M) /\ IsFiniteSet(E)
      /\ u.vs \in Seq(M) /\ IsInjective(u.vs) /\ u.i \in Nat /\ u.sum \in Int /\ u.weight \in Nat
      /\ v.vs \in Seq(M) /\ IsInjective(v.vs) /\ v.i \in Nat /\ v.sum \in Int /\ v.weight \in Nat
      /\ u.i # v.i /\ ToSet(u.vs) \intersect ToSet(v.vs) = {}
      /\ Len(u.vs) >= 1 /\ Len(v.vs) >= 1
  BY DEF ChildEntries, EntriesOK
<1>2. mer.vs = u.vs \o v.vs /\ mer.i = Min({u.i, v.i}) /\ mer.sum = u.sum + v.sum /\ mer.weight = u.weight + v.weight
  <2>1. v \in [child : Int, vs : Seq(M), i : Nat, sum : Int, weight : Nat]
    BY DEF ChildEntries
  <2> QED  BY <2>1 DEF Merged
<1>3. mer.i \in {u.i, v.i}
  <2>1. {u.i, v.i} \in SUBSET Int /\ {u.i, v.i} # {} /\ IsFiniteSet({u.i, v.i})
    <3>1. {u.i, v.i} = {u.i} \union {v.i}
      OBVIOUS
    <3>2. IsFiniteSet({u.i}) /\ IsFiniteSet({u.i} \union {v.i})
      BY FS_Singleton, FS_AddElement
    <3> QED  BY <1>1, <3>1, <3>2
  <2> QED  BY <1>2, <2>1, LeastInteger
<1>4. PICK w : w = u.vs \o v.vs
  OBVIOUS
<1>5. w \in Seq(M) /\ Len(w) = Len(u.vs) + Len(v.vs) /\ ToSet(w) = ToSet(u.vs) \union ToSet(v.vs) /\ IsInjective(w)
  BY <1>1, <1>4, Joined
<1>6. PICK a \in Nat, b \in Nat : a = Len(u.vs) /\ b = Len(v.vs) /\ a >= 1 /\ b >= 1
  BY <1>1
<1>10. a \in Nat /\ b \in Nat /\ a >= 1 /\ b >= 1
  BY <1>6
<1>11. 1 + 1 <= a + b /\ a + b # a /\ a + b # b
  BY <1>10
<1>7. mer \notin E
  <2> SUFFICES ASSUME mer \in E PROVE FALSE
    OBVIOUS
  <2>1. mer = u \/ mer = v
    BY <1>3 DEF ChildEntries, EntriesOK
  <2>2. mer.vs # u.vs /\ mer.vs # v.vs
    <3>1. Len(mer.vs) = a + b
      BY <1>2, <1>4, <1>5, <1>6
    <3> QED  BY <1>6, <1>11, <3>1
  <2> QED  BY <2>1, <2>2
<1> HIDE DEF mer
<1>8. EntriesOK(R, M)
  <2>1. IsFiniteSet(R)
    <3>1. IsFiniteSet(F)
      BY <1>1, FS_Subset
    <3> HIDE DEF F
    <3> QED  BY <3>1, FS_AddElement
  <2>2. \A e \in F : /\ e.vs \in Seq(M) /\ IsInjective(e.vs)
                     /\ e.i \in Nat /\ e.sum \in Int /\ e.weight \in Nat
                     /\ e.i # mer.i /\ ToSet(e.vs) \intersect ToSet(mer.vs) = {}
    <3> TAKE e \in F
    <3>1. /\ e.vs \in Seq(M) /\ IsInjective(e.vs)
          /\ e.i \in Nat /\ e.sum \in Int /\ e.weight \in Nat
      BY <1>1 DEF EntriesOK
    <3>2. /\ e.i # u.i /\ e.i # v.i /\ ToSet(e.vs) \intersect ToSet(u.vs) = {}
          /\ ToSet(e.vs) \intersect ToSet(v.vs) = {}
      BY <1>1 DEF EntriesOK
    <3> QED  BY <1>2, <1>3, <1>4, <1>5, <3>1, <3>2
  <2>3. /\ mer.vs \in Seq(M) /\ IsInjective(mer.vs)
        /\ mer.i \in Nat /\ mer.sum \in Int /\ mer.weight \in Nat
    <3>1. mer.i \in Nat
      BY <1>1, <1>3
    <3>2. mer.sum \in Int /\ mer.weight \in Nat
      BY <1>1, <1>2
    <3> QED  BY <1>2, <1>4, <1>5, <3>1, <3>2
  <2>4. \A e, f \in F : e # f => e.i # f.i /\ ToSet(e.vs) \intersect ToSet(f.vs) = {}
    BY <1>1 DEF EntriesOK
  <2>5. \A e \in R : /\ e.vs \in Seq(M) /\ IsInjective(e.vs)
                     /\ e.i \in Nat /\ e.sum \in Int /\ e.weight \in Nat
    BY <2>2, <2>3
  <2>6. \A e, f \in R : e # f => e.i # f.i /\ ToSet(e.vs) \intersect ToSet(f.vs) = {}
    <3> TAKE e, f \in R
    <3>1. CASE e \in F /\ f \in F
      BY <2>4, <3>1
    <3>2. CASE e = mer \/ f = mer
      BY <2>2, <3>2
    <3> QED  BY <3>1, <3>2
  <2> HIDE DEF R
  <2> QED  BY <2>1, <2>5, <2>6 DEF EntriesOK
<1>9. \E own : Accounts(R, own)
  <2> DEFINE own == [e \in R |-> IF e = mer THEN {u.i, v.i} ELSE {e.i}]
  <2>1. mer.weight # 0
    BY <1>1, <1>2
  <2>2. Cardinality({u.i, v.i}) <= Len(mer.vs) /\ IsFiniteSet({u.i, v.i})
    <3>1. {u.i, v.i} = {u.i} \union {v.i} /\ v.i \notin {u.i}
      BY <1>1
    <3>2. IsFiniteSet({u.i}) /\ Cardinality({u.i}) = 1
      BY FS_Singleton
    <3>3. IsFiniteSet({u.i} \union {v.i}) /\ Cardinality({u.i} \union {v.i}) = 1 + 1
      BY <3>1, <3>2, FS_AddElement
    <3>4. 1 + 1 <= a + b
      BY <1>11
    <3>5. Len(mer.vs) = a + b
      BY <1>2, <1>4, <1>5, <1>6
    <3> QED  BY <3>1, <3>3, <3>4, <3>5
  <2>3. ASSUME NEW e \in F
        PROVE  /\ own[e] = {e.i} /\ own[e] \in SUBSET Nat /\ IsFiniteSet(own[e])
               /\ Cardinality(own[e]) <= Len(e.vs)
    <3>1. e \in E /\ e # mer /\ e.i \in Nat /\ Len(e.vs) >= 1 /\ e.vs \in Seq(M)
      BY <1>7 DEF ChildEntries, EntriesOK
    <3>2. own[e] = {e.i}
      BY <3>1
    <3>3. IsFiniteSet({e.i}) /\ Cardinality({e.i}) = 1
      BY FS_Singleton
    <3>4. PICK n \in Nat : n = Len(e.vs)
      BY <3>1
    <3> QED  BY <3>1, <3>2, <3>3, <3>4
  <2>4. own[mer] = {u.i, v.i}
    OBVIOUS
  <2>5. ASSUME NEW n \in Nat, NEW e \in E, e.i = n PROVE \E f \in R : n \in own[f]
    <3>1. CASE e = u \/ e = v
      BY <2>4, <2>5, <3>1
    <3>2. CASE e \in F
      BY <2>3, <2>5, <3>2
    <3> QED  BY <3>1, <3>2
  <2> HIDE DEF own
  <2>6. \A e \in R : /\ own[e] \in SUBSET Nat /\ IsFiniteSet(own[e])
                     /\ IF e.weight = 0 THEN own[e] = {e.i} ELSE Cardinality(own[e]) <= Len(e.vs)
    <3> TAKE e \in R
    <3>1. CASE e = mer
      BY <1>1, <2>1, <2>2, <2>4, <3>1
    <3>2. CASE e \in F
      BY <2>3, <3>2
    <3> QED  BY <3>1, <3>2
  <2>7. \A e \in R : e.weight = 0 => \A n \in Nat : n < e.i => \E f \in R : n \in own[f]
    <3> TAKE e \in R
    <3>1. ASSUME e.weight = 0, NEW n \in Nat, n < e.i PROVE \E f \in R : n \in own[f]
      <4>1. e \in E
        BY <2>1, <3>1
      <4>2. PICK f \in E : f.i = n
        BY <3>1, <4>1 DEF ChildEntries
      <4> QED  BY <2>5, <4>2
    <3> QED  BY <3>1
  <2>8. Accounts(R, own)
    BY <2>6, <2>7 DEF Accounts
  <2> QED  BY <2>8
<1> QED  BY <1>2, <1>7, <1>8, <1>9 DEF mer

\* Under one constraint the nodes of both stand in its order, and nothing is lost.
LEMMA SortedUnderOne ==
  ASSUME NEW M, NEW E, ChildEntries(E, M), NEW arc, NEW d, NEW e, OneArc(arc, E, d, e)
  PROVE  /\ Interleaved(Resolved(E)) \in Seq(M)
         /\ \E off : /\ Placed(Interleaved(Resolved(E)), E, off)
                     /\ off[EntryBy(E)[d]] + Len(EntryBy(E)[d].vs) <= off[EntryBy(E)[e]]
<1> DEFINE K == {f.child : f \in E}
           u == EntryBy(E)[d]
           v == EntryBy(E)[e]
           mer == Merged(u, v)
           F == E \ {u, v}
           t == Interleaved(Resolved(E))
<1>1. /\ EntriesOK(E, M) /\ IsFiniteSet(E) /\ \A x, y \in E : x.child = y.child => x = y
      /\ K \in SUBSET Int
      /\ arc[1] \in Nat /\ arc[2] = d /\ arc[3] = e /\ d # e /\ d \in K /\ e \in K /\ Arcs(K) = {arc}
      /\ u.weight # 0 /\ v.weight # 0
  <2>1. K \in SUBSET Int
    <3>1. \A x \in E : x.child \in Int
      BY DEF ChildEntries
    <3> QED  BY <3>1
  <2> QED  BY <2>1 DEF ChildEntries, OneArc, EntriesOK
<1>2. u \in E /\ v \in E /\ u # v /\ u.child = d /\ v.child = e
  <2>1. EntryBy(E) \in [K -> E] /\ \A c \in K : EntryBy(E)[c].child = c
    BY <1>1, EntriesByChild
  <2> HIDE DEF K
  <2> QED  BY <1>1, <2>1
<1>3. Resolved(E) = IF Conflict(u, v) THEN F \union {mer} ELSE E
  <2> HIDE DEF K
  <2>1. /\ IsFiniteSet(E) /\ \A x, y \in E : x.child = y.child => x = y
        /\ {x.child : x \in E} \in SUBSET Int
        /\ arc[1] \in Nat /\ d \in {x.child : x \in E} /\ e \in {x.child : x \in E} /\ d # e
        /\ arc[2] = d /\ arc[3] = e /\ Arcs({x.child : x \in E}) = {arc}
    BY <1>1 DEF K
  <2> QED  BY <2>1, ResolvedOne, Zenon
<1>4. /\ u.vs \in Seq(M) /\ u.i \in Nat /\ u.sum \in Int /\ u.weight \in Nat
      /\ v.vs \in Seq(M) /\ v.i \in Nat /\ v.sum \in Int /\ v.weight \in Nat
  BY <1>1, <1>2 DEF EntriesOK
<1> HIDE DEF u, v, mer
<1>5. CASE ~Conflict(u, v)
  <2>1. PICK own : Accounts(E, own)
    BY UnresolvedAccounts
  <2>2. Interleaved(E) \in Seq(M) /\ \E off : LaidOut(Interleaved(E), E, E, off)
    BY <1>1, <2>1, InterleavedEntries
  <2>3. t = Interleaved(E)
    BY <1>3, <1>5
  <2> HIDE DEF t
  <2>4. PICK off : LaidOut(t, E, E, off)
    BY <2>2, <2>3
  <2>5. SortsBefore(u, v) /\ u \in Sortable(E) /\ v \in Sortable(E)
    <3>1. u.sum * v.weight < v.sum * u.weight
      <4>1. ~(u.sum * v.weight >= v.sum * u.weight)
        BY <1>5 DEF Conflict
      <4>2. u.sum * v.weight \in Int /\ v.sum * u.weight \in Int
        BY <1>4
      <4> QED  BY <4>1, <4>2
    <3>2. u.weight > 0 /\ v.weight > 0
      BY <1>1, <1>4
    <3> QED  BY <1>2, <3>1, <3>2 DEF SortsBefore, Sortable
  <2>6. off[u] + Len(u.vs) <= off[v]
    BY <1>2, <2>4, <2>5 DEF LaidOut
  <2>7. Placed(t, E, off)
    BY <2>4 DEF LaidOut, Placed
  <2> QED  BY <2>2, <2>3, <2>6, <2>7 DEF t, u, v
<1>6. CASE Conflict(u, v)
  <2> DEFINE R == F \union {mer}
  <2>1. /\ EntriesOK(R, M) /\ (\E own : Accounts(R, own)) /\ mer \notin E /\ mer.vs = u.vs \o v.vs
    <3>1. u \in E /\ v \in E /\ u # v /\ u.weight # 0 /\ v.weight # 0
      BY <1>1, <1>2
    <3> QED  BY <3>1, MergedEntries, Zenon DEF mer
  <2>2. t = Interleaved(R)
    BY <1>3, <1>6
  <2> HIDE DEF t, R
  <2>3. PICK own : Accounts(R, own)
    BY <2>1
  <2>4. t \in Seq(M) /\ \E off : LaidOut(t, R, R, off)
    BY <2>1, <2>2, <2>3, InterleavedEntries
  <2>5. PICK off : LaidOut(t, R, R, off)
    BY <2>4
  <2> DEFINE p == [f \in E |-> IF f = u THEN off[mer] + 0
                               ELSE IF f = v THEN off[mer] + Len(u.vs) ELSE off[f]]
  <2>6. PICK w : w = u.vs \o v.vs
    OBVIOUS
  <2>7. /\ w \in Seq(M) /\ ToSet(w) = ToSet(u.vs) \union ToSet(v.vs)
        /\ Embeds(w, u.vs, 0) /\ Embeds(w, v.vs, Len(u.vs))
    BY <1>4, <2>6, Joined
  <2>8. Embeds(t, w, off[mer]) /\ mer.vs = w
    <3>1. mer \in R
      BY DEF R
    <3>2. Embeds(t, mer.vs, off[mer])
      BY <2>5, <3>1 DEF LaidOut
    <3> QED  BY <2>1, <2>6, <3>2
  <2>9. Embeds(t, u.vs, off[mer] + 0) /\ Embeds(t, v.vs, off[mer] + Len(u.vs))
    BY <1>4, <2>4, <2>7, <2>8, EmbedsOn
  <2>10. \A f \in E : Embeds(t, f.vs, p[f])
    <3> TAKE f \in E
    <3>1. CASE f = u
      BY <2>9, <3>1
    <3>2. CASE f = v
      BY <1>2, <2>9, <3>2
    <3>3. CASE f \in F
      <4>1. f \in R /\ p[f] = off[f]
        BY <3>3 DEF R
      <4> QED  BY <2>5, <4>1 DEF LaidOut
    <3> QED  BY <3>1, <3>2, <3>3
  <2>11. ToSet(t) = UNION {ToSet(f.vs) : f \in E}
    <3>1. ToSet(t) = UNION {ToSet(f.vs) : f \in R}
      BY <2>5 DEF LaidOut
    <3>2. UNION {ToSet(f.vs) : f \in R} = (UNION {ToSet(f.vs) : f \in F}) \union ToSet(mer.vs)
      BY DEF R
    <3>3. UNION {ToSet(f.vs) : f \in E} = (UNION {ToSet(f.vs) : f \in F}) \union ToSet(u.vs) \union ToSet(v.vs)
      BY <1>2
    <3> QED  BY <2>7, <2>8, <3>1, <3>2, <3>3
  <2>12. p[u] + Len(u.vs) <= p[v]
    <3>1. off[mer] \in Nat
      BY <2>8 DEF Embeds
    <3>2. p[u] = off[mer] + 0 /\ p[v] = off[mer] + Len(u.vs)
      BY <1>2
    <3>3. Len(u.vs) \in Nat
      BY <1>4
    <3>4. \A x, y \in Nat : x + 0 + y <= x + y
      OBVIOUS
    <3>5. p[u] + Len(u.vs) = off[mer] + 0 + Len(u.vs)
      BY <3>2
    <3> HIDE DEF p
    <3>6. off[mer] + 0 + Len(u.vs) <= off[mer] + Len(u.vs)
      BY <3>1, <3>3, <3>4
    <3> QED  BY <3>2, <3>5, <3>6
  <2> HIDE DEF p
  <2>13. Placed(t, E, p)
    BY <2>5, <2>10, <2>11 DEF LaidOut, Placed
  <2> QED  BY <2>4, <2>12, <2>13 DEF t, u, v
<1> QED  BY <1>5, <1>6
-----------------------------------------------------------------------------
(* The graph the ordering is given: how it is nested and ranked.           *)

\* The compounds lie in each other like the nodes of a forest.
ForestOK ==
  /\ IsFiniteSet(NodesOf(graph)) /\ NodesOf(graph) \in SUBSET (Nat \ {0})
  /\ CompoundsOf(graph) \in SUBSET NodesOf(graph)
  /\ graph.parents \in [NodesOf(graph) -> CompoundsOf(graph) \union {0}]
  /\ \E depth \in [NodesOf(graph) -> Nat] :
       \A v \in NodesOf(graph) : graph.parents[v] # 0 => depth[graph.parents[v]] < depth[v]

\* The compounds around a node.
Ups(v) == ToSet(PathUp(v))

\* The equation that PathUp is made by.
UpRun(up) ==
  up = [w \in NodesOf(graph) |->
          IF graph.parents[w] = 0 THEN <<>> ELSE <<graph.parents[w]>> \o up[graph.parents[w]]]

\* The path upwards exists,
LEMMA UpExists ==
  ASSUME ForestOK
  PROVE  \E up : UpRun(up)
<1> DEFINE N == NodesOf(graph)
           succ(g, w) == IF graph.parents[w] = 0 THEN <<>> ELSE <<graph.parents[w]>> \o g[graph.parents[w]]
<1>1. PICK depth \in [N -> Nat] : \A v \in N : graph.parents[v] # 0 => depth[graph.parents[v]] < depth[v]
  BY DEF ForestOK
<1>2. \A v \in N : graph.parents[v] # 0 => graph.parents[v] \in N
  BY DEF ForestOK
<1> DEFINE upto == {n \in Nat : \E g : /\ g = [w \in N |-> g[w]]
                                       /\ \A w \in N : depth[w] < n => g[w] = succ(g, w)}
<1>3. 0 \in upto
  <2> DEFINE g == [w \in N |-> 0]
  <2>1. g = [w \in N |-> g[w]] /\ \A w \in N : ~(depth[w] < 0)
    BY <1>1
  <2>2. \E h : h = [w \in N |-> h[w]] /\ \A w \in N : depth[w] < 0 => h[w] = succ(h, w)
    <3> HIDE DEF g
    <3> QED  BY <2>1
  <2> QED  BY <2>2
<1>4. ASSUME NEW n \in Nat, n \in upto PROVE n + 1 \in upto
  <2>1. PICK g : g = [w \in N |-> g[w]] /\ \A w \in N : depth[w] < n => g[w] = succ(g, w)
    BY <1>4
  <2> DEFINE h == [w \in N |-> succ(g, w)]
  <2>2. h = [w \in N |-> h[w]]
    OBVIOUS
  <2>3. ASSUME NEW w \in N, depth[w] < n + 1 PROVE h[w] = succ(h, w)
    <3>1. h[w] = succ(g, w)
      OBVIOUS
    <3>2. CASE graph.parents[w] = 0
      BY <3>1, <3>2
    <3>3. CASE graph.parents[w] # 0
      <4>1. graph.parents[w] \in N /\ depth[graph.parents[w]] < n
        BY <1>1, <1>2, <2>3, <3>3
      <4>2. g[graph.parents[w]] = h[graph.parents[w]]
        BY <2>1, <4>1
      <4> QED  BY <3>1, <3>3, <4>2
    <3> QED  BY <3>2, <3>3
  <2>4. \E f : f = [w \in N |-> f[w]] /\ \A w \in N : depth[w] < n + 1 => f[w] = succ(f, w)
    <3> HIDE DEF h, succ
    <3> QED  BY <2>2, <2>3
  <2>5. n + 1 \in Nat
    OBVIOUS
  <2> HIDE DEF succ
  <2> QED  BY <2>4, <2>5
<1>5. Nat \subseteq upto
  <2> HIDE DEF upto
  <2> QED  BY <1>3, <1>4, Inductive
<1>6. PICK n \in Nat : \A w \in N : depth[w] < n
  <2> DEFINE D == {depth[w] : w \in N}
  <2>1. IsFiniteSet(D)
    BY <1>1, FiniteImage DEF ForestOK
  <2>2. D \in SUBSET Int
    BY <1>1
  <2>3. CASE N = {}
    BY <2>3
  <2>4. CASE N # {}
    <3>1. D # {}
      BY <2>4
    <3> HIDE DEF D
    <3>2. Max(D) \in D /\ \A y \in D : Max(D) >= y
      BY <2>1, <2>2, <3>1, GreatestInteger
    <3>3. PICK m \in Nat : m = Max(D)
      BY <1>1, <3>2 DEF D
    <3>4. \A w \in N : depth[w] \in D /\ depth[w] \in Nat
      BY <1>1 DEF D
    <3>5. \A w \in N : depth[w] < m + 1
      BY <3>2, <3>3, <3>4
    <3> QED  BY <3>5
  <2> QED  BY <2>3, <2>4
<1>7. PICK g : g = [w \in N |-> g[w]] /\ \A w \in N : depth[w] < n => g[w] = succ(g, w)
  BY <1>5
<1>8. g = [w \in N |-> succ(g, w)]
  <2> HIDE DEF succ
  <2>1. \A w \in N : g[w] = succ(g, w)
    BY <1>6, <1>7
  <2> QED  BY <1>7, <2>1
<1> QED  BY <1>8 DEF UpRun

\* is what PathUp computes,
LEMMA PathUpIs ==
  ASSUME ForestOK
  PROVE  \A v \in NodesOf(graph) :
           PathUp(v) = IF graph.parents[v] = 0 THEN <<>> ELSE <<graph.parents[v]>> \o PathUp(graph.parents[v])
<1> DEFINE N == NodesOf(graph)
           it == CHOOSE up : UpRun(up)
<1>1. UpRun(it)
  BY UpExists, Zenon
<1>2. \A v : PathUp(v) = it[v]
  BY DEF PathUp, UpRun
<1>3. \A v \in N : it[v] = IF graph.parents[v] = 0 THEN <<>> ELSE <<graph.parents[v]>> \o it[graph.parents[v]]
  <2> HIDE DEF it
  <2> QED  BY <1>1 DEF UpRun
<1> HIDE DEF it
<1> QED  BY <1>2, <1>3

\* Induction from the outside in: what holds of a node whenever it holds of its parent.
LEMMA Downwards1 ==
  ASSUME ForestOK, NEW S,
         \A v \in NodesOf(graph) : (graph.parents[v] # 0 => graph.parents[v] \in S) => v \in S
  PROVE  NodesOf(graph) \subseteq S
<1> DEFINE N == NodesOf(graph)
<1>1. PICK depth \in [N -> Nat] : \A v \in N : graph.parents[v] # 0 => depth[graph.parents[v]] < depth[v]
  BY DEF ForestOK
<1>2. \A v \in N : graph.parents[v] # 0 => graph.parents[v] \in N
  BY DEF ForestOK
<1> DEFINE upto == {n \in Nat : \A w \in N : depth[w] < n => w \in S}
<1>3. 0 \in upto
  BY <1>1
<1>4. ASSUME NEW n \in Nat, n \in upto PROVE n + 1 \in upto
  <2>1. ASSUME NEW w \in N, depth[w] < n + 1 PROVE w \in S
    <3>1. graph.parents[w] # 0 => graph.parents[w] \in N /\ depth[graph.parents[w]] < n
      BY <1>1, <1>2, <2>1
    <3>2. graph.parents[w] # 0 => graph.parents[w] \in S
      BY <1>4, <3>1
    <3> QED  BY <3>2
  <2> QED  BY <2>1
<1>5. Nat \subseteq upto
  <2> HIDE DEF upto
  <2> QED  BY <1>3, <1>4, Inductive
<1>6. ASSUME NEW v \in N PROVE v \in S
  <2>1. depth[v] + 1 \in Nat /\ depth[v] < depth[v] + 1
    BY <1>1
  <2>2. depth[v] + 1 \in upto
    BY <1>5, <2>1
  <2> QED  BY <2>1, <2>2
<1> QED  BY <1>6

\* and consists of compounds.
LEMMA UpsAre ==
  ASSUME ForestOK
  PROVE  \A v \in NodesOf(graph) :
           /\ PathUp(v) \in Seq(CompoundsOf(graph)) /\ Ups(v) \subseteq CompoundsOf(graph)
           /\ Ups(v) = IF graph.parents[v] = 0 THEN {} ELSE {graph.parents[v]} \union Ups(graph.parents[v])
<1> DEFINE N == NodesOf(graph)
           C == CompoundsOf(graph)
           S == {v \in N : PathUp(v) \in Seq(C)}
<1>1. ASSUME NEW v \in N, graph.parents[v] # 0 => graph.parents[v] \in S PROVE v \in S
  <2>1. CASE graph.parents[v] = 0
    <3>1. PathUp(v) = <<>>
      BY <2>1, PathUpIs
    <3> QED  BY <3>1
  <2>2. CASE graph.parents[v] # 0
    <3>1. PathUp(v) = <<graph.parents[v]>> \o PathUp(graph.parents[v])
      BY <2>2, PathUpIs
    <3>2. graph.parents[v] \in C /\ PathUp(graph.parents[v]) \in Seq(C)
      BY <1>1, <2>2 DEF ForestOK
    <3>3. <<graph.parents[v]>> \in Seq(C)
      BY <3>2
    <3>4. <<graph.parents[v]>> \o PathUp(graph.parents[v]) \in Seq(C)
      BY <3>2, <3>3, Concatenated
    <3> QED  BY <3>1, <3>4
  <2> QED  BY <2>1, <2>2
<1>2. N \subseteq S
  <2> HIDE DEF S
  <2> QED  BY <1>1, Downwards1
<1>3. \A v \in N : PathUp(v) \in Seq(C)
  BY <1>2
<1>4. ASSUME NEW v \in N
      PROVE  Ups(v) = IF graph.parents[v] = 0 THEN {} ELSE {graph.parents[v]} \union Ups(graph.parents[v])
  <2>1. CASE graph.parents[v] = 0
    <3>1. PathUp(v) = <<>>
      BY <2>1, PathUpIs
    <3>2. ToSet(<<>>) = {}
      BY DEF ToSet
    <3> QED  BY <2>1, <3>1, <3>2 DEF Ups
  <2>2. CASE graph.parents[v] # 0
    <3> DEFINE p == graph.parents[v]
    <3>1. PathUp(v) = <<p>> \o PathUp(p)
      BY <2>2, PathUpIs
    <3>2. p \in C /\ p \in N /\ PathUp(p) \in Seq(C)
      BY <1>3, <2>2 DEF ForestOK
    <3>3. <<p>> \in Seq(C)
      BY <3>2
    <3>4. ToSet(<<p>> \o PathUp(p)) = ToSet(<<p>>) \union ToSet(PathUp(p))
      BY <3>2, <3>3, Joined
    <3>5. ToSet(<<p>>) = {p}
      BY DEF ToSet
    <3> QED  BY <2>2, <3>1, <3>4, <3>5 DEF Ups
  <2> QED  BY <2>1, <2>2
<1>5. ASSUME NEW v \in N PROVE Ups(v) \subseteq C
  BY <1>3, <1>5, ListMembers DEF Ups
<1> QED  BY <1>3, <1>4, <1>5

\* The ancestors of an ancestor are ancestors, and nothing is its own.
LEMMA UpsTransitive ==
  ASSUME ForestOK
  PROVE  \A v \in NodesOf(graph) : /\ \A d \in Ups(v) : d \in NodesOf(graph) /\ d # 0 /\ Ups(d) \subseteq Ups(v)
                                   /\ v \notin Ups(v)
<1> DEFINE N == NodesOf(graph)
           S == {v \in N : \A d \in Ups(v) : Ups(d) \subseteq Ups(v)}
<1>1. PICK depth \in [N -> Nat] : \A v \in N : graph.parents[v] # 0 => depth[graph.parents[v]] < depth[v]
  BY DEF ForestOK
<1>2. \A v \in N : \A d \in Ups(v) : d \in N /\ d # 0
  BY UpsAre DEF ForestOK
<1>3. \A v \in N : Ups(v) = IF graph.parents[v] = 0 THEN {} ELSE {graph.parents[v]} \union Ups(graph.parents[v])
  BY UpsAre
<1>4. ASSUME NEW v \in N, graph.parents[v] # 0 => graph.parents[v] \in S PROVE v \in S
  BY <1>3, <1>4
<1>5. N \subseteq S
  <2> HIDE DEF S
  <2> QED  BY <1>4, Downwards1
<1> DEFINE T == {v \in N : \A d \in Ups(v) : depth[d] < depth[v]}
<1>6. ASSUME NEW v \in N, graph.parents[v] # 0 => graph.parents[v] \in T PROVE v \in T
  <2>1. ASSUME NEW d \in Ups(v) PROVE depth[d] < depth[v]
    <3>1. graph.parents[v] # 0 /\ (d = graph.parents[v] \/ d \in Ups(graph.parents[v])) /\ graph.parents[v] \in T
      BY <1>3, <1>6, <2>1
    <3>2. depth[graph.parents[v]] < depth[v] /\ graph.parents[v] \in N /\ d \in N
      BY <1>1, <1>2, <2>1, <3>1
    <3>3. depth[d] \in Nat /\ depth[v] \in Nat /\ depth[graph.parents[v]] \in Nat
      BY <1>1, <3>2
    <3>4. d = graph.parents[v] \/ depth[d] < depth[graph.parents[v]]
      BY <3>1
    <3> QED  BY <3>2, <3>3, <3>4
  <2> QED  BY <2>1
<1>7. N \subseteq T
  <2> HIDE DEF T
  <2> QED  BY <1>6, Downwards1
<1>8. \A v \in N : v \notin Ups(v)
  <2> SUFFICES ASSUME NEW v \in N, v \in Ups(v) PROVE FALSE
    OBVIOUS
  <2>1. depth[v] < depth[v] /\ depth[v] \in Nat
    BY <1>1, <1>7
  <2> QED  BY <2>1
<1> QED  BY <1>2, <1>5, <1>8

\* The compounds around a node lie in each other.
LEMMA UpsChain ==
  ASSUME ForestOK
  PROVE  \A v \in NodesOf(graph) : \A d, e \in {v} \union Ups(v) : d = e \/ d \in Ups(e) \/ e \in Ups(d)
<1> DEFINE N == NodesOf(graph)
           chain(v) == \A d, e \in {v} \union Ups(v) : d = e \/ d \in Ups(e) \/ e \in Ups(d)
           S == {v \in N : chain(v)}
<1>1. \A v \in N : Ups(v) = IF graph.parents[v] = 0 THEN {} ELSE {graph.parents[v]} \union Ups(graph.parents[v])
  BY UpsAre
<1>2. ASSUME NEW v \in N, graph.parents[v] # 0 => graph.parents[v] \in S PROVE v \in S
  <2>1. ASSUME NEW d \in {v} \union Ups(v), NEW e \in {v} \union Ups(v) PROVE d = e \/ d \in Ups(e) \/ e \in Ups(d)
    <3>1. CASE d = v \/ e = v
      BY <2>1, <3>1
    <3>2. CASE d # v /\ e # v
      <4>1. graph.parents[v] # 0 /\ d \in {graph.parents[v]} \union Ups(graph.parents[v])
            /\ e \in {graph.parents[v]} \union Ups(graph.parents[v])
        BY <1>1, <2>1, <3>2
      <4>2. chain(graph.parents[v])
        BY <1>2, <4>1
      <4> QED  BY <4>1, <4>2
    <3> QED  BY <3>1, <3>2
  <2> QED  BY <2>1
<1>3. N \subseteq S
  <2> HIDE DEF S
  <2> QED  BY <1>2, Downwards1
<1> QED  BY <1>3

\* From a compound to a node in it leads one child.
LEMMA ChildOnTheWay ==
  ASSUME ForestOK, NEW v \in NodesOf(graph)
  PROVE  /\ \A c \in Ups(v) \union {0} : \E w \in {v} \union Ups(v) : graph.parents[w] = c
         /\ \A w, x \in {v} \union Ups(v) : graph.parents[w] = graph.parents[x] => w = x
         /\ \A w \in {v} \union Ups(v) : w \in NodesOf(graph) /\ graph.parents[w] \in Ups(v) \union {0}
                                         /\ Ups(w) \subseteq Ups(v)
<1> DEFINE N == NodesOf(graph)
           S == {x \in N : \A c \in Ups(x) \union {0} : \E w \in {x} \union Ups(x) : graph.parents[w] = c}
<1>1. \A x \in N : Ups(x) = IF graph.parents[x] = 0 THEN {} ELSE {graph.parents[x]} \union Ups(graph.parents[x])
  BY UpsAre
<1>2. ASSUME NEW x \in N, graph.parents[x] # 0 => graph.parents[x] \in S PROVE x \in S
  <2>1. ASSUME NEW c \in Ups(x) \union {0} PROVE \E w \in {x} \union Ups(x) : graph.parents[w] = c
    <3>1. CASE graph.parents[x] = c
      BY <3>1
    <3>2. CASE graph.parents[x] # c
      <4>1. graph.parents[x] # 0 /\ c \in Ups(graph.parents[x]) \union {0} /\ graph.parents[x] \in S
        BY <1>1, <1>2, <2>1, <3>2
      <4>2. PICK w \in {graph.parents[x]} \union Ups(graph.parents[x]) : graph.parents[w] = c
        BY <4>1
      <4>3. w \in {x} \union Ups(x)
        BY <1>1, <4>1, <4>2
      <4> QED  BY <4>2, <4>3
    <3> QED  BY <3>1, <3>2
  <2> QED  BY <2>1
<1>3. N \subseteq S
  <2> HIDE DEF S
  <2> QED  BY <1>2, Downwards1
<1>4. ASSUME NEW w \in {v} \union Ups(v)
      PROVE  w \in N /\ graph.parents[w] \in Ups(v) \union {0} /\ Ups(w) \subseteq Ups(v)
  <2>1. w \in N /\ Ups(w) \subseteq Ups(v)
    BY UpsTransitive
  <2>2. graph.parents[w] \in Ups(w) \union {0}
    BY <1>1, <2>1
  <2> QED  BY <2>1, <2>2
<1>5. ASSUME NEW w \in N, NEW x \in N, graph.parents[w] = graph.parents[x] PROVE w \notin Ups(x)
  <2> SUFFICES ASSUME w \in Ups(x) PROVE FALSE
    OBVIOUS
  <2> DEFINE c == graph.parents[x]
  <2>1. c # 0 /\ Ups(x) = {c} \union Ups(c) /\ Ups(w) = {c} \union Ups(c) /\ c \in Ups(x)
    BY <1>1, <1>5
  <2>2. c \in N /\ c \notin Ups(c) /\ w \notin Ups(w)
    BY <2>1, UpsTransitive
  <2> QED  BY <2>1, <2>2
<1>6. ASSUME NEW w \in {v} \union Ups(v), NEW x \in {v} \union Ups(v), graph.parents[w] = graph.parents[x]
      PROVE  w = x
  <2>1. w = x \/ w \in Ups(x) \/ x \in Ups(w)
    BY UpsChain
  <2> QED  BY <1>4, <1>5, <1>6, <2>1
<1>7. \A c \in Ups(v) \union {0} : \E w \in {v} \union Ups(v) : graph.parents[w] = c
  BY <1>3
<1> QED  BY <1>4, <1>6, <1>7

\* The borders of a compound are linked from rank to rank.
JoinedAt(c, r, j) ==
  \E i \in DOMAIN graph.links : /\ graph.links[i].from = graph.sides[c][r][j]
                                /\ graph.links[i].to = graph.sides[c][r + 1][j]

\* Border nodes on consecutive ranks are joined by a link on either side.
SidesJoined ==
  \A c \in CompoundsOf(graph) : \A r \in DOMAIN graph.sides[c] :
    r + 1 \in DOMAIN graph.sides[c] => \A j \in {1, 2} : JoinedAt(c, r, j)

\* The graph as border::add_segments leaves it.
GraphShape ==
  /\ ForestOK
  /\ graph.rank \in [NodesOf(graph) -> Int]
  /\ \A c \in CompoundsOf(graph) : \A r \in DOMAIN graph.sides[c] :
       \E a, b \in NodesOf(graph) \ CompoundsOf(graph) :
         /\ graph.sides[c][r] = <<a, b>> /\ a # b
         /\ graph.rank[a] = r /\ graph.rank[b] = r
         /\ graph.parents[a] = c /\ graph.parents[b] = c
         /\ a \notin graph.pinned /\ b \notin graph.pinned
  /\ \A c \in CompoundsOf(graph) :
       /\ DOMAIN graph.sides[c] \in SUBSET Int
       /\ \A q, s \in DOMAIN graph.sides[c] : \A t \in Int : q <= t /\ t <= s => t \in DOMAIN graph.sides[c]
  /\ \A v \in graph.pinned : v \notin CompoundsOf(graph)
  /\ graph.links \in Seq([from : NodesOf(graph) \ CompoundsOf(graph), to : NodesOf(graph) \ CompoundsOf(graph)])
  /\ SidesJoined

\* The nodes of its ranks.
LayersOK ==
  /\ \E n \in Nat : DOMAIN layers = 0..n
  /\ \A r \in DOMAIN layers :
       /\ layers[r] \in Seq(NodesOf(graph) \ CompoundsOf(graph)) /\ IsInjective(layers[r])
       /\ \A v \in ToSet(layers[r]) : graph.rank[v] = r
  /\ \A c \in CompoundsOf(graph), r \in DOMAIN layers :
       r \in DOMAIN graph.sides[c] => ToSet(graph.sides[c][r]) \subseteq ToSet(layers[r])
  /\ \A i \in DOMAIN graph.links, r \in DOMAIN layers :
       /\ graph.rank[graph.links[i].from] = r => graph.links[i].from \in ToSet(layers[r])
       /\ graph.rank[graph.links[i].to] = r => graph.links[i].to \in ToSet(layers[r])

\* Every node has a place.
PlacesTyped ==
  \A r \in DOMAIN layers : \A v \in ToSet(layers[r]) : v \in DOMAIN order /\ order[v] \in Nat

\* sort_subgraph gets to the compound on this rank.
Reached(c, r) ==
  c = 0 \/ (c \in CompoundsOf(graph) /\ Spans(c, r) /\ \A d \in Ups(c) : Spans(d, r))

\* The nodes that it finds in it.
Under(c, r) ==
  {v \in ToSet(layers[r]) : (\A d \in Ups(v) : Spans(d, r)) /\ (c = 0 \/ c \in Ups(v))}

\* What a child brings with it.
Own(w, r) == IF w \in CompoundsOf(graph) THEN Under(w, r) ELSE {w}

\* What stands under a compound on a rank stands under exactly one of its children there.
LEMMA UnderChildren ==
  ASSUME GraphShape, LayersOK, NEW r \in DOMAIN layers, NEW c, Reached(c, r)
  PROVE  /\ \A w \in ChildrenAt(c, r) : /\ w \in NodesOf(graph) /\ graph.parents[w] = c
                                        /\ w \in CompoundsOf(graph) => Reached(w, r)
                                        /\ w \notin CompoundsOf(graph) => w \in Under(c, r)
         /\ Under(c, r) = UNION {Own(w, r) : w \in ChildrenAt(c, r)}
         /\ \A w, x \in ChildrenAt(c, r) : w # x => Own(w, r) \intersect Own(x, r) = {}
<1> DEFINE N == NodesOf(graph)
           C == CompoundsOf(graph)
<1>1. /\ ForestOK /\ C \subseteq N /\ 0 \notin N
      /\ \A v \in N : Ups(v) = IF graph.parents[v] = 0 THEN {} ELSE {graph.parents[v]} \union Ups(graph.parents[v])
      /\ ToSet(layers[r]) \subseteq N \ C
  <2>1. ForestOK /\ layers[r] \in Seq(N \ C)
    BY DEF GraphShape, LayersOK
  <2>2. ToSet(layers[r]) \subseteq N \ C
    BY <2>1, ListMembers
  <2> QED  BY <2>1, <2>2, UpsAre DEF ForestOK
<1>2. ASSUME NEW w \in ChildrenAt(c, r)
      PROVE  /\ w \in N /\ graph.parents[w] = c
             /\ w \in C => Reached(w, r)
             /\ w \notin C => w \in Under(c, r)
  <2>1. w \in N /\ graph.parents[w] = c /\ (w \in ToSet(layers[r]) \/ Spans(w, r))
    BY DEF ChildrenAt
  <2>2. \A d \in Ups(w) : Spans(d, r)
    BY <1>1, <2>1 DEF Reached
  <2>3. w \in C => Reached(w, r)
    BY <1>1, <2>1, <2>2 DEF Reached
  <2>4. w \notin C => w \in Under(c, r)
    <3>1. w \notin C => w \in ToSet(layers[r])
      BY <2>1 DEF Spans
    <3>2. c = 0 \/ c \in Ups(w)
      BY <1>1, <2>1
    <3> QED  BY <2>2, <3>1, <3>2 DEF Under
  <2> QED  BY <2>1, <2>3, <2>4
<1>3. ASSUME NEW v \in Under(c, r) PROVE \E w \in ChildrenAt(c, r) : v \in Own(w, r)
  <2>1. v \in N /\ v \notin C /\ v \in ToSet(layers[r]) /\ c \in Ups(v) \union {0} /\ \A d \in Ups(v) : Spans(d, r)
    BY <1>1 DEF Under
  <2>2. PICK w \in {v} \union Ups(v) : graph.parents[w] = c
    BY <1>1, <2>1, ChildOnTheWay
  <2>3. w \in N
    BY <1>1, <2>1, ChildOnTheWay
  <2>4. w \in ChildrenAt(c, r)
    BY <2>1, <2>2, <2>3 DEF ChildrenAt
  <2>5. CASE w = v
    BY <2>1, <2>4, <2>5 DEF Own
  <2>6. CASE w # v
    <3>1. w \in C /\ w \in Ups(v)
      BY <1>1, <2>1, <2>2, <2>6, UpsAre
    <3>2. v \in Under(w, r)
      BY <2>1, <3>1 DEF Under
    <3> QED  BY <2>4, <3>1, <3>2 DEF Own
  <2> QED  BY <2>5, <2>6
<1>4. ASSUME NEW w \in ChildrenAt(c, r), NEW v \in Own(w, r) PROVE v \in Under(c, r) /\ v \in N /\ w \in {v} \union Ups(v)
  <2>1. CASE w \notin C
    <3>1. v = w
      BY <2>1 DEF Own
    <3> QED  BY <1>2, <2>1, <3>1
  <2>2. CASE w \in C
    <3>1. v \in Under(w, r) /\ w # 0 /\ w \in N /\ graph.parents[w] = c
      BY <1>1, <1>2, <2>2 DEF Own
    <3>2. v \in ToSet(layers[r]) /\ (\A d \in Ups(v) : Spans(d, r)) /\ w \in Ups(v)
      BY <3>1 DEF Under
    <3>3. v \in N
      BY <1>1, <3>2
    <3>4. Ups(w) \subseteq Ups(v)
      BY <1>1, <3>2, <3>3, UpsTransitive
    <3>5. c = 0 \/ c \in Ups(w)
      BY <1>1, <3>1
    <3> QED  BY <3>2, <3>3, <3>4, <3>5 DEF Under
  <2> QED  BY <2>1, <2>2
<1>5. ASSUME NEW w \in ChildrenAt(c, r), NEW x \in ChildrenAt(c, r), w # x
      PROVE  Own(w, r) \intersect Own(x, r) = {}
  <2> SUFFICES ASSUME NEW v, v \in Own(w, r), v \in Own(x, r) PROVE FALSE
    OBVIOUS
  <2>1. v \in N /\ w \in {v} \union Ups(v) /\ x \in {v} \union Ups(v) /\ graph.parents[w] = graph.parents[x]
    BY <1>2, <1>4
  <2> QED  BY <1>1, <1>5, <2>1, ChildOnTheWay
<1> QED  BY <1>2, <1>3, <1>4, <1>5
-----------------------------------------------------------------------------
(* The entries of a compound's children (barycenters).                     *)

\* The rank sorted before.
Across(r) == r + IF Downward THEN -1 ELSE 1

\* The places of a node's neighbours across add up to an integer,
LEMMA FixedTyped ==
  ASSUME GraphShape, LayersOK, PlacesTyped, NEW r, Across(r) \in DOMAIN layers,
         NEW v \in NodesOf(graph), graph.rank[v] = r
  PROVE  /\ IsFiniteSet(Fixed(v)) /\ Cardinality(Fixed(v)) \in Nat /\ PlacesAcross(v) \in Int
<1> DEFINE F == Fixed(v)
           D == DOMAIN graph.links
<1>1. IsFiniteSet(D) /\ D \in SUBSET Nat
  <2>1. D = 1..Len(graph.links) /\ Len(graph.links) \in Nat
    BY ListMembers DEF GraphShape
  <2> QED  BY <2>1, FS_Interval
<1>2. F \in SUBSET D
  BY DEF Fixed
<1>3. IsFiniteSet(F) /\ Cardinality(F) \in Nat
  BY <1>1, <1>2, FS_Subset, FS_CardinalityType
<1>4. ASSUME NEW i \in F PROVE PlaceAcross(i) \in Int
  <2> DEFINE w == IF Downward THEN graph.links[i].from ELSE graph.links[i].to
  <2>1. i \in D /\ graph.rank[w] = Across(r)
    BY DEF Fixed, Across
  <2>2. w \in ToSet(layers[Across(r)])
    BY <2>1 DEF LayersOK
  <2>3. order[w] \in Int
    BY <2>2 DEF PlacesTyped
  <2> QED  BY <2>3 DEF PlaceAcross
<1>5. PlacesAcross(v) \in Int
  <2> DEFINE f == [i \in F |-> PlaceAcross(i)]
             B(g) == g = [T \in SUBSET F |->
                            IF T = {} THEN 0
                            ELSE PlaceAcross(CHOOSE x \in T : TRUE) + g[T \ {CHOOSE x \in T : TRUE}]]
  <2>1. f \in [F -> Int]
    BY <1>4
  <2>2. ASSUME NEW g PROVE B(g) <=> SumRun(g, F, f)
    <3>1. \A T \in SUBSET F : T # {} =>
            /\ (CHOOSE x \in T : TRUE) \in F
            /\ f[CHOOSE x \in T : TRUE] = PlaceAcross(CHOOSE x \in T : TRUE)
      OBVIOUS
    <3> HIDE DEF f, F
    <3> QED  BY <3>1 DEF SumRun
  <2>3. \E g : B(g)
    <3> HIDE DEF f, F
    <3>1. PICK g : SumRun(g, F, f)
      BY <1>3, <2>1, SumExists
    <3>2. B(g)
      BY <2>2, <3>1
    <3> HIDE DEF B
    <3> QED  BY <3>2
  <2> DEFINE it == CHOOSE g : B(g)
  <2>4. B(it)
    BY <2>3, Zenon
  <2>5. PlacesAcross(v) = it[F]
    BY DEF PlacesAcross, MapThenSumSet, MapThenFoldSet
  <2>6. SumRun(it, F, f)
    BY <2>2, <2>4
  <2> HIDE DEF it, f, F
  <2>7. Int \in {Int, Nat}
    OBVIOUS
  <2>8. it[F] \in Int
    BY <1>3, <2>1, <2>6, <2>7, SumTyped
  <2> QED  BY <2>5, <2>8
<1> QED  BY <1>3, <1>5

\* and so do those of several nodes.
LEMMA FrameSums ==
  ASSUME NEW F, IsFiniteSet(F), \A v \in F : PlacesAcross(v) \in Int
  PROVE  MapThenSumSet(PlacesAcross, F) \in Int
<1> DEFINE f == [i \in F |-> PlacesAcross(i)]
           B(g) == g = [T \in SUBSET F |->
                          IF T = {} THEN 0
                          ELSE PlacesAcross(CHOOSE x \in T : TRUE) + g[T \ {CHOOSE x \in T : TRUE}]]
<1>1. f \in [F -> Int]
  OBVIOUS
<1>2. ASSUME NEW g PROVE B(g) <=> SumRun(g, F, f)
  <2>1. \A T \in SUBSET F : T # {} =>
          /\ (CHOOSE x \in T : TRUE) \in F
          /\ f[CHOOSE x \in T : TRUE] = PlacesAcross(CHOOSE x \in T : TRUE)
    OBVIOUS
  <2> HIDE DEF f
  <2> QED  BY <2>1 DEF SumRun
<1>3. \E g : B(g)
  <2> HIDE DEF f
  <2>1. PICK g : SumRun(g, F, f)
    BY <1>1, SumExists
  <2>2. B(g)
    BY <1>2, <2>1
  <2> HIDE DEF B
  <2> QED  BY <2>2
<1> DEFINE it == CHOOSE g : B(g)
<1>4. B(it)
  BY <1>3, Zenon
<1>5. MapThenSumSet(PlacesAcross, F) = it[F]
  BY DEF MapThenSumSet, MapThenFoldSet
<1>6. SumRun(it, F, f)
  BY <1>2, <1>4
<1> HIDE DEF it, f
<1>7. Int \in {Int, Nat}
  OBVIOUS
<1>8. it[F] \in Int
  BY <1>1, <1>6, <1>7, SumTyped
<1> QED  BY <1>5, <1>8

\* The borders of a compound that reaches over from the rank sorted before hold it in place.
LEMMA FrameHeld ==
  ASSUME GraphShape, NEW c \in CompoundsOf(graph), NEW r \in DOMAIN graph.sides[c],
         Across(r) \in DOMAIN graph.sides[c]
  PROVE  \A v \in FrameAt(c, r) : Fixed(v) # {}
<1> SUFFICES ASSUME NEW v \in FrameAt(c, r) PROVE Fixed(v) # {}
  OBVIOUS
<1>1. c # 0 /\ r \in Int /\ Across(r) \in Int
  BY DEF GraphShape, ForestOK
<1>2. PICK a, b : graph.sides[c][r] = <<a, b>> /\ graph.rank[a] = r /\ graph.rank[b] = r
  BY DEF GraphShape
<1>3. v \in {a, b}
  BY <1>1, <1>2 DEF FrameAt, ToSet
<1>4. PICK j \in {1, 2} : v = graph.sides[c][r][j]
  BY <1>2, <1>3
<1>5. PICK x, y : /\ graph.sides[c][Across(r)] = <<x, y>>
                  /\ graph.rank[x] = Across(r) /\ graph.rank[y] = Across(r)
  BY DEF GraphShape
<1>6. graph.rank[graph.sides[c][Across(r)][j]] = Across(r) /\ graph.rank[v] = r
  BY <1>2, <1>3, <1>5
<1>9. \A q \in DOMAIN graph.sides[c] : q + 1 \in DOMAIN graph.sides[c] => JoinedAt(c, q, j)
  BY DEF GraphShape, SidesJoined
<1>7. CASE Downward
  <2>1. Across(r) = r + -1
    BY <1>7 DEF Across
  <2>2. Across(r) + 1 = r
    BY <1>1, <2>1
  <2>3. PICK i \in DOMAIN graph.links : /\ graph.links[i].from = graph.sides[c][Across(r)][j]
                                        /\ graph.links[i].to = graph.sides[c][r][j]
    <3>1. JoinedAt(c, Across(r), j)
      BY <1>9, <2>2
    <3> QED  BY <2>2, <3>1 DEF JoinedAt
  <2>4. i \in Fixed(v)
    BY <1>4, <1>6, <1>7, <2>1, <2>3 DEF Fixed
  <2> QED  BY <2>4
<1>8. CASE ~Downward
  <2>1. Across(r) = r + 1
    BY <1>8 DEF Across
  <2>3. PICK i \in DOMAIN graph.links : /\ graph.links[i].from = graph.sides[c][r][j]
                                        /\ graph.links[i].to = graph.sides[c][r + 1][j]
    <3>1. JoinedAt(c, r, j)
      BY <1>9, <2>1
    <3> QED  BY <3>1 DEF JoinedAt
  <2>4. i \in Fixed(v)
    BY <1>4, <1>6, <1>8, <2>1, <2>3 DEF Fixed
  <2> QED  BY <2>4
<1> QED  BY <1>7, <1>8

\* What sorting a compound gives.
GoodSub(s, c, r) ==
  /\ s.vs \in Seq(NodesOf(graph)) /\ IsInjective(s.vs) /\ ToSet(s.vs) = Under(c, r)
  /\ c # 0 => Len(s.vs) >= 1
  /\ s.sum \in Int /\ s.weight \in Nat
  /\ c # 0 /\ (\A v \in FrameAt(c, r) : Fixed(v) # {}) => s.weight # 0

\* The children that a sort places: neither border nodes nor fixed ones.
Movable(c, r) == ChildrenAt(c, r) \ (FrameAt(c, r) \union Pinned(c, r))

\* The entry of a child.
EntryFor(v, c, r, f) ==
  IF v \in CompoundsOf(graph)
  THEN [child |-> v, vs |-> f[v].vs, i |-> Turn(Movable(c, r), v), sum |-> f[v].sum, weight |-> f[v].weight]
  ELSE [child |-> v, vs |-> <<v>>, i |-> Turn(Movable(c, r), v), sum |-> PlacesAcross(v),
        weight |-> Cardinality(Fixed(v))]

\* They are the children the entries are made for.
LEMMA EntriesAre ==
  ASSUME NEW c, NEW r, NEW f
  PROVE  EntriesOf(c, r, f) = {EntryFor(v, c, r, f) : v \in Movable(c, r)}
  BY DEF EntriesOf, EntryFor, Movable, Turn

\* They, the fixed ones and the border nodes of the frame are finitely many nodes.
LEMMA MovableFinite ==
  ASSUME GraphShape, NEW c, NEW r
  PROVE  /\ IsFiniteSet(Movable(c, r)) /\ Movable(c, r) \in SUBSET Int /\ Movable(c, r) \in SUBSET NodesOf(graph)
         /\ \A v \in Movable(c, r) : v \in Nat
         /\ IsFiniteSet(Pinned(c, r)) /\ IsFiniteSet(FrameAt(c, r) \intersect NodesOf(graph))
<1>1. IsFiniteSet(NodesOf(graph)) /\ NodesOf(graph) \in SUBSET (Nat \ {0})
  BY DEF GraphShape, ForestOK
<1>2. /\ Movable(c, r) \in SUBSET NodesOf(graph)
      /\ Pinned(c, r) \in SUBSET NodesOf(graph)
      /\ FrameAt(c, r) \intersect NodesOf(graph) \in SUBSET NodesOf(graph)
  BY DEF Movable, Pinned, ChildrenAt
<1>3. Movable(c, r) \in SUBSET Int
  BY <1>1, <1>2
<1> QED  BY <1>1, <1>2, <1>3, FS_Subset

\* An entry names its child, and lists what stands under it, each node once.
LEMMA EntryGood ==
  ASSUME GraphShape, LayersOK, PlacesTyped, NEW r \in DOMAIN layers, Across(r) \in DOMAIN layers,
         NEW c, Reached(c, r), NEW f, NEW v \in Movable(c, r),
         v \in CompoundsOf(graph) => GoodSub(f[v], v, r)
  PROVE  LET e == EntryFor(v, c, r, f)
         IN  /\ e \in [child : Int, vs : Seq(NodesOf(graph)), i : Nat, sum : Int, weight : Nat]
             /\ e.child = v /\ e.i = Turn(Movable(c, r), v)
             /\ IsInjective(e.vs) /\ Len(e.vs) >= 1 /\ ToSet(e.vs) = Own(v, r)
             /\ v \in CompoundsOf(graph) => e.vs = f[v].vs /\ e.weight = f[v].weight
<1> DEFINE e == EntryFor(v, c, r, f)
<1>1. v \in NodesOf(graph) /\ v \in Nat /\ v # 0 /\ v \in ChildrenAt(c, r)
  BY MovableFinite DEF Movable, GraphShape, ForestOK
<1>2. Turn(Movable(c, r), v) \in Nat
  <2>1. Turn(Movable(c, r), v) \in 0..(Cardinality(Movable(c, r)) - 1)
    BY MovableFinite, TurnsOf
  <2> QED  BY <2>1
<1>3. CASE v \in CompoundsOf(graph)
  <2>1. e = [child |-> v, vs |-> f[v].vs, i |-> Turn(Movable(c, r), v), sum |-> f[v].sum, weight |-> f[v].weight]
    BY <1>3 DEF EntryFor
  <2>2. /\ f[v].vs \in Seq(NodesOf(graph)) /\ IsInjective(f[v].vs) /\ ToSet(f[v].vs) = Under(v, r)
        /\ Len(f[v].vs) >= 1 /\ f[v].sum \in Int /\ f[v].weight \in Nat
    BY <1>1, <1>3 DEF GoodSub
  <2>3. Own(v, r) = Under(v, r)
    BY <1>3 DEF Own
  <2> QED  BY <1>1, <1>2, <2>1, <2>2, <2>3
<1>4. CASE v \notin CompoundsOf(graph)
  <2>1. e = [child |-> v, vs |-> <<v>>, i |-> Turn(Movable(c, r), v), sum |-> PlacesAcross(v),
             weight |-> Cardinality(Fixed(v))]
    BY <1>4 DEF EntryFor
  <2>2. graph.rank[v] = r
    <3>1. v \in ToSet(layers[r])
      BY <1>1, <1>4 DEF ChildrenAt, Spans
    <3> QED  BY <3>1 DEF LayersOK
  <2>3. Cardinality(Fixed(v)) \in Nat /\ PlacesAcross(v) \in Int
    BY <1>1, <2>2, FixedTyped
  <2>4. <<v>> \in Seq(NodesOf(graph)) /\ IsInjective(<<v>>) /\ Len(<<v>>) = 1 /\ ToSet(<<v>>) = {v}
    BY <1>1 DEF IsInjective, ToSet
  <2>5. Own(v, r) = {v}
    BY <1>4 DEF Own
  <2> QED  BY <1>1, <1>2, <1>4, <2>1, <2>3, <2>4, <2>5
<1> QED  BY <1>3, <1>4

\* So do all entries of a compound, one for each movable child.
LEMMA EntriesGood ==
  ASSUME GraphShape, LayersOK, PlacesTyped, NEW r \in DOMAIN layers, Across(r) \in DOMAIN layers,
         NEW c, Reached(c, r), NEW f,
         \A w \in ChildrenAt(c, r) : w \in CompoundsOf(graph) => GoodSub(f[w], w, r)
  PROVE  /\ ChildEntries(EntriesOf(c, r, f), NodesOf(graph))
         /\ {e.child : e \in EntriesOf(c, r, f)} = Movable(c, r)
         /\ \A e \in EntriesOf(c, r, f) :
              /\ e = EntryFor(e.child, c, r, f) /\ ToSet(e.vs) = Own(e.child, r)
              /\ e.child \in CompoundsOf(graph) => e.vs = f[e.child].vs /\ e.weight = f[e.child].weight
<1> DEFINE E == EntriesOf(c, r, f)
           K == Movable(c, r)
           ent == [v \in K |-> EntryFor(v, c, r, f)]
<1>1. E = {ent[v] : v \in K}
  BY EntriesAre
<1>2. /\ IsFiniteSet(K) /\ K \in SUBSET Int /\ K \subseteq ChildrenAt(c, r)
  BY MovableFinite DEF Movable
<1>3. ASSUME NEW v \in K
      PROVE  /\ ent[v] \in [child : Int, vs : Seq(NodesOf(graph)), i : Nat, sum : Int, weight : Nat]
             /\ ent[v].child = v /\ ent[v].i = Turn(K, v)
             /\ IsInjective(ent[v].vs) /\ Len(ent[v].vs) >= 1 /\ ToSet(ent[v].vs) = Own(v, r)
             /\ v \in CompoundsOf(graph) => ent[v].vs = f[v].vs /\ ent[v].weight = f[v].weight
             /\ ent[v] = EntryFor(v, c, r, f)
  <2>1. v \in CompoundsOf(graph) => GoodSub(f[v], v, r)
    BY <1>2
  <2>2. ent[v] = EntryFor(v, c, r, f)
    OBVIOUS
  <2> HIDE DEF ent
  <2> QED  BY <2>1, <2>2, EntryGood
<1>4. IsFiniteSet({ent[v] : v \in K})
  <2>1. DOMAIN ent = K
    OBVIOUS
  <2> HIDE DEF ent, K
  <2> QED  BY <1>2, <2>1, FiniteImage
<1>5. ASSUME NEW v \in K, NEW w \in K, v # w
      PROVE  ent[v].i # ent[w].i /\ ToSet(ent[v].vs) \intersect ToSet(ent[w].vs) = {}
  <2>1. Turn(K, v) # Turn(K, w)
    BY <1>2, <1>5, TurnsOf
  <2>2. Own(v, r) \intersect Own(w, r) = {}
    BY <1>2, <1>5, UnderChildren
  <2> QED  BY <1>3, <2>1, <2>2
<1>6. ASSUME NEW v \in K, NEW n \in Nat, n < ent[v].i PROVE \E w \in K : ent[w].i = n
  <2>1. PICK k \in Nat : k = Cardinality(K)
    BY <1>2, FS_CardinalityType
  <2>2. Turn(K, v) \in 0..(k - 1) /\ ent[v].i = Turn(K, v)
    BY <1>2, <1>3, <2>1, TurnsOf
  <2>3. n \in 0..(k - 1)
    BY <1>6, <2>2
  <2>4. \E w \in K : Turn(K, w) = n
    BY <1>2, <2>1, <2>3, TurnsOf
  <2> QED  BY <1>3, <2>4
<1> HIDE DEF ent, K
<1>7. EntriesOK(E, NodesOf(graph))
  <2>1. IsFiniteSet(E)
    BY <1>1, <1>4
  <2>2. ASSUME NEW e \in E PROVE /\ e.vs \in Seq(NodesOf(graph)) /\ IsInjective(e.vs)
                                 /\ e.i \in Nat /\ e.sum \in Int /\ e.weight \in Nat
    BY <1>1, <1>3
  <2>3. ASSUME NEW e \in E, NEW g \in E, e # g PROVE e.i # g.i /\ ToSet(e.vs) \intersect ToSet(g.vs) = {}
    BY <1>1, <1>5, <2>3
  <2> HIDE DEF E
  <2> QED  BY <2>1, <2>2, <2>3 DEF EntriesOK
<1>8. ChildEntries(E, NodesOf(graph))
  <2>1. \A e, g \in E : e.child = g.child => e = g
    BY <1>1, <1>3
  <2>2. E \subseteq [child : Int, vs : Seq(NodesOf(graph)), i : Nat, sum : Int, weight : Nat]
    BY <1>1, <1>3
  <2>3. \A e \in E : Len(e.vs) >= 1
    BY <1>1, <1>3
  <2>4. \A e \in E : \A n \in Nat : n < e.i => \E g \in E : g.i = n
    BY <1>1, <1>6
  <2> HIDE DEF E
  <2> QED  BY <1>7, <2>1, <2>2, <2>3, <2>4 DEF ChildEntries
<1>9. {e.child : e \in E} = K
  BY <1>1, <1>3
<1> QED  BY <1>1, <1>3, <1>8, <1>9 DEF K
-----------------------------------------------------------------------------
(* Two compounds abreast: one constraint between children at most.         *)

\* The constraints of a sweep that has come to a rank: each is between two frames side by side
\* that stand on a rank sorted before, and no two are between the same ones.
ConstraintsOK(r) ==
  /\ constraints \in Seq(CompoundsOf(graph) \X CompoundsOf(graph)) /\ IsInjective(constraints)
  /\ \A k \in DOMAIN constraints :
       /\ constraints[k][1] # constraints[k][2]
       /\ graph.parents[constraints[k][1]] = graph.parents[constraints[k][2]]
       /\ \E q \in DOMAIN layers : /\ IF Downward THEN q < r ELSE q > r
                                   /\ Spans(constraints[k][1], q) /\ Spans(constraints[k][2], q)
  /\ \A j, k \in DOMAIN constraints :
       ~(constraints[j][1] = constraints[k][2] /\ constraints[j][2] = constraints[k][1])

\* A constraint as an arc between two children.
ConstraintAt(k) == <<k, constraints[k][1], constraints[k][2]>>

\* The ends of a constraint.
LEMMA PairMembers ==
  ASSUME NEW r, ConstraintsOK(r), NEW k \in DOMAIN constraints
  PROVE  /\ k \in Nat
         /\ constraints[k][1] \in CompoundsOf(graph) /\ constraints[k][2] \in CompoundsOf(graph)
         /\ constraints[k] = <<constraints[k][1], constraints[k][2]>>
         /\ ToSet(constraints[k]) = {constraints[k][1], constraints[k][2]}
<1>1. k \in Nat /\ constraints[k] \in CompoundsOf(graph) \X CompoundsOf(graph)
  BY EntryOf DEF ConstraintsOK
<1>2. PICK c \in CompoundsOf(graph), d \in CompoundsOf(graph) : constraints[k] = <<c, d>>
  BY <1>1
<1>3. ToSet(<<c, d>>) = {c, d}
  BY DEF ToSet
<1> QED  BY <1>1, <1>2, <1>3

\* Two frames that both stand in one compound on a rank are all of them.
LEMMA OnlyTwo ==
  ASSUME GraphShape, TwoAbreast, NEW r \in DOMAIN layers, NEW c \in CompoundsOf(graph) \union {0},
         NEW x \in ChildrenAt(c, r) \intersect CompoundsOf(graph),
         NEW y \in ChildrenAt(c, r) \intersect CompoundsOf(graph), x # y,
         NEW z \in ChildrenAt(c, r) \intersect CompoundsOf(graph), LayersOK
  PROVE  z = x \/ z = y
<1> DEFINE S == {d \in CompoundsOf(graph) : graph.parents[d] = c /\ Spans(d, r)}
<1>1. IsFiniteSet(S)
  <2>1. S \in SUBSET NodesOf(graph) /\ IsFiniteSet(NodesOf(graph))
    BY DEF GraphShape, ForestOK
  <2> QED  BY <2>1, FS_Subset
<1>2. Cardinality(S) <= 2
  BY DEF TwoAbreast
<1>3. ASSUME NEW w \in ChildrenAt(c, r) \intersect CompoundsOf(graph) PROVE w \in S
  <2>1. w \notin ToSet(layers[r])
    <3>1. layers[r] \in Seq(NodesOf(graph) \ CompoundsOf(graph))
      BY DEF LayersOK
    <3> QED  BY <3>1, ListMembers
  <2> QED  BY <2>1 DEF ChildrenAt
<1> HIDE DEF S
<1>4. S = {x, y}
  BY <1>1, <1>2, <1>3, TwoOfTwo
<1> QED  BY <1>3, <1>4

\* With at most two compounds abreast, at most one constraint relates two given children.
LEMMA ArcsOne ==
  ASSUME GraphShape, TwoAbreast, LayersOK, NEW r \in DOMAIN layers, NEW c \in CompoundsOf(graph) \union {0},
         ConstraintsOK(r), NEW K \in SUBSET ChildrenAt(c, r)
  PROVE  /\ \A k \in DOMAIN constraints :
              constraints[k][1] \in K /\ constraints[k][2] \in K => Arcs(K) = {ConstraintAt(k)}
         /\ (\A k \in DOMAIN constraints : ~(constraints[k][1] \in K /\ constraints[k][2] \in K)) => Arcs(K) = {}
<1> DEFINE in(k) == constraints[k][1] \in K /\ constraints[k][2] \in K
           J == {j \in DOMAIN constraints : in(j)}
<1>1. Arcs(K) = {ConstraintAt(k) : k \in J}
  <2>1. ASSUME NEW j \in DOMAIN constraints PROVE ToSet(constraints[j]) \subseteq K <=> in(j)
    BY PairMembers
  <2>2. {j \in DOMAIN constraints : ToSet(constraints[j]) \subseteq K} = J
    BY <2>1
  <2> HIDE DEF J
  <2> QED  BY <2>2 DEF Arcs, ConstraintAt
<1>2. ASSUME NEW j \in J, NEW k \in J PROVE j = k
  <2>1. /\ constraints[j][1] \in CompoundsOf(graph) /\ constraints[j][2] \in CompoundsOf(graph)
        /\ constraints[k][1] \in CompoundsOf(graph) /\ constraints[k][2] \in CompoundsOf(graph)
        /\ constraints[j] = <<constraints[j][1], constraints[j][2]>>
        /\ constraints[k] = <<constraints[k][1], constraints[k][2]>>
    BY PairMembers
  <2>2. constraints[j][1] # constraints[j][2] /\ constraints[k][1] # constraints[k][2]
        /\ ~(constraints[j][1] = constraints[k][2] /\ constraints[j][2] = constraints[k][1])
    BY DEF ConstraintsOK
  <2> DEFINE S == ChildrenAt(c, r) \intersect CompoundsOf(graph)
  <2>3. constraints[j][1] \in S /\ constraints[j][2] \in S /\ constraints[k][1] \in S /\ constraints[k][2] \in S
    BY <2>1
  <2> HIDE DEF S
  <2>4. /\ constraints[k][1] = constraints[j][1] \/ constraints[k][1] = constraints[j][2]
        /\ constraints[k][2] = constraints[j][1] \/ constraints[k][2] = constraints[j][2]
    BY <2>2, <2>3, OnlyTwo DEF S
  <2>5. constraints[j] = constraints[k]
    BY <2>1, <2>2, <2>4
  <2> QED  BY <2>5 DEF ConstraintsOK, IsInjective
<1>3. ASSUME NEW k \in DOMAIN constraints, in(k) PROVE Arcs(K) = {ConstraintAt(k)}
  <2>1. J = {k}
    BY <1>2, <1>3
  <2> HIDE DEF J
  <2> QED  BY <1>1, <2>1
<1>4. ASSUME \A k \in DOMAIN constraints : ~in(k) PROVE Arcs(K) = {}
  BY <1>1, <1>4
<1> QED  BY <1>3, <1>4

\* Frames under a constraint reach over from the rank sorted before.
LEMMA PairHeld ==
  ASSUME GraphShape, LayersOK, NEW r \in DOMAIN layers, ConstraintsOK(r), NEW k \in DOMAIN constraints,
         NEW j \in {1, 2}, Spans(constraints[k][j], r)
  PROVE  \A v \in FrameAt(constraints[k][j], r) : Fixed(v) # {}
<1> DEFINE c == constraints[k][j]
<1>1. c \in CompoundsOf(graph)
  BY PairMembers
<1>2. PICK q \in DOMAIN layers : (IF Downward THEN q < r ELSE q > r) /\ Spans(c, q)
  BY DEF ConstraintsOK
<1>3. q \in Int /\ r \in Int
  BY DEF LayersOK
<1>4. r \in DOMAIN graph.sides[c] /\ q \in DOMAIN graph.sides[c]
  BY <1>1, <1>2 DEF Spans
<1>5. Across(r) \in Int /\ ((q <= Across(r) /\ Across(r) <= r) \/ (r <= Across(r) /\ Across(r) <= q))
  BY <1>2, <1>3 DEF Across
<1>6. Across(r) \in DOMAIN graph.sides[c]
  BY <1>1, <1>4, <1>5 DEF GraphShape
<1> HIDE DEF c
<1>7. \A v \in FrameAt(c, r) : Fixed(v) # {}
  BY <1>1, <1>4, <1>6, FrameHeld
<1> QED  BY <1>7 DEF c
-----------------------------------------------------------------------------
(* sort_subgraph: a compound's list is the lists of its children.          *)

\* A rank that a sweep can sort.
Sweepable(r) ==
  /\ GraphShape /\ LayersOK /\ PlacesTyped /\ TwoAbreast
  /\ r \in DOMAIN layers /\ Across(r) \in DOMAIN layers
  /\ ConstraintsOK(r)

\* The compounds in one have been sorted.
Subs(f, c, r) == \A w \in ChildrenAt(c, r) : w \in CompoundsOf(graph) => GoodSub(f[w], w, r)

\* A constraint relates two of the children K.
Both(k, K) == constraints[k][1] \in K /\ constraints[k][2] \in K

\* All that may move has been placed, the nodes of each child together, those of frames as
\* sorted and as the constraints have it.
PlacedChildren(t, c, r, f, pos) ==
  /\ t \in Seq(NodesOf(graph)) /\ IsInjective(t)
  /\ ToSet(t) = UNION {Own(w, r) : w \in Movable(c, r)}
  /\ \A w \in Movable(c, r) : w \in CompoundsOf(graph) => Embeds(t, f[w].vs, pos[w])
  /\ \A k \in DOMAIN constraints :
       Both(k, Movable(c, r)) => pos[constraints[k][1]] + Len(f[constraints[k][1]].vs) <= pos[constraints[k][2]]

\* The sums a compound passes up are integers.
LEMMA ChildSums ==
  ASSUME NEW M, NEW E, ChildEntries(E, M),
         \/ Arcs({f.child : f \in E}) = {}
         \/ \E arc, d, e : OneArc(arc, E, d, e)
  PROVE  Sums(Resolved(E)) \in Int /\ Weights(Resolved(E)) \in Nat
<1>1. /\ IsFiniteSet(E) /\ \A e \in E : e.sum \in Int /\ e.weight \in Nat
      /\ \A x, y \in E : x.child = y.child => x = y
      /\ E \subseteq [child : Int, vs : Seq(M), i : Nat, sum : Int, weight : Nat]
  BY DEF ChildEntries, EntriesOK
<1>2. CASE Arcs({f.child : f \in E}) = {}
  <2>1. Resolved(E) = E
    BY <1>2 DEF Resolved
  <2> QED  BY <1>1, <2>1, EntrySums
<1>3. CASE \E arc, d, e : OneArc(arc, E, d, e)
  <2> DEFINE K == {f.child : f \in E}
  <2>1. PICK arc, d, e : OneArc(arc, E, d, e)
    BY <1>3
  <2> DEFINE u == EntryBy(E)[d]
             v == EntryBy(E)[e]
             mer == Merged(u, v)
             R == (E \ {u, v}) \union {mer}
  <2>2. /\ arc[1] \in Nat /\ d \in K /\ e \in K /\ d # e /\ arc[2] = d /\ arc[3] = e /\ Arcs(K) = {arc}
    BY <2>1 DEF OneArc
  <2>3. K \in SUBSET Int
    BY <1>1
  <2>4. Resolved(E) = IF Conflict(u, v) THEN R ELSE E
    <3> HIDE DEF K
    <3>1. \A x, y \in E : x.child = y.child => x = y
      BY <1>1
    <3> USE DEF K
    <3> QED  BY <1>1, <2>2, <2>3, <3>1, ResolvedOne, Zenon
  <2>5. u \in E /\ v \in E
    BY <1>1, <2>2, EntriesByChild
  <2>6. mer.sum \in Int /\ mer.weight \in Nat
    <3>1. /\ u \in [child : Int, vs : Seq(M), i : Nat, sum : Int, weight : Nat]
          /\ v \in [child : Int, vs : Seq(M), i : Nat, sum : Int, weight : Nat]
      BY <1>1, <2>5
    <3> HIDE DEF u, v
    <3>2. mer.sum = u.sum + v.sum /\ mer.weight = u.weight + v.weight
      BY <3>1 DEF Merged
    <3>3. u.sum \in Int /\ v.sum \in Int /\ u.weight \in Nat /\ v.weight \in Nat
      BY <3>1
    <3> QED  BY <3>2, <3>3
  <2>7. IsFiniteSet(R)
    <3>1. E \ {u, v} \in SUBSET E
      OBVIOUS
    <3>2. IsFiniteSet(E \ {u, v})
      BY <1>1, <3>1, FS_Subset
    <3> QED  BY <3>2, FS_AddElement
  <2>8. \A x \in R : x.sum \in Int /\ x.weight \in Nat
    BY <1>1, <2>6
  <2> HIDE DEF R, mer, u, v
  <2>9. Sums(R) \in Int /\ Weights(R) \in Nat /\ Sums(E) \in Int /\ Weights(E) \in Nat
    BY <1>1, <2>7, <2>8, EntrySums
  <2> QED  BY <2>4, <2>9
<1> QED  BY <1>2, <1>3

\* The sort of a compound's children places every movable child's list whole.
LEMMA Placing ==
  ASSUME NEW r, Sweepable(r), NEW c \in CompoundsOf(graph) \union {0}, Reached(c, r), NEW f, Subs(f, c, r)
  PROVE  LET R == Resolved(EntriesOf(c, r, f))
         IN  /\ \E pos : PlacedChildren(Interleaved(R), c, r, f, pos)
             /\ Sums(R) \in Int /\ Weights(R) \in Nat
<1> DEFINE E == EntriesOf(c, r, f)
           K == Movable(c, r)
           t == Interleaved(Resolved(E))
           M == NodesOf(graph)
<1>1. /\ GraphShape /\ LayersOK /\ PlacesTyped /\ TwoAbreast /\ r \in DOMAIN layers
      /\ Across(r) \in DOMAIN layers /\ ConstraintsOK(r)
  BY DEF Sweepable
<1>2. /\ ChildEntries(E, M) /\ {e.child : e \in E} = K
      /\ \A e \in E : /\ ToSet(e.vs) = Own(e.child, r)
                      /\ e.child \in CompoundsOf(graph) => e.vs = f[e.child].vs /\ e.weight = f[e.child].weight
  BY <1>1, EntriesGood DEF Subs
<1>3. K \subseteq ChildrenAt(c, r)
  BY DEF Movable
<1> HIDE DEF E, K, t
<1> DEFINE entry == EntryBy(E)
<1>4. /\ \A w \in K : entry[w] \in E /\ entry[w].child = w
      /\ \A e \in E : entry[e.child] = e /\ e.child \in K
  <2>1. IsFiniteSet(E) /\ \A x, y \in E : x.child = y.child => x = y
    BY <1>2 DEF ChildEntries, EntriesOK
  <2>2. entry \in [K -> E] /\ (\A w \in K : entry[w].child = w) /\ \A e \in E : entry[e.child] = e
    BY <1>2, <2>1, EntriesByChild
  <2> QED  BY <1>2, <2>2
<1> HIDE DEF entry
<1>5. ASSUME NEW off, t \in Seq(M), Placed(t, E, off),
             \A k \in DOMAIN constraints : Both(k, K) =>
               off[entry[constraints[k][1]]] + Len(entry[constraints[k][1]].vs) <= off[entry[constraints[k][2]]]
      PROVE  \E pos : PlacedChildren(t, c, r, f, pos)
  <2> DEFINE pos == [w \in K |-> off[entry[w]]]
  <2>1. t \in Seq(M) /\ IsInjective(t)
    BY <1>5 DEF Placed
  <2>2. ToSet(t) = UNION {Own(w, r) : w \in K}
    <3>1. ToSet(t) = UNION {ToSet(e.vs) : e \in E}
      BY <1>5 DEF Placed
    <3>2. {ToSet(e.vs) : e \in E} = {Own(w, r) : w \in K}
      BY <1>2, <1>4
    <3> QED  BY <3>1, <3>2
  <2>3. ASSUME NEW w \in K, w \in CompoundsOf(graph) PROVE Embeds(t, f[w].vs, pos[w])
    <3>1. Embeds(t, entry[w].vs, off[entry[w]])
      BY <1>4, <1>5 DEF Placed
    <3>2. entry[w].vs = f[w].vs
      BY <1>2, <1>4, <2>3
    <3> QED  BY <3>1, <3>2
  <2>4. ASSUME NEW k \in DOMAIN constraints, Both(k, K)
        PROVE  pos[constraints[k][1]] + Len(f[constraints[k][1]].vs) <= pos[constraints[k][2]]
    <3>1. constraints[k][1] \in K /\ constraints[k][2] \in K /\ constraints[k][1] \in CompoundsOf(graph)
      BY <1>1, <2>4, PairMembers DEF Both
    <3>2. entry[constraints[k][1]].vs = f[constraints[k][1]].vs
      BY <1>2, <1>4, <3>1
    <3>3. pos[constraints[k][1]] = off[entry[constraints[k][1]]] /\ pos[constraints[k][2]] = off[entry[constraints[k][2]]]
      BY <3>1
    <3> HIDE DEF pos
    <3> QED  BY <1>5, <2>4, <3>2, <3>3
  <2> HIDE DEF pos
  <2>5. PlacedChildren(t, c, r, f, pos)
    BY <2>1, <2>2, <2>3, <2>4 DEF PlacedChildren, K
  <2> QED  BY <2>5
<1>6. ASSUME \A k \in DOMAIN constraints : ~Both(k, K)
      PROVE  /\ \E pos : PlacedChildren(t, c, r, f, pos)
             /\ Sums(Resolved(E)) \in Int /\ Weights(Resolved(E)) \in Nat
  <2>1. Arcs(K) = {}
    BY <1>1, <1>3, <1>6, ArcsOne DEF Both
  <2>2. Arcs({e.child : e \in E}) = {}
    BY <1>2, <2>1
  <2>3. t \in Seq(M) /\ \E off : Placed(t, E, off)
    BY <1>2, <2>2, SortedFreely DEF t
  <2>4. \E pos : PlacedChildren(t, c, r, f, pos)
    BY <1>5, <1>6, <2>3
  <2>5. Sums(Resolved(E)) \in Int /\ Weights(Resolved(E)) \in Nat
    BY <1>2, <2>2, ChildSums
  <2> QED  BY <2>4, <2>5
<1>7. ASSUME NEW k \in DOMAIN constraints, Both(k, K)
      PROVE  /\ \E pos : PlacedChildren(t, c, r, f, pos)
             /\ Sums(Resolved(E)) \in Int /\ Weights(Resolved(E)) \in Nat
  <2> DEFINE d == constraints[k][1]
             e == constraints[k][2]
             arc == ConstraintAt(k)
  <2>1. /\ k \in Nat /\ d \in CompoundsOf(graph) /\ e \in CompoundsOf(graph) /\ d \in K /\ e \in K
        /\ d # e
    BY <1>1, <1>7, PairMembers DEF Both, ConstraintsOK
  <2>2. arc[1] \in Nat /\ arc[2] = d /\ arc[3] = e
    BY <2>1 DEF ConstraintAt
  <2>3. Arcs(K) = {arc}
    BY <1>1, <1>3, <1>7, ArcsOne DEF Both
  <2>4. ASSUME NEW j \in {1, 2} PROVE entry[constraints[k][j]].weight # 0
    <3> DEFINE w == constraints[k][j]
    <3>1. w \in K /\ w \in CompoundsOf(graph) /\ w # 0
      BY <1>1, <2>1 DEF GraphShape, ForestOK
    <3>2. Spans(w, r)
      <4>1. w \notin ToSet(layers[r])
        <5>1. layers[r] \in Seq(NodesOf(graph) \ CompoundsOf(graph))
          BY <1>1 DEF LayersOK
        <5> QED  BY <3>1, <5>1, ListMembers
      <4> QED  BY <1>3, <3>1, <4>1 DEF ChildrenAt
    <3>3. \A v \in FrameAt(w, r) : Fixed(v) # {}
      BY <1>1, <3>2, PairHeld
    <3>4. f[w].weight # 0
      <4>1. GoodSub(f[w], w, r)
        BY <1>3, <3>1 DEF Subs
      <4> QED  BY <3>1, <3>3, <4>1 DEF GoodSub
    <3> HIDE DEF w
    <3>5. entry[w].weight = f[w].weight
      BY <1>2, <1>4, <3>1
    <3> QED  BY <3>4, <3>5 DEF w
  <2>5. OneArc(arc, E, d, e)
    <3>1. EntryBy(E)[d].weight # 0 /\ EntryBy(E)[e].weight # 0
      BY <2>4 DEF entry
    <3> HIDE DEF d, e, arc
    <3> QED  BY <1>2, <2>1, <2>2, <2>3, <3>1 DEF OneArc
  <2>6. Sums(Resolved(E)) \in Int /\ Weights(Resolved(E)) \in Nat
    <3> HIDE DEF d, e, arc
    <3> QED  BY <1>2, <2>5, ChildSums
  <2>7. t \in Seq(M) /\ \E off : /\ Placed(t, E, off)
                                 /\ off[entry[d]] + Len(entry[d].vs) <= off[entry[e]]
    <3> HIDE DEF d, e, arc
    <3> QED  BY <1>2, <2>5, SortedUnderOne DEF t, entry
  <2>8. PICK off : Placed(t, E, off) /\ off[entry[d]] + Len(entry[d].vs) <= off[entry[e]]
    BY <2>7
  <2>9. ASSUME NEW j \in DOMAIN constraints, Both(j, K) PROVE j = k
    <3>1. {ConstraintAt(j)} = {ConstraintAt(k)}
      BY <1>1, <1>3, <2>3, <2>9, ArcsOne DEF Both
    <3>2. ConstraintAt(j)[1] = j /\ ConstraintAt(k)[1] = k
      BY DEF ConstraintAt
    <3> QED  BY <3>1, <3>2
  <2>10. \A j \in DOMAIN constraints : Both(j, K) =>
           off[entry[constraints[j][1]]] + Len(entry[constraints[j][1]].vs) <= off[entry[constraints[j][2]]]
    BY <2>8, <2>9
  <2>11. \E pos : PlacedChildren(t, c, r, f, pos)
    BY <1>5, <2>7, <2>8, <2>10
  <2> QED  BY <2>6, <2>11
<1>8. /\ \E pos : PlacedChildren(t, c, r, f, pos)
      /\ Sums(Resolved(E)) \in Int /\ Weights(Resolved(E)) \in Nat
  <2>1. CASE \A k \in DOMAIN constraints : ~Both(k, K)
    BY <1>6, <2>1, Zenon
  <2>2. CASE ~\A k \in DOMAIN constraints : ~Both(k, K)
    <3>1. PICK k \in DOMAIN constraints : Both(k, K)
      BY <2>2
    <3> QED  BY <1>7, <3>1, Zenon
  <2> QED  BY <2>1, <2>2, Zenon
<1> QED  BY <1>8 DEF E, t

\* What sort_subgraph places in a compound: movable children, pinned ones, its own borders.
LEMMA Parts ==
  ASSUME NEW r, Sweepable(r), NEW c \in CompoundsOf(graph) \union {0}, Reached(c, r)
  PROVE  LET moved == UNION {Own(w, r) : w \in Movable(c, r)}
         IN  /\ \A w \in ChildrenAt(c, r) : w \in CompoundsOf(graph) => w \in Movable(c, r)
             /\ Pinned(c, r) \subseteq Under(c, r) /\ Pinned(c, r) \subseteq NodesOf(graph)
             /\ Under(c, r) = moved \union Pinned(c, r) \union FrameAt(c, r)
             /\ moved \intersect Pinned(c, r) = {} /\ moved \intersect FrameAt(c, r) = {}
             /\ Pinned(c, r) \intersect FrameAt(c, r) = {}
             /\ c = 0 => FrameAt(c, r) = {}
             /\ c # 0 => \E a, b \in NodesOf(graph) :
                           graph.sides[c][r] = <<a, b>> /\ a # b /\ FrameAt(c, r) = {a, b}
<1> DEFINE C == CompoundsOf(graph)
           moved == UNION {Own(w, r) : w \in Movable(c, r)}
           all == ChildrenAt(c, r)
<1>1. /\ GraphShape /\ LayersOK /\ r \in DOMAIN layers /\ 0 \notin C
  BY DEF Sweepable, GraphShape, ForestOK
<1>2. /\ \A w \in all : w \in NodesOf(graph) /\ (w \notin C => w \in Under(c, r))
      /\ Under(c, r) = UNION {Own(w, r) : w \in all}
      /\ \A w, x \in all : w # x => Own(w, r) \intersect Own(x, r) = {}
  BY <1>1, UnderChildren
<1>3. c = 0 => FrameAt(c, r) = {}
  BY DEF FrameAt
<1>4. c # 0 => \E a, b \in NodesOf(graph) \ C :
                 /\ graph.sides[c][r] = <<a, b>> /\ a # b /\ FrameAt(c, r) = {a, b}
                 /\ a \in all /\ b \in all /\ a \notin graph.pinned /\ b \notin graph.pinned
  <2> SUFFICES ASSUME c # 0 PROVE \E a, b \in NodesOf(graph) \ C :
                 /\ graph.sides[c][r] = <<a, b>> /\ a # b /\ FrameAt(c, r) = {a, b}
                 /\ a \in all /\ b \in all /\ a \notin graph.pinned /\ b \notin graph.pinned
    OBVIOUS
  <2>1. c \in C /\ r \in DOMAIN graph.sides[c]
    BY DEF Reached, Spans
  <2>2. PICK a \in NodesOf(graph) \ C, b \in NodesOf(graph) \ C :
          /\ graph.sides[c][r] = <<a, b>> /\ a # b
          /\ graph.parents[a] = c /\ graph.parents[b] = c
          /\ a \notin graph.pinned /\ b \notin graph.pinned
    BY <1>1, <2>1 DEF GraphShape
  <2>3. ToSet(<<a, b>>) = {a, b}
    BY DEF ToSet
  <2>4. {a, b} \subseteq ToSet(layers[r])
    BY <1>1, <2>1, <2>2, <2>3 DEF LayersOK
  <2>5. a \in all /\ b \in all
    BY <2>2, <2>4 DEF ChildrenAt
  <2>6. FrameAt(c, r) = {a, b}
    BY <2>2, <2>3 DEF FrameAt
  <2> QED  BY <2>2, <2>5, <2>6
<1>5. FrameAt(c, r) \subseteq all /\ FrameAt(c, r) \intersect C = {} /\ FrameAt(c, r) \intersect graph.pinned = {}
  BY <1>3, <1>4
<1>6. Pinned(c, r) \subseteq all /\ Pinned(c, r) \subseteq graph.pinned /\ Pinned(c, r) \intersect C = {}
  BY <1>1 DEF Pinned, GraphShape
<1>7. all = Movable(c, r) \union Pinned(c, r) \union FrameAt(c, r)
      /\ Movable(c, r) \intersect Pinned(c, r) = {} /\ Movable(c, r) \intersect FrameAt(c, r) = {}
      /\ Movable(c, r) \subseteq all
  BY <1>5, <1>6 DEF Movable
<1>8. \A w \in Pinned(c, r) \union FrameAt(c, r) : Own(w, r) = {w}
  BY <1>5, <1>6 DEF Own
<1> HIDE DEF all, C
<1>9. Under(c, r) = moved \union Pinned(c, r) \union FrameAt(c, r)
  <2>1. UNION {Own(w, r) : w \in all} = moved \union Pinned(c, r) \union FrameAt(c, r)
    <3>1. ASSUME NEW w \in all, NEW x \in Own(w, r) PROVE x \in moved \union Pinned(c, r) \union FrameAt(c, r)
      BY <1>7, <1>8, <3>1
    <3>2. ASSUME NEW x \in moved \union Pinned(c, r) \union FrameAt(c, r) PROVE \E w \in all : x \in Own(w, r)
      <4>1. CASE x \in moved
        BY <1>7, <4>1
      <4>2. CASE x \in Pinned(c, r) \union FrameAt(c, r)
        BY <1>7, <1>8, <4>2
      <4> QED  BY <3>2, <4>1, <4>2
    <3> HIDE DEF moved
    <3> QED  BY <3>1, <3>2
  <2> QED  BY <1>2, <2>1
<1>10. \A x \in moved : x \notin Pinned(c, r) /\ x \notin FrameAt(c, r)
  <2> SUFFICES ASSUME NEW w \in Movable(c, r), NEW x \in Own(w, r), x \in Pinned(c, r) \union FrameAt(c, r)
               PROVE  FALSE
    OBVIOUS
  <2>1. x \in all /\ w \in all /\ w # x /\ x \in Own(x, r)
    BY <1>7, <1>8
  <2> QED  BY <1>2, <2>1
<1>11. \A w \in all : w \in C => w \in Movable(c, r)
  BY <1>5, <1>6, <1>7
<1>12. Pinned(c, r) \subseteq Under(c, r) /\ Pinned(c, r) \subseteq NodesOf(graph)
  <2>1. ASSUME NEW w \in Pinned(c, r) PROVE w \in Under(c, r) /\ w \in NodesOf(graph)
    <3>1. w \in all /\ w \notin C
      BY <1>6
    <3> QED  BY <1>2, <3>1
  <2> QED  BY <2>1
<1>13. Pinned(c, r) \intersect FrameAt(c, r) = {}
  BY <1>5, <1>6
<1> QED  BY <1>3, <1>4, <1>9, <1>10, <1>11, <1>12, <1>13 DEF C, all

\* The nodes that sort_subgraph gets to have different places.
Apart(r) == \A u, v \in Under(0, r) : order[u] = order[v] => u = v

\* Nodes ordered by their present places.
ByPlace(S) == {p \in S \X S : order[p[1]] < order[p[2]]}

\* The fixed nodes are listed once each.
LEMMA PinnedLined ==
  ASSUME NEW r, Sweepable(r), NEW S \in SUBSET Under(0, r), S \subseteq NodesOf(graph), IsFiniteSet(S), Apart(r)
  PROVE  \E o : /\ o = Lined(S, LAMBDA u, v : order[u] < order[v])
                /\ o \in Seq(NodesOf(graph)) /\ IsInjective(o) /\ ToSet(o) = S
<1> DEFINE o == Lined(S, LAMBDA u, v : order[u] < order[v])
<1>1. ASSUME NEW v \in S PROVE order[v] \in Int
  <2>1. v \in ToSet(layers[r]) /\ r \in DOMAIN layers
    BY DEF Under, Sweepable
  <2> QED  BY <2>1 DEF Sweepable, PlacesTyped
<1>2. ASSUME NEW u \in S, NEW v \in S PROVE <<u, v>> \in ByPlace(S) <=> order[u] < order[v]
  BY DEF ByPlace
<1>3. \A u, v \in S : order[u] = order[v] => u = v
  BY DEF Apart
<1>4. StrictOrder(S, ByPlace(S))
  <2>1. \A u \in S : <<u, u>> \notin ByPlace(S)
    BY <1>1, <1>2
  <2>2. ASSUME NEW u \in S, NEW v \in S, NEW w \in S, <<u, v>> \in ByPlace(S), <<v, w>> \in ByPlace(S)
        PROVE  <<u, w>> \in ByPlace(S)
    <3>1. order[u] \in Int /\ order[v] \in Int /\ order[w] \in Int /\ order[u] < order[v] /\ order[v] < order[w]
      BY <1>1, <1>2, <2>2
    <3>2. order[u] < order[w]
      BY <3>1
    <3> QED  BY <1>2, <3>2
  <2>3. ASSUME NEW u \in S, NEW v \in S PROVE u = v \/ <<u, v>> \in ByPlace(S) \/ <<v, u>> \in ByPlace(S)
    <3>1. order[u] \in Int /\ order[v] \in Int
      BY <1>1
    <3>2. order[u] = order[v] \/ order[u] < order[v] \/ order[v] < order[u]
      BY <3>1
    <3> QED  BY <1>2, <1>3, <3>2
  <2> QED  BY <2>1, <2>2, <2>3 DEF StrictOrder
<1>5. IsLining(o, S, ByPlace(S))
  <2>1. ASSUME NEW v \in S PROVE {w \in S : order[w] < order[v]} = {w \in S : <<w, v>> \in ByPlace(S)}
    BY <1>2
  <2>2. ASSUME NEW k \in 1..Cardinality(S) PROVE o[k] \in S /\ TurnIn(S, ByPlace(S), o[k]) = k - 1
    <3>1. Cardinality(S) \in Nat
      BY FS_CardinalityType
    <3>2. k - 1 \in 0..(Cardinality(S) - 1)
      BY <3>1
    <3>3. \E v \in S : TurnIn(S, ByPlace(S), v) = k - 1
      BY <1>4, <3>2, OrderedTurns
    <3>4. \E v \in S : Cardinality({w \in S : order[w] < order[v]}) = k - 1
      BY <2>1, <3>3 DEF TurnIn
    <3>5. o[k] = CHOOSE v \in S : Cardinality({w \in S : order[w] < order[v]}) = k - 1
      BY DEF Lined
    <3>6. o[k] \in S /\ Cardinality({w \in S : order[w] < order[o[k]]}) = k - 1
      BY <3>4, <3>5
    <3> QED  BY <2>1, <3>6 DEF TurnIn
  <2>3. DOMAIN o = 1..Cardinality(S) /\ o = [k \in DOMAIN o |-> o[k]]
    <3> DEFINE nth(n) == CHOOSE v \in S : Cardinality({w \in S : order[w] < order[v]}) = n - 1
    <3>1. o = [n \in 1..Cardinality(S) |-> nth(n)]
      BY DEF Lined
    <3> HIDE DEF nth
    <3> QED  BY <3>1
  <2> HIDE DEF o
  <2> QED  BY <1>4, <2>2, <2>3, LiningOf
<1>11. o = Lined(S, LAMBDA u, v : order[u] < order[v])
  OBVIOUS
<1> HIDE DEF o
<1>6. PICK n \in Nat : n = Cardinality(S) /\ o \in [1..n -> S]
  BY <1>5 DEF IsLining
<1>7. o \in Seq(S) /\ Len(o) = n /\ DOMAIN o = 1..n
  BY <1>6
<1>8. ToSet(o) = S
  BY <1>5, <1>6 DEF IsLining, ToSet
<1>9. o \in Seq(NodesOf(graph))
  BY <1>7, SeqWider
<1>10. IsInjective(o)
  <2>1. ASSUME NEW j \in 1..n, NEW k \in 1..n, o[j] = o[k] PROVE j = k
    <3>1. ~(j < k) /\ ~(k < j)
      <4>1. <<o[j], o[k]>> \notin ByPlace(S) /\ <<o[k], o[j]>> \notin ByPlace(S)
        <5>1. o[j] \in S /\ <<o[j], o[j]>> \notin ByPlace(S)
          BY <1>4, <1>6 DEF StrictOrder
        <5> QED  BY <2>1, <5>1
      <4> QED  BY <1>5, <1>6, <4>1 DEF IsLining
    <3> QED  BY <1>6, <3>1
  <2> QED  BY <1>7, <2>1 DEF IsInjective
<1> QED  BY <1>8, <1>9, <1>10, <1>11, Zenon

\* The nodes of each frame in a compound stand together, as sorted and as the constraints have it.
NestedIn(t, c, r, f, pos) ==
  /\ \A w \in ChildrenAt(c, r) : w \in CompoundsOf(graph) => Embeds(t, f[w].vs, pos[w])
  /\ \A k \in DOMAIN constraints :
       Both(k, ChildrenAt(c, r)) => pos[constraints[k][1]] + Len(f[constraints[k][1]].vs) <= pos[constraints[k][2]]

\* The borders stand at the ends.
BetweenSides(t, c, r) ==
  c # 0 => Len(t) >= 2 /\ t[1] = graph.sides[c][r][1] /\ t[Len(t)] = graph.sides[c][r][2]

\* The middle part, between the borders.
LEMMA MiddleOf ==
  ASSUME NEW r, Sweepable(r), Apart(r), NEW c \in CompoundsOf(graph) \union {0}, Reached(c, r), NEW f, Subs(f, c, r)
  PROVE  \E mid, pos :
           /\ mid = Interleaved(Resolved(EntriesOf(c, r, f))) \o Lined(Pinned(c, r), LAMBDA u, v : order[u] < order[v])
           /\ mid \in Seq(NodesOf(graph)) /\ IsInjective(mid)
           /\ ToSet(mid) = Under(c, r) \ FrameAt(c, r)
           /\ NestedIn(mid, c, r, f, pos)
<1> DEFINE t == Interleaved(Resolved(EntriesOf(c, r, f)))
           M == NodesOf(graph)
           moved == UNION {Own(w, r) : w \in Movable(c, r)}
<1>1. PICK pos : PlacedChildren(t, c, r, f, pos)
  BY Placing
<1>2. /\ \A w \in ChildrenAt(c, r) : w \in CompoundsOf(graph) => w \in Movable(c, r)
      /\ Pinned(c, r) \subseteq Under(c, r) /\ Pinned(c, r) \subseteq M
      /\ Under(c, r) = moved \union Pinned(c, r) \union FrameAt(c, r)
      /\ moved \intersect Pinned(c, r) = {} /\ moved \intersect FrameAt(c, r) = {}
      /\ Pinned(c, r) \intersect FrameAt(c, r) = {}
  BY Parts
<1> HIDE DEF t, moved
<1>3. PICK o : /\ o = Lined(Pinned(c, r), LAMBDA u, v : order[u] < order[v])
               /\ o \in Seq(M) /\ IsInjective(o) /\ ToSet(o) = Pinned(c, r)
  <2>1. Under(c, r) \subseteq Under(0, r)
    BY DEF Under
  <2>2. Pinned(c, r) \in SUBSET Under(0, r) /\ IsFiniteSet(Pinned(c, r))
    BY <1>2, <2>1, MovableFinite DEF Sweepable
  <2> QED  BY <1>2, <2>2, PinnedLined
<1>4. /\ t \in Seq(M) /\ IsInjective(t) /\ ToSet(t) = moved
      /\ \A w \in Movable(c, r) : w \in CompoundsOf(graph) => Embeds(t, f[w].vs, pos[w])
      /\ \A k \in DOMAIN constraints :
           Both(k, Movable(c, r)) => pos[constraints[k][1]] + Len(f[constraints[k][1]].vs) <= pos[constraints[k][2]]
  BY <1>1 DEF PlacedChildren, moved
<1>5. PICK mid : mid = t \o o
  OBVIOUS
<1>6. /\ o \in Seq(M) /\ IsInjective(o) /\ ToSet(o) = Pinned(c, r)
  BY <1>3
<1>7. mid = t \o Lined(Pinned(c, r), LAMBDA u, v : order[u] < order[v])
  BY <1>3, <1>5, Zenon
<1>8. /\ mid \in Seq(M) /\ IsInjective(mid) /\ ToSet(mid) = moved \union Pinned(c, r)
      /\ Embeds(mid, t, 0)
  BY <1>2, <1>4, <1>5, <1>6, Joined
<1>9. ToSet(mid) = Under(c, r) \ FrameAt(c, r)
  BY <1>2, <1>8
<1>10. ASSUME NEW w \in ChildrenAt(c, r), w \in CompoundsOf(graph) PROVE Embeds(mid, f[w].vs, pos[w])
  <2>1. Embeds(t, f[w].vs, pos[w]) /\ f[w].vs \in Seq(M)
    BY <1>2, <1>4, <1>10 DEF Subs, GoodSub
  <2>2. Embeds(mid, f[w].vs, 0 + pos[w])
    BY <1>4, <1>8, <2>1, EmbedsOn
  <2>3. 0 + pos[w] = pos[w]
    BY <2>1 DEF Embeds
  <2> QED  BY <2>2, <2>3
<1>11. NestedIn(mid, c, r, f, pos)
  <2>1. ASSUME NEW k \in DOMAIN constraints, Both(k, ChildrenAt(c, r)) PROVE Both(k, Movable(c, r))
    <3>1. constraints[k][1] \in CompoundsOf(graph) /\ constraints[k][2] \in CompoundsOf(graph)
      BY PairMembers DEF Sweepable
    <3> QED  BY <1>2, <2>1, <3>1 DEF Both
  <2> QED  BY <1>4, <1>10, <2>1 DEF NestedIn
<1> QED  BY <1>7, <1>8, <1>9, <1>11, Zenon DEF t

\* What sort_subgraph makes of one compound.
LEMMA SortedOne ==
  ASSUME NEW r, Sweepable(r), Apart(r), NEW c \in CompoundsOf(graph) \union {0}, Reached(c, r), NEW f, Subs(f, c, r)
  PROVE  /\ GoodSub(Sorted(c, r, f), c, r) /\ BetweenSides(Sorted(c, r, f).vs, c, r)
         /\ \E pos : NestedIn(Sorted(c, r, f).vs, c, r, f, pos)
<1> DEFINE R == Resolved(EntriesOf(c, r, f))
           M == NodesOf(graph)
           frame == FrameAt(c, r)
           held == c # 0 /\ \A v \in frame : Fixed(v) # {}
           s == Sorted(c, r, f)
<1>1. /\ c = 0 => frame = {}
      /\ c # 0 => \E a, b \in M : graph.sides[c][r] = <<a, b>> /\ a # b /\ frame = {a, b}
      /\ Under(c, r) = (UNION {Own(w, r) : w \in Movable(c, r)}) \union Pinned(c, r) \union frame
  BY Parts
<1>2. Sums(R) \in Int /\ Weights(R) \in Nat
  BY Placing
<1>3. PICK mid, pos :
           /\ mid = Interleaved(R) \o Lined(Pinned(c, r), LAMBDA u, v : order[u] < order[v])
           /\ mid \in Seq(M) /\ IsInjective(mid)
           /\ ToSet(mid) = Under(c, r) \ frame
           /\ NestedIn(mid, c, r, f, pos)
  BY MiddleOf
<1>4. /\ s.vs = IF c = 0 THEN mid ELSE <<graph.sides[c][r][1]>> \o mid \o <<graph.sides[c][r][2]>>
      /\ s.sum = Sums(R) + IF held THEN MapThenSumSet(PlacesAcross, frame) ELSE 0
      /\ s.weight = Weights(R) + IF held THEN 2 ELSE 0
  BY <1>3 DEF Sorted
<1>5. /\ mid \in Seq(M) /\ IsInjective(mid)
      /\ ToSet(mid) = Under(c, r) \ frame
      /\ NestedIn(mid, c, r, f, pos)
  BY <1>3
<1>6. \A v \in frame : PlacesAcross(v) \in Int
  <2> SUFFICES ASSUME NEW v \in frame PROVE PlacesAcross(v) \in Int
    OBVIOUS
  <2>1. c # 0 /\ v \in M
    BY <1>1
  <2>2. c \in CompoundsOf(graph) /\ r \in DOMAIN graph.sides[c]
    BY <2>1 DEF Reached, Spans
  <2>3. ToSet(graph.sides[c][r]) \subseteq ToSet(layers[r])
    BY <2>2 DEF Sweepable, LayersOK
  <2>4. graph.rank[v] = r
    BY <2>1, <2>3 DEF Sweepable, LayersOK, FrameAt
  <2> QED  BY <2>1, <2>4, FixedTyped DEF Sweepable
<1>7. IsFiniteSet(frame)
  <2>1. frame \intersect M = frame
    BY <1>1
  <2> QED  BY <2>1, MovableFinite DEF Sweepable
<1>8. MapThenSumSet(PlacesAcross, frame) \in Int
  BY <1>6, <1>7, FrameSums
<1> HIDE DEF R
<1>9. s.sum \in Int /\ s.weight \in Nat /\ (c # 0 /\ (\A v \in frame : Fixed(v) # {}) => s.weight # 0)
  <2> HIDE DEF s
  <2> QED  BY <1>2, <1>4, <1>8
<1> HIDE DEF s, frame, held
<1>10. CASE c = 0
  <2>1. s.vs = mid /\ ToSet(mid) = Under(c, r)
    BY <1>1, <1>4, <1>5, <1>10
  <2>2. NestedIn(s.vs, c, r, f, pos)
    BY <1>5, <2>1
  <2>3. GoodSub(s, c, r)
    BY <1>5, <1>9, <1>10, <2>1 DEF GoodSub, frame
  <2>4. BetweenSides(s.vs, c, r)
    BY <1>10 DEF BetweenSides
  <2>5. \E p : NestedIn(s.vs, c, r, f, p)
    BY <2>2
  <2> QED  BY <2>3, <2>4, <2>5 DEF s
<1>11. CASE c # 0
  <2>1. PICK a \in M, b \in M : graph.sides[c][r] = <<a, b>> /\ a # b /\ frame = {a, b}
    BY <1>1, <1>11
  <2>2. s.vs = <<a>> \o mid \o <<b>> /\ graph.sides[c][r][1] = a /\ graph.sides[c][r][2] = b
    BY <1>4, <1>11, <2>1
  <2>3. PICK vs : vs = s.vs
    OBVIOUS
  <2>4. vs = <<a>> \o mid \o <<b>>
    BY <2>2, <2>3
  <2>5. a \notin ToSet(mid) /\ b \notin ToSet(mid)
    BY <1>5, <2>1
  <2>6. /\ vs \in Seq(M) /\ IsInjective(vs) /\ ToSet(vs) = ToSet(mid) \union {a, b}
        /\ Embeds(vs, mid, 1) /\ Len(vs) = Len(mid) + 2 /\ vs[1] = a /\ vs[Len(vs)] = b
    <3>1. mid \in Seq(M) /\ IsInjective(mid)
      BY <1>5
    <3>2. BorderedBy(vs, M, mid, a, b)
      BY <2>1, <2>4, <2>5, <3>1, Bordered, Zenon
    <3> QED  BY <3>2 DEF BorderedBy
  <2>7. Len(vs) >= 2
    <3>1. PICK n \in Nat : n = Len(mid)
      BY <1>5
    <3>2. Len(vs) = n + 2
      BY <2>6, <3>1
    <3>3. n + 2 >= 2
      OBVIOUS
    <3> QED  BY <3>2, <3>3
  <2>8. ToSet(vs) = Under(c, r)
    BY <1>1, <1>5, <2>1, <2>6
  <2>9. GoodSub(s, c, r)
    <3>1. Len(vs) >= 1
      <4>1. PICK n \in Nat : n = Len(vs)
        BY <2>6
      <4>2. n >= 1
        BY <2>7, <4>1
      <4> QED  BY <4>1, <4>2
    <3>2. vs \in Seq(M) /\ IsInjective(vs)
      BY <2>6
    <3> QED  BY <1>9, <2>3, <2>8, <3>1, <3>2 DEF GoodSub, frame
  <2>10. BetweenSides(vs, c, r)
    BY <2>2, <2>6, <2>7 DEF BetweenSides
  <2> DEFINE p == [w \in ChildrenAt(c, r) |-> 1 + pos[w]]
  <2>11. ASSUME NEW w \in ChildrenAt(c, r), w \in CompoundsOf(graph) PROVE Embeds(vs, f[w].vs, p[w])
    <3>1. Embeds(mid, f[w].vs, pos[w]) /\ f[w].vs \in Seq(M)
      BY <1>5, <2>11 DEF NestedIn, Subs, GoodSub
    <3>2. Embeds(vs, mid, 1) /\ vs \in Seq(M)
      BY <2>6
    <3>3. Embeds(vs, f[w].vs, 1 + pos[w])
      BY <1>5, <3>1, <3>2, EmbedsOn
    <3> QED  BY <3>3
  <2>12. ASSUME NEW k \in DOMAIN constraints, Both(k, ChildrenAt(c, r))
         PROVE  p[constraints[k][1]] + Len(f[constraints[k][1]].vs) <= p[constraints[k][2]]
    <3> DEFINE d == constraints[k][1]
               e == constraints[k][2]
    <3>1. d \in ChildrenAt(c, r) /\ e \in ChildrenAt(c, r) /\ d \in CompoundsOf(graph) /\ e \in CompoundsOf(graph)
      BY <2>12, PairMembers DEF Both, Sweepable
    <3>2. pos[d] + Len(f[d].vs) <= pos[e]
      BY <1>5, <2>12 DEF NestedIn
    <3>3. p[d] = 1 + pos[d] /\ p[e] = 1 + pos[e]
      BY <3>1
    <3>4. Embeds(mid, f[d].vs, pos[d]) /\ Embeds(mid, f[e].vs, pos[e]) /\ f[d].vs \in Seq(M)
      BY <1>5, <3>1 DEF NestedIn, Subs, GoodSub
    <3>5. PICK x, y, z : x = pos[d] /\ y = pos[e] /\ z = Len(f[d].vs)
      OBVIOUS
    <3>6. x \in Nat /\ y \in Nat /\ z \in Nat
      BY <3>4, <3>5 DEF Embeds
    <3>7. x + z <= y
      BY <3>2, <3>5
    <3>8. (1 + x) + z <= 1 + y
      BY <3>6, <3>7
    <3> HIDE DEF p
    <3> QED  BY <3>3, <3>5, <3>8
  <2> HIDE DEF p
  <2>13. NestedIn(vs, c, r, f, p)
    BY <2>11, <2>12 DEF NestedIn
  <2>14. \E q : NestedIn(s.vs, c, r, f, q)
    BY <2>3, <2>13
  <2> QED  BY <2>3, <2>9, <2>10, <2>14 DEF s
<1> QED  BY <1>10, <1>11

\* Sorting a compound looks at the compounds in it only.
LEMMA SortedReads ==
  ASSUME NEW c, NEW r, NEW f, NEW g,
         \A w \in ChildrenAt(c, r) : w \in CompoundsOf(graph) => f[w] = g[w]
  PROVE  Sorted(c, r, f) = Sorted(c, r, g)
<1>1. \A v \in Movable(c, r) : EntryFor(v, c, r, f) = EntryFor(v, c, r, g)
  <2> SUFFICES ASSUME NEW v \in Movable(c, r) PROVE EntryFor(v, c, r, f) = EntryFor(v, c, r, g)
    OBVIOUS
  <2>1. v \in CompoundsOf(graph) => f[v] = g[v]
    BY DEF Movable
  <2> QED  BY <2>1 DEF EntryFor
<1>2. {EntryFor(v, c, r, f) : v \in Movable(c, r)} = {EntryFor(v, c, r, g) : v \in Movable(c, r)}
  BY <1>1
<1>3. EntriesOf(c, r, f) = EntriesOf(c, r, g)
  BY <1>2, EntriesAre
<1> QED  BY <1>3, Zenon DEF Sorted
-----------------------------------------------------------------------------
(* The same for all compounds of a rank, from the innermost outwards.      *)

\* What sort_subgraph returns for every compound on a rank, as a function.
InsideRun(f, r) == f = [c \in CompoundsOf(graph) \union {0} |-> Sorted(c, r, f)]

\* No compound lies deeper than a limit.
LEMMA Heights ==
  ASSUME ForestOK
  PROVE  \E height \in [CompoundsOf(graph) \union {0} -> Nat] :
           /\ \A c \in CompoundsOf(graph) \union {0}, w \in CompoundsOf(graph) :
                graph.parents[w] = c => height[w] < height[c]
<1> DEFINE N == NodesOf(graph)
           C == CompoundsOf(graph)
<1>1. PICK depth \in [N -> Nat] : \A v \in N : graph.parents[v] # 0 => depth[graph.parents[v]] < depth[v]
  BY DEF ForestOK
<1>2. IsFiniteSet(C) /\ C \in SUBSET N /\ 0 \notin C
  BY FS_Subset DEF ForestOK
<1>3. PICK n \in Nat : \A c \in C : depth[c] <= n
  <2> DEFINE deep == [c \in C |-> depth[c]]
             D == {deep[c] : c \in C}
  <2>1. IsFiniteSet(D)
    BY <1>2, FiniteImage
  <2>2. D \in SUBSET Int /\ D \in SUBSET Nat
    BY <1>1, <1>2
  <2>3. CASE C = {}
    BY <2>3
  <2>4. CASE C # {}
    <3>1. D # {}
      BY <2>4
    <3>2. \A c \in C : depth[c] \in D
      OBVIOUS
    <3> HIDE DEF D
    <3>3. Max(D) \in D /\ \A y \in D : Max(D) >= y
      BY <2>1, <2>2, <3>1, GreatestInteger
    <3>4. PICK m \in Nat : m = Max(D)
      BY <2>2, <3>3
    <3>5. \A c \in C : depth[c] <= m
      <4>1. \A y \in D : y \in Nat /\ m >= y
        BY <2>2, <3>3, <3>4
      <4>2. \A y \in D : y <= m
        BY <4>1
      <4> QED  BY <3>2, <4>2
    <3> QED  BY <3>5
  <2> QED  BY <2>3, <2>4
<1> DEFINE height == [c \in C \union {0} |-> IF c = 0 THEN n + 1 ELSE n - depth[c]]
<1>4. height \in [C \union {0} -> Nat]
  <2>1. ASSUME NEW c \in C PROVE n - depth[c] \in Nat
    <3>1. depth[c] \in Nat /\ depth[c] <= n
      BY <1>1, <1>2, <1>3
    <3> QED  BY <3>1
  <2> QED  BY <2>1
<1>5. ASSUME NEW c \in C \union {0}, NEW w \in C, graph.parents[w] = c PROVE height[w] < height[c]
  <2>1. depth[w] \in Nat /\ depth[w] <= n /\ height[w] = n - depth[w]
    BY <1>1, <1>2, <1>3
  <2>2. CASE c = 0
    <3>1. height[c] = n + 1
      BY <2>2
    <3> QED  BY <2>1, <3>1
  <2>3. CASE c # 0
    <3>1. height[c] = n - depth[c] /\ depth[c] \in Nat /\ depth[c] < depth[w]
      BY <1>1, <1>2, <1>5, <2>3
    <3> QED  BY <2>1, <3>1
  <2> QED  BY <2>2, <2>3
<1> HIDE DEF height
<1> QED  BY <1>4, <1>5

\* It exists, as compounds are nested,
LEMMA InsideExists ==
  ASSUME ForestOK, NEW r
  PROVE  \E f : InsideRun(f, r)
<1> DEFINE C == CompoundsOf(graph)
           D == C \union {0}
<1>1. PICK height \in [D -> Nat] : \A c \in D, w \in C : graph.parents[w] = c => height[w] < height[c]
  BY Heights
<1> DEFINE good(f, n) == f = [c \in D |-> f[c]] /\ \A c \in D : height[c] < n => f[c] = Sorted(c, r, f)
           upto == {n \in Nat : \E f : good(f, n)}
<1>2. 0 \in upto
  <2> DEFINE g == [c \in D |-> 0]
  <2>1. g = [c \in D |-> g[c]] /\ \A c \in D : ~(height[c] < 0)
    BY <1>1
  <2>2. good(g, 0)
    <3> HIDE DEF g
    <3> QED  BY <2>1
  <2>3. \E f : good(f, 0)
    <3> HIDE DEF g, good
    <3> QED  BY <2>2
  <2> QED  BY <2>3
<1>3. ASSUME NEW n \in Nat, n \in upto PROVE n + 1 \in upto
  <2>1. PICK f : good(f, n)
    BY <1>3
  <2> DEFINE g == [c \in D |-> Sorted(c, r, f)]
  <2>2. g = [c \in D |-> g[c]]
    OBVIOUS
  <2>3. ASSUME NEW c \in D, height[c] < n + 1 PROVE g[c] = Sorted(c, r, g)
    <3>1. g[c] = Sorted(c, r, f)
      OBVIOUS
    <3>2. ASSUME NEW w \in ChildrenAt(c, r), w \in C PROVE f[w] = g[w]
      <4>1. height[w] < height[c] /\ height[w] \in Nat /\ height[c] \in Nat
        BY <1>1, <3>2 DEF ChildrenAt
      <4>2. height[w] < n
        BY <2>3, <4>1
      <4>3. f[w] = Sorted(w, r, f)
        BY <2>1, <3>2, <4>2
      <4> QED  BY <3>2, <4>3
    <3>3. Sorted(c, r, f) = Sorted(c, r, g)
      <4> HIDE DEF g
      <4> QED  BY <3>2, SortedReads
    <3> QED  BY <3>1, <3>3
  <2>4. good(g, n + 1)
    <3> HIDE DEF g
    <3> QED  BY <2>2, <2>3
  <2>5. \E h : good(h, n + 1)
    <3> HIDE DEF g, good
    <3> QED  BY <2>4
  <2>6. n + 1 \in Nat
    OBVIOUS
  <2> HIDE DEF good
  <2> QED  BY <2>5, <2>6
<1>4. Nat \subseteq upto
  <2> HIDE DEF upto
  <2> QED  BY <1>2, <1>3, Inductive
<1>5. PICK n \in Nat : \A c \in D : height[c] < n
  <2>1. height[0] \in Nat
    BY <1>1
  <2>2. \A c \in D : height[c] \in Nat
    BY <1>1
  <2>3. PICK n \in Nat : \A y \in {height[c] : c \in D} : y <= n
    <3> DEFINE H == {height[c] : c \in D}
    <3>1. IsFiniteSet(D)
      <4>1. IsFiniteSet(C)
        BY FS_Subset DEF ForestOK
      <4> QED  BY <4>1, FS_AddElement
    <3>2. DOMAIN height = D
      BY <1>1
    <3>3. IsFiniteSet(H)
      BY <3>1, <3>2, FiniteImage
    <3>4. H \in SUBSET Int /\ H # {} /\ H \in SUBSET Nat
      BY <2>2
    <3> HIDE DEF H
    <3>5. Max(H) \in H /\ \A y \in H : Max(H) >= y
      BY <3>3, <3>4, GreatestInteger
    <3>6. PICK m \in Nat : m = Max(H)
      BY <3>4, <3>5
    <3>7. \A y \in H : y \in Nat /\ m >= y
      BY <3>4, <3>5, <3>6
    <3>8. \A y \in H : y <= m
      BY <3>7
    <3> QED  BY <3>8 DEF H
  <2>4. \A c \in D : height[c] < n + 1
    <3> SUFFICES ASSUME NEW c \in D PROVE height[c] < n + 1
      OBVIOUS
    <3>1. height[c] \in Nat /\ height[c] <= n
      BY <2>2, <2>3
    <3> QED  BY <3>1
  <2> QED  BY <2>4
<1>6. PICK f : good(f, n)
  BY <1>4
<1>7. \A c \in D : f[c] = Sorted(c, r, f)
  BY <1>5, <1>6
<1>8. f = [c \in D |-> f[c]]
  BY <1>6
<1>9. f = [c \in D |-> Sorted(c, r, f)]
  BY <1>7, <1>8
<1> QED  BY <1>9 DEF InsideRun

\* so it may be named;
InsideOf(r) == CHOOSE f : InsideRun(f, r)

\* it is what the model folds over the compounds by height.
LEMMA InsideIs ==
  ASSUME ForestOK, NEW r
  PROVE  /\ SortedRank(r) = InsideOf(r)[0].vs
         /\ \A c \in CompoundsOf(graph) \union {0} : InsideOf(r)[c] = Sorted(c, r, InsideOf(r))
<1>1. InsideRun(InsideOf(r), r)
  BY InsideExists, Zenon DEF InsideOf
<1>2. SortedRank(r) = InsideOf(r)[0].vs
  BY DEF SortedRank, InsideOf, InsideRun
<1>3. \A c \in CompoundsOf(graph) \union {0} : InsideOf(r)[c] = Sorted(c, r, InsideOf(r))
  <2> DEFINE it == InsideOf(r)
  <2>1. it = [c \in CompoundsOf(graph) \union {0} |-> Sorted(c, r, it)]
    BY <1>1 DEF InsideRun
  <2> HIDE DEF it
  <2>2. \A c \in CompoundsOf(graph) \union {0} : it[c] = Sorted(c, r, it)
    BY <2>1
  <2> QED  BY <2>2 DEF it
<1> QED  BY <1>2, <1>3

\* One compound, when those around and in it are as they should be.
SubSorted(c, r) ==
  /\ GoodSub(InsideOf(r)[c], c, r) /\ BetweenSides(InsideOf(r)[c].vs, c, r)
  /\ \E pos : NestedIn(InsideOf(r)[c].vs, c, r, InsideOf(r), pos)

\* By induction over that nesting every compound is sorted as SubSorted says.
LEMMA AllSubSorted ==
  ASSUME NEW r, Sweepable(r), Apart(r)
  PROVE  \A c \in CompoundsOf(graph) \union {0} : Reached(c, r) => SubSorted(c, r)
<1> DEFINE C == CompoundsOf(graph)
           D == C \union {0}
           it == InsideOf(r)
<1>1. /\ GraphShape /\ LayersOK /\ ForestOK /\ r \in DOMAIN layers
  BY DEF Sweepable, GraphShape
<1>2. \A c \in D : it[c] = Sorted(c, r, it)
  BY <1>1, InsideIs
<1>3. PICK height \in [D -> Nat] : \A c \in D, w \in C : graph.parents[w] = c => height[w] < height[c]
  BY <1>1, Heights
<1> HIDE DEF it
<1> DEFINE upto == {n \in Nat : \A c \in D : height[c] < n /\ Reached(c, r) => SubSorted(c, r)}
<1>4. 0 \in upto
  BY <1>3
<1>5. ASSUME NEW n \in Nat, n \in upto PROVE n + 1 \in upto
  <2>1. ASSUME NEW c \in D, height[c] < n + 1, Reached(c, r) PROVE SubSorted(c, r)
    <3>1. ASSUME NEW w \in ChildrenAt(c, r), w \in C PROVE GoodSub(it[w], w, r)
      <4>1. Reached(w, r) /\ graph.parents[w] = c
        BY <1>1, <2>1, <3>1, UnderChildren
      <4>2. height[w] < height[c] /\ height[w] \in Nat /\ height[c] \in Nat
        BY <1>3, <3>1, <4>1
      <4>3. height[w] < n
        BY <2>1, <4>2
      <4>4. SubSorted(w, r)
        BY <1>5, <3>1, <4>1, <4>3
      <4> QED  BY <4>4 DEF SubSorted, it
    <3>2. Subs(it, c, r)
      BY <3>1 DEF Subs
    <3>3. /\ GoodSub(Sorted(c, r, it), c, r) /\ BetweenSides(Sorted(c, r, it).vs, c, r)
          /\ \E pos : NestedIn(Sorted(c, r, it).vs, c, r, it, pos)
      BY <2>1, <3>2, SortedOne
    <3>4. it[c] = Sorted(c, r, it)
      BY <1>2
    <3> QED  BY <3>3, <3>4 DEF SubSorted, it
  <2>2. n + 1 \in Nat
    OBVIOUS
  <2> QED  BY <2>1, <2>2
<1>6. Nat \subseteq upto
  <2> HIDE DEF upto
  <2> QED  BY <1>4, <1>5, Inductive
<1>7. ASSUME NEW c \in D, Reached(c, r) PROVE SubSorted(c, r)
  <2>1. height[c] + 1 \in Nat /\ height[c] < height[c] + 1
    BY <1>3
  <2>2. height[c] + 1 \in upto
    BY <1>6, <2>1
  <2> QED  BY <1>7, <2>1, <2>2
<1> QED  BY <1>7

\* A compound seen on a rank has its parent seen there too, as its child.
LEMMA ReachedAround ==
  ASSUME GraphShape, LayersOK, NEW r \in DOMAIN layers, NEW c \in CompoundsOf(graph), Reached(c, r)
  PROVE  /\ graph.parents[c] \in CompoundsOf(graph) \union {0}
         /\ Reached(graph.parents[c], r) /\ c \in ChildrenAt(graph.parents[c], r)
<1> DEFINE p == graph.parents[c]
<1>1. c \in NodesOf(graph) /\ p \in CompoundsOf(graph) \union {0} /\ c # 0 /\ ForestOK
  BY DEF GraphShape, ForestOK
<1>2. Spans(c, r) /\ \A d \in Ups(c) : Spans(d, r)
  BY <1>1 DEF Reached
<1>3. p # 0 => p \in Ups(c) /\ Ups(p) \subseteq Ups(c)
  <2> HIDE DEF p
  <2>1. Ups(c) = IF p = 0 THEN {} ELSE {p} \union Ups(p)
    BY <1>1, UpsAre DEF p
  <2> QED  BY <2>1
<1>4. Reached(p, r)
  BY <1>1, <1>2, <1>3 DEF Reached
<1>5. c \in ChildrenAt(p, r)
  BY <1>1, <1>2 DEF ChildrenAt
<1> QED  BY <1>1, <1>4, <1>5

\* Each compound is one part of the whole rank.
LEMMA AllEmbedded ==
  ASSUME NEW r, Sweepable(r), Apart(r)
  PROVE  \A c \in CompoundsOf(graph) : Reached(c, r) => \E o : Embeds(SortedRank(r), InsideOf(r)[c].vs, o)
<1> DEFINE C == CompoundsOf(graph)
           N == NodesOf(graph)
           it == InsideOf(r)
           t == SortedRank(r)
           S == {v \in N : v \in C /\ Reached(v, r) => \E o : Embeds(t, it[v].vs, o)}
<1>1. /\ GraphShape /\ LayersOK /\ ForestOK /\ r \in DOMAIN layers
  BY DEF Sweepable, GraphShape
<1>2. t = it[0].vs
  BY <1>1, InsideIs
<1>3. \A c \in C \union {0} : Reached(c, r) => /\ it[c].vs \in Seq(N)
                                              /\ \E pos : NestedIn(it[c].vs, c, r, it, pos)
  BY AllSubSorted DEF SubSorted, GoodSub
<1>4. Reached(0, r)
  BY DEF Reached
<1>5. t \in Seq(N)
  BY <1>2, <1>3, <1>4
<1> HIDE DEF it, t
<1>6. ASSUME NEW v \in N, graph.parents[v] # 0 => graph.parents[v] \in S PROVE v \in S
  <2> SUFFICES ASSUME v \in C, Reached(v, r) PROVE \E o : Embeds(t, it[v].vs, o)
    OBVIOUS
  <2> DEFINE p == graph.parents[v]
  <2>1. p \in C \union {0} /\ Reached(p, r) /\ v \in ChildrenAt(p, r)
    BY <1>1, ReachedAround
  <2>2. it[p].vs \in Seq(N) /\ it[v].vs \in Seq(N)
    BY <1>3, <2>1
  <2>3. PICK pos : NestedIn(it[p].vs, p, r, it, pos)
    BY <1>3, <2>1
  <2>4. Embeds(it[p].vs, it[v].vs, pos[v])
    BY <2>1, <2>3 DEF NestedIn
  <2>5. CASE p = 0
    BY <1>2, <2>4, <2>5
  <2>6. CASE p # 0
    <3>1. p \in S /\ p \in C
      BY <1>6, <2>1, <2>6
    <3>2. PICK o : Embeds(t, it[p].vs, o)
      BY <2>1, <3>1
    <3> HIDE DEF p
    <3>3. Embeds(t, it[v].vs, o + pos[v])
      BY <1>5, <2>2, <2>4, <3>2, EmbedsOn
    <3> QED  BY <3>3
  <2> QED  BY <2>5, <2>6
<1>7. N \subseteq S
  <2> HIDE DEF S
  <2> QED  BY <1>1, <1>6, Downwards1
<1>8. C \subseteq N
  BY <1>1 DEF ForestOK
<1> QED  BY <1>7, <1>8 DEF it, t

\* The nodes of a compound stand together from a place on, between its borders.
Block(t, c, r, o, n) ==
  /\ o \in Nat /\ n \in Nat /\ n >= 2 /\ o + n <= Len(t)
  /\ \A j \in 1..n : t[o + j] \in Under(c, r)
  /\ \A v \in Under(c, r) : \E j \in 1..n : t[o + j] = v
  /\ t[o + 1] = graph.sides[c][r][1] /\ t[o + n] = graph.sides[c][r][2]

\* One frame stands to the left of another.
Precedes(t, c, d, r) ==
  \A i, j \in 1..Len(t) : t[i] \in Under(c, r) /\ t[j] \in Under(d, r) => i < j

\* A rank as sort_subgraph leaves it.
RankOK(t, r) ==
  /\ Lists(t, Under(0, r))
  /\ \A c \in CompoundsOf(graph) : Reached(c, r) => \E o, n : Block(t, c, r, o, n)
  /\ \A k \in DOMAIN constraints :
       Reached(constraints[k][1], r) /\ Reached(constraints[k][2], r) =>
         Precedes(t, constraints[k][1], constraints[k][2], r)

\* A list that stands in another, whose members differ, has its members there only.
LEMMA EmbeddedPlaces ==
  ASSUME NEW R, NEW t \in Seq(R), IsInjective(t), NEW s \in Seq(R), NEW o, Embeds(t, s, o),
         NEW i \in 1..Len(t), t[i] \in ToSet(s)
  PROVE  \E x \in 1..Len(s) : i = o + x
<1>1. PICK x \in 1..Len(s) : s[x] = t[i]
  BY ListMembers
<1>2. PICK n \in Nat, m \in Nat : n = Len(s) /\ m = Len(t)
  OBVIOUS
<1>3. o \in Nat /\ o + n <= m /\ t[o + x] = s[x] /\ x \in 1..n
  BY <1>1, <1>2 DEF Embeds
<1>4. o + x \in 1..m
  BY <1>3
<1>5. o + x \in DOMAIN t /\ i \in DOMAIN t
  BY <1>2, <1>4
<1>6. i = o + x
  BY <1>1, <1>3, <1>5 DEF IsInjective
<1> QED  BY <1>6

\* A sorted rank lists its nodes once each, with every frame around its own nodes.
LEMMA SortedRankOK ==
  ASSUME NEW r, Sweepable(r), Apart(r)
  PROVE  RankOK(SortedRank(r), r)
<1> DEFINE C == CompoundsOf(graph)
           N == NodesOf(graph)
           it == InsideOf(r)
           t == SortedRank(r)
<1>1. /\ GraphShape /\ LayersOK /\ ForestOK /\ r \in DOMAIN layers
  BY DEF Sweepable, GraphShape
<1>2. t = it[0].vs
  BY <1>1, InsideIs
<1>3. \A c \in C \union {0} : Reached(c, r) =>
        /\ it[c].vs \in Seq(N) /\ IsInjective(it[c].vs) /\ ToSet(it[c].vs) = Under(c, r)
        /\ BetweenSides(it[c].vs, c, r)
        /\ \E pos : NestedIn(it[c].vs, c, r, it, pos)
  BY AllSubSorted DEF SubSorted, GoodSub
<1>4. Reached(0, r)
  BY DEF Reached
<1>5. t \in Seq(N) /\ IsInjective(t) /\ ToSet(t) = Under(0, r)
  BY <1>2, <1>3, <1>4
<1>6. \A c \in C : Reached(c, r) => \E o : Embeds(t, it[c].vs, o)
  BY AllEmbedded
<1> HIDE DEF it, t
<1>7. Lists(t, Under(0, r))
  <2>1. \A k \in 1..Len(t) : t[k] \in Under(0, r)
    BY <1>5, ListMembers
  <2>2. t \in Seq(Under(0, r))
    BY <1>5, <2>1, SeqWithin
  <2>3. \A x \in Under(0, r) : \E k \in 1..Len(t) : t[k] = x
    BY <1>5, ListMembers
  <2> QED  BY <1>5, <2>2, <2>3 DEF Lists
<1>8. ASSUME NEW c \in C, Reached(c, r) PROVE \E o, n : Block(t, c, r, o, n)
  <2>1. PICK o : Embeds(t, it[c].vs, o)
    BY <1>6, <1>8
  <2>2. PICK s : s = it[c].vs
    OBVIOUS
  <2>3. s \in Seq(N) /\ ToSet(s) = Under(c, r) /\ BetweenSides(s, c, r) /\ Embeds(t, s, o)
    BY <1>3, <1>8, <2>1, <2>2
  <2>4. c # 0
    BY <1>1 DEF ForestOK
  <2>5. PICK n \in Nat : n = Len(s)
    BY <2>3
  <2>6. n >= 2 /\ s[1] = graph.sides[c][r][1] /\ s[n] = graph.sides[c][r][2]
    BY <2>3, <2>4, <2>5 DEF BetweenSides
  <2>7. o \in Nat /\ o + n <= Len(t) /\ \A k \in 1..n : t[o + k] = s[k]
    BY <2>3, <2>5 DEF Embeds
  <2>8. 1 \in 1..n /\ n \in 1..n
    BY <2>5, <2>6
  <2>9. (\A k \in 1..n : s[k] \in Under(c, r)) /\ \A v \in Under(c, r) : \E k \in 1..n : s[k] = v
    BY <2>3, <2>5, ListMembers
  <2>10. Block(t, c, r, o, n)
    <3>1. (\A j \in 1..n : t[o + j] \in Under(c, r)) /\ \A v \in Under(c, r) : \E j \in 1..n : t[o + j] = v
      BY <2>7, <2>9
    <3>2. t[o + 1] = graph.sides[c][r][1]
      <4>1. t[o + 1] = s[1]
        BY <2>7, <2>8
      <4> QED  BY <2>6, <4>1
    <3>3. t[o + n] = graph.sides[c][r][2]
      <4>1. t[o + n] = s[n]
        BY <2>7, <2>8
      <4> QED  BY <2>6, <4>1
    <3>4. o \in Nat /\ n \in Nat /\ n >= 2 /\ o + n <= Len(t)
      BY <2>5, <2>6, <2>7
    <3> QED  BY <3>1, <3>2, <3>3, <3>4, Zenon DEF Block
  <2> QED  BY <2>10
<1>9. ASSUME NEW k \in DOMAIN constraints, Reached(constraints[k][1], r), Reached(constraints[k][2], r)
      PROVE  Precedes(t, constraints[k][1], constraints[k][2], r)
  <2> DEFINE c == constraints[k][1]
             d == constraints[k][2]
             p == graph.parents[c]
  <2>1. c \in C /\ d \in C /\ graph.parents[d] = p
    BY PairMembers DEF Sweepable, ConstraintsOK
  <2>2. /\ p \in C \union {0} /\ Reached(p, r) /\ c \in ChildrenAt(p, r) /\ d \in ChildrenAt(p, r)
    BY <1>1, <1>9, <2>1, ReachedAround
  <2>3. PICK pos : NestedIn(it[p].vs, p, r, it, pos)
    BY <1>3, <2>2
  <2>4. Both(k, ChildrenAt(p, r))
    BY <2>2 DEF Both
  <2>5. /\ pos[c] + Len(it[c].vs) <= pos[d]
        /\ Embeds(it[p].vs, it[c].vs, pos[c]) /\ Embeds(it[p].vs, it[d].vs, pos[d])
    BY <2>1, <2>2, <2>3, <2>4 DEF NestedIn
  <2>6. /\ it[p].vs \in Seq(N) /\ it[c].vs \in Seq(N) /\ it[d].vs \in Seq(N)
        /\ ToSet(it[c].vs) = Under(c, r) /\ ToSet(it[d].vs) = Under(d, r)
    BY <1>3, <1>9, <2>1, <2>2
  <2> HIDE DEF c, d, p
  <2>7. \E o : Embeds(t, it[p].vs, o)
    <3>1. CASE p = 0
      <4>1. Embeds(t, t, 0)
        <5>1. Len(t) \in Nat
          BY <1>5
        <5>2. PICK m \in Nat : m = Len(t)
          BY <5>1
        <5>3. 0 \in Nat /\ 0 + m <= m /\ \A x \in 1..m : 0 + x = x
          OBVIOUS
        <5> QED  BY <5>2, <5>3 DEF Embeds
      <4> QED  BY <1>2, <3>1, <4>1
    <3>2. CASE p # 0
      BY <1>6, <2>2, <3>2
    <3> QED  BY <3>1, <3>2
  <2>8. PICK o : Embeds(t, it[p].vs, o)
    BY <2>7
  <2>9. Embeds(t, it[c].vs, o + pos[c]) /\ Embeds(t, it[d].vs, o + pos[d])
    BY <1>5, <2>5, <2>6, <2>8, EmbedsOn
  <2>10. ASSUME NEW i \in 1..Len(t), NEW j \in 1..Len(t), t[i] \in Under(c, r), t[j] \in Under(d, r)
         PROVE  i < j
    <3>1. PICK x \in 1..Len(it[c].vs) : i = (o + pos[c]) + x
      BY <1>5, <2>6, <2>9, <2>10, EmbeddedPlaces
    <3>2. PICK y \in 1..Len(it[d].vs) : j = (o + pos[d]) + y
      BY <1>5, <2>6, <2>9, <2>10, EmbeddedPlaces
    <3>3. PICK a, b, lc, ld : a = pos[c] /\ b = pos[d] /\ lc = Len(it[c].vs) /\ ld = Len(it[d].vs)
      OBVIOUS
    <3>4. a \in Nat /\ b \in Nat /\ lc \in Nat /\ ld \in Nat /\ o \in Nat
      BY <2>5, <2>6, <2>8, <3>3 DEF Embeds
    <3>5. a + lc <= b /\ x \in 1..lc /\ y \in 1..ld /\ i = (o + a) + x /\ j = (o + b) + y
      BY <2>5, <3>1, <3>2, <3>3
    <3> QED  BY <3>4, <3>5
  <2> QED  BY <2>10 DEF Precedes, c, d
<1>10. RankOK(t, r)
  BY <1>7, <1>8, <1>9 DEF RankOK
<1> QED  BY <1>10 DEF t
-----------------------------------------------------------------------------
(* add_subgraph_constraints: what is noted of a rank that is sorted.       *)

\* What add_subgraph_constraints keeps: the compound seen last in each, and the constraints.
Traces ==
  [last : [CompoundsOf(graph) \union {0} -> CompoundsOf(graph) \union {0}],
   pairs : Seq(CompoundsOf(graph) \X CompoundsOf(graph))]

\* What one node adds.
Added1(s, v, u) ==
  /\ u \in Traces
  /\ \A c \in CompoundsOf(graph) \union {0} :
       u.last[c] = s.last[c] \/ (u.last[c] \in Ups(v) /\ graph.parents[u.last[c]] = c)
  /\ u.pairs = s.pairs \/ \E a \in CompoundsOf(graph), b \in Ups(v) :
                            /\ u.pairs = Append(s.pairs, <<a, b>>) /\ <<a, b>> \notin ToSet(s.pairs)
                            /\ a = s.last[graph.parents[b]] /\ a # b /\ a # 0
  /\ graph.parents[v] # 0 =>
       LET d == graph.parents[v]
           p == graph.parents[d]
       IN  /\ u.last[p] = d
           /\ s.last[p] \notin {0, d} => <<s.last[p], d>> \in ToSet(u.pairs)

\* Visiting a node adds the constraints Added1 says.
LEMMA AddsOne ==
  ASSUME ForestOK, NEW s \in Traces, NEW v \in NodesOf(graph)
  PROVE  Added1(s, v, AddConstraint(s, v))
<1> DEFINE C == CompoundsOf(graph)
           path == PathUp(v)
           around(k) == graph.parents[path[k]]
           differs == {k \in DOMAIN path : s.last[around(k)] \notin {0, path[k]}}
           met == IF differs = {} THEN DOMAIN path ELSE 1..Min(differs)
           pair == <<s.last[around(Min(differs))], path[Min(differs)]>>
           u == AddConstraint(s, v)
<1> DEFINE lasts == [c \in DOMAIN s.last |->
                       IF \E k \in met : around(k) = c
                       THEN path[CHOOSE k \in met : around(k) = c] ELSE s.last[c]]
           pairs1 == IF differs = {} \/ pair \in ToSet(s.pairs)
                     THEN s.pairs ELSE Append(s.pairs, pair)
<1>1. u.last = lasts /\ u.pairs = pairs1 /\ u = [last |-> lasts, pairs |-> pairs1]
  <2>1. u = [last |-> lasts, pairs |-> pairs1]
    BY DEF AddConstraint
  <2> HIDE DEF u, lasts, pairs1
  <2> QED  BY <2>1
<1>2. path \in Seq(C) /\ DOMAIN path = 1..Len(path) /\ Len(path) \in Nat /\ ToSet(path) = Ups(v) /\ Ups(v) \subseteq C
  <2>1. path \in Seq(C) /\ Ups(v) \subseteq C
    BY UpsAre
  <2>2. Len(path) \in Nat /\ DOMAIN path = 1..Len(path)
    BY <2>1
  <2> QED  BY <2>1, <2>2 DEF Ups
<1>3. ASSUME NEW k \in DOMAIN path PROVE path[k] \in Ups(v) /\ path[k] \in C /\ around(k) \in C \union {0}
  <2>1. path[k] \in Ups(v) /\ path[k] \in C
    BY <1>2 DEF ToSet
  <2>2. path[k] \in NodesOf(graph)
    BY <2>1 DEF ForestOK
  <2> QED  BY <2>1, <2>2 DEF ForestOK
<1>4. s.last \in [C \union {0} -> C \union {0}] /\ s.pairs \in Seq(C \X C)
  BY DEF Traces
<1>5. differs # {} => Min(differs) \in differs /\ \A k \in differs : Min(differs) <= k
  <2> SUFFICES ASSUME differs # {} PROVE Min(differs) \in differs /\ \A k \in differs : Min(differs) <= k
    OBVIOUS
  <2>1. IsFiniteSet(1..Len(path))
    BY <1>2, FS_Interval
  <2>2. differs \in SUBSET (1..Len(path)) /\ differs \in SUBSET Int
    BY <1>2
  <2>3. IsFiniteSet(differs)
    BY <2>1, <2>2, FS_Subset
  <2> HIDE DEF differs
  <2> QED  BY <2>2, <2>3, LeastInteger
<1>6. met \subseteq DOMAIN path
  <2>1. CASE differs = {}
    BY <2>1
  <2>2. CASE differs # {}
    <3>1. Min(differs) \in 1..Len(path)
      BY <1>2, <1>5, <2>2
    <3> HIDE DEF differs
    <3>2. 1..Min(differs) \subseteq 1..Len(path)
      BY <1>2, <3>1
    <3> QED  BY <1>2, <2>2, <3>2
  <2> QED  BY <2>1, <2>2
<1>7. differs # {} => /\ pair[1] \in C /\ pair[2] \in Ups(v) /\ pair[2] \in C /\ pair[1] # pair[2] /\ pair[1] # 0
                      /\ pair[1] = s.last[graph.parents[pair[2]]] /\ pair = <<pair[1], pair[2]>>
  <2> SUFFICES ASSUME differs # {}
               PROVE  /\ pair[1] \in C /\ pair[2] \in Ups(v) /\ pair[2] \in C /\ pair[1] # pair[2] /\ pair[1] # 0
                      /\ pair[1] = s.last[graph.parents[pair[2]]] /\ pair = <<pair[1], pair[2]>>
    OBVIOUS
  <2> DEFINE k == Min(differs)
  <2>1. k \in DOMAIN path /\ s.last[around(k)] \notin {0, path[k]}
    BY <1>5
  <2>2. pair[1] = s.last[around(k)] /\ pair[2] = path[k]
    OBVIOUS
  <2> HIDE DEF k
  <2>3. path[k] \in Ups(v) /\ path[k] \in C /\ s.last[around(k)] \in C \union {0}
    BY <1>3, <1>4, <2>1
  <2> QED  BY <2>1, <2>2, <2>3
<1>8. ASSUME NEW c \in C \union {0}
      PROVE  /\ u.last[c] = IF \E k \in met : around(k) = c
                            THEN path[CHOOSE k \in met : around(k) = c] ELSE s.last[c]
  <2>1. DOMAIN s.last = C \union {0}
    BY <1>4
  <2> HIDE DEF u, met, C, pairs1
  <2> QED  BY <1>1, <2>1
<1>9. u.pairs = IF differs = {} \/ pair \in ToSet(s.pairs) THEN s.pairs ELSE Append(s.pairs, pair)
  <2> HIDE DEF u, lasts, differs, pair
  <2> QED  BY <1>1
<1>10. \A k \in met : k \in DOMAIN path
  BY <1>6
<1> HIDE DEF met
<1>11. ASSUME NEW c \in C \union {0}, \E k \in met : around(k) = c
       PROVE  u.last[c] \in Ups(v) /\ graph.parents[u.last[c]] = c
  <2> DEFINE k == CHOOSE j \in met : around(j) = c
  <2>1. k \in met /\ around(k) = c
    BY <1>11
  <2>2. u.last[c] = path[k]
    BY <1>8, <1>11
  <2> HIDE DEF k
  <2> QED  BY <1>3, <1>10, <2>1, <2>2
<1>12. ASSUME NEW c \in C \union {0}
       PROVE  u.last[c] = s.last[c] \/ (u.last[c] \in Ups(v) /\ graph.parents[u.last[c]] = c)
  BY <1>8, <1>11
<1>13. \/ u.pairs = s.pairs
       \/ \E a \in C, b \in Ups(v) :
            /\ u.pairs = Append(s.pairs, <<a, b>>) /\ <<a, b>> \notin ToSet(s.pairs)
            /\ a = s.last[graph.parents[b]] /\ a # b /\ a # 0
  <2> HIDE DEF pair, differs
  <2>1. CASE differs = {} \/ pair \in ToSet(s.pairs)
    BY <1>9, <2>1
  <2>2. CASE ~(differs = {} \/ pair \in ToSet(s.pairs))
    <3> DEFINE a == pair[1]
               b == pair[2]
    <3>1. a \in C /\ b \in Ups(v) /\ a # b /\ a # 0 /\ a = s.last[graph.parents[b]] /\ pair = <<a, b>>
      BY <1>7, <2>2
    <3>2. u.pairs = Append(s.pairs, <<a, b>>) /\ <<a, b>> \notin ToSet(s.pairs)
      BY <1>9, <2>2, <3>1
    <3> HIDE DEF a, b
    <3> QED  BY <3>1, <3>2
  <2> QED  BY <2>1, <2>2
<1>14. u \in Traces
  <2>1. ASSUME NEW c \in C \union {0} PROVE u.last[c] \in C \union {0}
    BY <1>2, <1>4, <1>12
  <2>2. u.pairs \in Seq(C \X C)
    <3> HIDE DEF u, pair
    <3>1. CASE u.pairs = s.pairs
      BY <1>4, <3>1
    <3>2. ASSUME NEW a \in C, NEW b \in Ups(v), u.pairs = Append(s.pairs, <<a, b>>) PROVE u.pairs \in Seq(C \X C)
      <4>1. <<a, b>> \in C \X C
        BY <1>2
      <4> QED  BY <1>4, <3>2, <4>1, Appended
    <3> QED  BY <1>13, <3>1, <3>2
  <2>3. DOMAIN s.last = C \union {0}
    BY <1>4
  <2>4. lasts \in [C \union {0} -> C \union {0}]
    <3>1. \A c \in C \union {0} : lasts[c] \in C \union {0}
      <4> HIDE DEF lasts, u
      <4> QED  BY <1>1, <2>1
    <3>2. lasts = [c \in C \union {0} |-> lasts[c]]
      BY <2>3, Zenon
    <3> HIDE DEF lasts
    <3> QED  BY <3>1, <3>2
  <2> HIDE DEF lasts, pairs1, u
  <2> QED  BY <1>1, <2>2, <2>4 DEF Traces
<1> HIDE DEF lasts, pairs1
<1>15. ASSUME graph.parents[v] # 0
       PROVE  LET d == graph.parents[v]
                  p == graph.parents[d]
              IN  /\ u.last[p] = d
                  /\ s.last[p] \notin {0, d} => <<s.last[p], d>> \in ToSet(u.pairs)
  <2> DEFINE d == graph.parents[v]
             p == graph.parents[d]
  <2>1. path = <<d>> \o PathUp(d) /\ d \in C /\ d \in NodesOf(graph) /\ PathUp(d) \in Seq(C)
    <3>1. d \in C /\ d \in NodesOf(graph)
      BY <1>15 DEF ForestOK
    <3>2. path = <<d>> \o PathUp(d)
      BY <1>15, PathUpIs
    <3>3. PathUp(d) \in Seq(C)
      BY <3>1, UpsAre
    <3> QED  BY <3>1, <3>2, <3>3
  <2>2. path[1] = d /\ 1 \in DOMAIN path
    <3> HIDE DEF path
    <3>1. PICK y : y = PathUp(d)
      OBVIOUS
    <3>2. y \in Seq(C) /\ path = <<d>> \o y
      BY <2>1, <3>1
    <3> QED  BY <3>2
  <2>3. around(1) = p /\ p \in C \union {0}
    BY <1>3, <2>2
  <2>4. 1 \in met
    <3>1. CASE differs = {}
      BY <2>2, <3>1 DEF met
    <3>2. CASE differs # {}
      <4>1. Min(differs) \in 1..Len(path)
        BY <1>2, <1>5, <3>2
      <4> HIDE DEF differs
      <4>2. 1 \in 1..Min(differs)
        BY <1>2, <4>1
      <4> QED  BY <3>2, <4>2 DEF met
    <3> QED  BY <3>1, <3>2
  <2>5. u.last[p] = d
    <3>1. u.last[p] \in Ups(v) /\ graph.parents[u.last[p]] = p
      BY <1>11, <2>3, <2>4
    <3>2. d \in Ups(v) /\ graph.parents[d] = p
      BY <1>3, <2>2
    <3> HIDE DEF u, p, d
    <3> QED  BY <3>1, <3>2, ChildOnTheWay
  <2>6. ASSUME s.last[p] \notin {0, d} PROVE <<s.last[p], d>> \in ToSet(u.pairs)
    <3>1. 1 \in differs
      BY <2>2, <2>3, <2>6
    <3>2. Min(differs) = 1
      <4>1. Min(differs) \in 1..Len(path) /\ Min(differs) <= 1
        BY <1>2, <1>5, <3>1
      <4> HIDE DEF differs
      <4> QED  BY <1>2, <4>1
    <3>3. pair = <<s.last[p], d>>
      <4> HIDE DEF differs
      <4> QED  BY <2>2, <2>3, <3>2
    <3>4. differs # {}
      BY <3>1
    <3>5. pair \in C \X C
      BY <1>7, <3>4
    <3> HIDE DEF pair, differs, u
    <3>6. CASE pair \in ToSet(s.pairs)
      BY <1>9, <3>3, <3>6
    <3>7. CASE pair \notin ToSet(s.pairs)
      <4>1. u.pairs = Append(s.pairs, pair)
        BY <1>9, <3>4, <3>7
      <4>2. pair \in ToSet(Append(s.pairs, pair))
        BY <1>4, <3>5, Appended
      <4> QED  BY <3>3, <4>1, <4>2
    <3> QED  BY <3>6, <3>7
  <2> QED  BY <2>5, <2>6
<1> HIDE DEF u
<1> QED  BY <1>12, <1>13, <1>14, <1>15 DEF Added1, u

\* The fold of add_subgraph_constraints before any node.
NoTrace == [last |-> [c \in CompoundsOf(graph) \union {0} |-> 0], pairs |-> constraints]

\* The states that add_subgraph_constraints goes through along a list.
Traced(t, st) ==
  /\ st[0] = NoTrace
  /\ \A k \in 0..Len(t) : st[k] \in Traces
  /\ \A k \in 1..Len(t) : st[k] = AddConstraint(st[k - 1], t[k])

\* The fold goes through the states of a trace.
LEMMA TraceExists ==
  ASSUME ForestOK, NEW t \in Seq(NodesOf(graph)), constraints \in Seq(CompoundsOf(graph) \X CompoundsOf(graph))
  PROVE  \E st : Traced(t, st) /\ WithConstraints(t) = st[Len(t)].pairs
<1> DEFINE D == DOMAIN t
           n == Len(t)
           B(f) == f = [T \in SUBSET D |-> IF T = {} THEN NoTrace
                                           ELSE AddConstraint(f[T \ {Max(T)}], t[Max(T)])]
           g == CHOOSE f : B(f)
           ch == [T \in SUBSET D |-> Max(T)]
           succ == [p \in D \X Traces |-> AddConstraint(p[2], t[p[1]])]
<1>1. WithConstraints(t) = g[D].pairs
  BY DEF WithConstraints, FoldLeft, MapThenFoldSet, NoTrace
<1>2. n \in Nat /\ D = 1..n /\ IsFiniteSet(D) /\ D \in SUBSET Int
  BY FS_Interval
<1>3. NoTrace \in Traces
  BY DEF NoTrace, Traces
<1>4. succ \in [D \X Traces -> Traces]
  <2>1. ASSUME NEW k \in D, NEW s \in Traces PROVE AddConstraint(s, t[k]) \in Traces
    <3>1. t[k] \in NodesOf(graph)
      BY <1>2
    <3> QED  BY <3>1, AddsOne DEF Added1
  <2>2. \A p \in D \X Traces : p[1] \in D /\ p[2] \in Traces
    OBVIOUS
  <2> QED  BY <2>1, <2>2
<1>5. \A T \in SUBSET D : T # {} => ch[T] \in T /\ ch[T] = Max(T) /\ Max(T) \in D
  <2> TAKE T \in SUBSET D
  <2>1. IsFiniteSet(T) /\ T \in SUBSET Int
    BY <1>2, FS_Subset
  <2>2. T # {} => Max(T) \in T
    BY <2>1, GreatestInteger
  <2>3. ch[T] = Max(T)
    OBVIOUS
  <2> HIDE DEF ch
  <2> QED  BY <2>2, <2>3
<1>6. PICK f : f \in [SUBSET D -> Traces] /\ Folds(f, D, NoTrace, succ, ch)
  <2> HIDE DEF succ, ch, D
  <2>1. \A T \in SUBSET D : T # {} => ch[T] \in T
    BY <1>5
  <2> QED  BY <1>2, <1>3, <1>4, <2>1, FoldExists, Zenon
<1>7. ASSUME NEW T \in SUBSET D
      PROVE  f[T] = IF T = {} THEN NoTrace ELSE AddConstraint(f[T \ {Max(T)}], t[Max(T)])
  <2>1. CASE T = {}
    <3>1. f[T] = NoTrace
      <4> HIDE DEF succ, ch, D
      <4> QED  BY <1>6, <2>1 DEF Folds
    <3> QED  BY <2>1, <3>1
  <2>2. CASE T # {}
    <3>1. f[T] = succ[<<ch[T], f[T \ {ch[T]}]>>]
      <4> HIDE DEF succ, ch, D
      <4> QED  BY <1>6, <2>2 DEF Folds
    <3>2. ch[T] = Max(T) /\ Max(T) \in D
      BY <1>5, <2>2
    <3>3. f[T \ {Max(T)}] \in Traces
      BY <1>6
    <3> HIDE DEF ch, D
    <3>4. f[T] = succ[<<Max(T), f[T \ {Max(T)}]>>]
      BY <3>1, <3>2
    <3>5. succ[<<Max(T), f[T \ {Max(T)}]>>] = AddConstraint(f[T \ {Max(T)}], t[Max(T)])
      BY <3>2, <3>3
    <3> HIDE DEF succ
    <3> QED  BY <2>2, <3>4, <3>5
  <2> QED  BY <2>1, <2>2
<1>8. B(f)
  <2>1. f = [T \in SUBSET D |-> f[T]]
    BY <1>6
  <2> HIDE DEF D
  <2> QED  BY <1>7, <2>1
<1>9. B(g)
  <2> HIDE DEF B
  <2> QED  BY <1>8
<1>10. ASSUME NEW T \in SUBSET D
       PROVE  g[T] = IF T = {} THEN NoTrace ELSE AddConstraint(g[T \ {Max(T)}], t[Max(T)])
  <2> HIDE DEF g, D
  <2> QED  BY <1>9
<1> HIDE DEF g, B, ch, succ
<1> DEFINE st == [k \in 0..n |-> g[1..k]]
           ok == {k \in Nat : k <= n => g[1..k] \in Traces}
<1>11. 1..0 = {}
  OBVIOUS
<1>12. st[0] = NoTrace
  <2>1. g[{}] = NoTrace
    BY <1>10
  <2>2. 0 \in 0..n
    BY <1>2
  <2> QED  BY <1>11, <2>1, <2>2
<1>13. ASSUME NEW k \in 1..n PROVE g[1..k] = AddConstraint(g[1..(k - 1)], t[k]) /\ k - 1 \in 0..n
  <2>1. k \in Nat /\ k # 0 /\ 1..k \in SUBSET D /\ 1..k # {}
    <3> HIDE DEF n, D
    <3>1. k \in Nat /\ k # 0 /\ 1..k \subseteq 1..n /\ k \in 1..k
      BY <1>2
    <3> QED  BY <1>2, <3>1
  <2>2. Max(1..k) = k /\ (1..k) \ {Max(1..k)} = 1..(k - 1)
    BY <2>1, TopOfInterval
  <2>3. g[1..k] = AddConstraint(g[(1..k) \ {Max(1..k)}], t[Max(1..k)])
    BY <1>10, <2>1
  <2>4. k - 1 \in 0..n
    BY <1>2
  <2> QED  BY <2>2, <2>3, <2>4
<1>14. Nat \subseteq ok
  <2>1. 0 \in ok
    <3>1. g[1..0] = NoTrace
      <4>1. g[{}] = NoTrace
        BY <1>10
      <4> QED  BY <4>1, <1>11
    <3> QED  BY <1>3, <3>1
  <2>2. ASSUME NEW k \in Nat, k \in ok PROVE k + 1 \in ok
    <3> SUFFICES ASSUME k + 1 <= n PROVE g[1..(k + 1)] \in Traces
      OBVIOUS
    <3>1. k + 1 \in 1..n /\ (k + 1) - 1 = k /\ k <= n
      BY <1>2
    <3>2. g[1..(k + 1)] = AddConstraint(g[1..k], t[k + 1])
      BY <1>13, <3>1
    <3>3. g[1..k] \in Traces
      BY <2>2, <3>1
    <3>4. t[k + 1] \in NodesOf(graph)
      BY <1>2, <3>1
    <3>5. AddConstraint(g[1..k], t[k + 1]) \in Traces
      BY <3>3, <3>4, AddsOne DEF Added1
    <3> QED  BY <3>2, <3>5
  <2> HIDE DEF ok
  <2> QED  BY <2>1, <2>2, Inductive
<1>15. \A k \in 0..n : st[k] \in Traces /\ st[k] = g[1..k]
  BY <1>2, <1>14
<1>16. \A k \in 1..n : st[k] = AddConstraint(st[k - 1], t[k])
  <2> TAKE k \in 1..n
  <2>1. k \in 0..n
    BY <1>2
  <2> QED  BY <1>13, <1>15, <2>1
<1>17. n \in 0..n
  BY <1>2
<1>18. WithConstraints(t) = st[n].pairs
  BY <1>1, <1>2, <1>15, <1>17
<1> HIDE DEF st
<1>19. Traced(t, st)
  BY <1>12, <1>15, <1>16 DEF Traced
<1> QED  BY <1>18, <1>19

\* A constraint between frames around two nodes of a list, in their order.
PairFrom(p, t, k) ==
  /\ p[1] # p[2] /\ graph.parents[p[1]] = graph.parents[p[2]]
  /\ \E i, j \in 1..k : i < j /\ p[1] \in Ups(t[i]) /\ p[2] \in Ups(t[j])

\* What is so after k nodes: every pair added stands in the order of the nodes.
TraceGood(s, t, k) ==
  /\ \A c \in CompoundsOf(graph) \union {0} :
       s.last[c] = 0 \/ \E i \in 1..k : s.last[c] \in Ups(t[i]) /\ graph.parents[s.last[c]] = c
  /\ IsInjective(constraints) => IsInjective(s.pairs)
  /\ ToSet(constraints) \subseteq ToSet(s.pairs)
  /\ \A p \in ToSet(s.pairs) : p \in ToSet(constraints) \/ PairFrom(p, t, k)

\* One node more keeps that, and keeps the pairs.
TraceStep(u, s, t, k) == TraceGood(u, t, k + 1) /\ ToSet(s.pairs) \subseteq ToSet(u.pairs)

\* It does at every node,
LEMMA TraceStays ==
  ASSUME ForestOK, NEW t \in Seq(NodesOf(graph)), constraints \in Seq(CompoundsOf(graph) \X CompoundsOf(graph)),
         NEW k \in Nat, k + 1 <= Len(t), NEW s \in Traces, TraceGood(s, t, k), NEW u, u = AddConstraint(s, t[k + 1])
  PROVE  TraceStep(u, s, t, k)
<1> SUFFICES TraceGood(u, t, k + 1) /\ ToSet(s.pairs) \subseteq ToSet(u.pairs)
  BY DEF TraceStep
<1> DEFINE C == CompoundsOf(graph)
<1>1. t[k + 1] \in NodesOf(graph) /\ k + 1 \in 1..(k + 1) /\ \A i \in 1..k : i \in 1..(k + 1) /\ i < k + 1
  <2>1. PICK n \in Nat : n = Len(t)
    OBVIOUS
  <2>2. k + 1 \in 1..n
    BY <2>1
  <2>3. t[k + 1] \in NodesOf(graph)
    BY <2>1, <2>2
  <2> QED  BY <2>3
<1>2. PICK v : v = t[k + 1]
  OBVIOUS
<1>3. Added1(s, v, u)
  <2>1. v \in NodesOf(graph) /\ u = AddConstraint(s, v)
    BY <1>1, <1>2
  <2> QED  BY <2>1, AddsOne
<1>4. u \in Traces /\ s.pairs \in Seq(C \X C) /\ u.pairs \in Seq(C \X C)
  BY <1>3 DEF Added1, Traces
<1>5. ASSUME NEW c \in C \union {0}
      PROVE  u.last[c] = 0 \/ \E i \in 1..(k + 1) : u.last[c] \in Ups(t[i]) /\ graph.parents[u.last[c]] = c
  <2>1. CASE u.last[c] = s.last[c]
    BY <1>1, <2>1 DEF TraceGood
  <2>2. CASE u.last[c] \in Ups(v) /\ graph.parents[u.last[c]] = c
    BY <1>1, <1>2, <2>2
  <2> QED  BY <1>3, <2>1, <2>2 DEF Added1
<1>6. \A p : PairFrom(p, t, k) => PairFrom(p, t, k + 1)
  BY <1>1 DEF PairFrom
<1>7. CASE u.pairs = s.pairs
  BY <1>5, <1>6, <1>7 DEF TraceGood
<1>8. ASSUME NEW a \in C, NEW b \in Ups(v), u.pairs = Append(s.pairs, <<a, b>>), <<a, b>> \notin ToSet(s.pairs),
             a = s.last[graph.parents[b]], a # b, a # 0
      PROVE  TraceGood(u, t, k + 1) /\ ToSet(s.pairs) \subseteq ToSet(u.pairs)
  <2>1. b \in C /\ b \in NodesOf(graph) /\ graph.parents[b] \in C \union {0}
    <3>1. Ups(v) \subseteq C
      BY <1>1, <1>2, UpsAre
    <3>2. b \in C /\ b \in NodesOf(graph)
      BY <3>1 DEF ForestOK
    <3> QED  BY <3>2 DEF ForestOK
  <2>2. PICK i \in 1..k : a \in Ups(t[i]) /\ graph.parents[a] = graph.parents[b]
    BY <1>8, <2>1 DEF TraceGood
  <2>3. PICK p : p = <<a, b>>
    OBVIOUS
  <2>4. p \in C \X C /\ p[1] = a /\ p[2] = b
    BY <2>1, <2>3
  <2>5. PairFrom(p, t, k + 1)
    <3>1. i \in 1..(k + 1) /\ k + 1 \in 1..(k + 1) /\ i < k + 1
      BY <1>1
    <3> QED  BY <1>2, <1>8, <2>2, <2>4, <3>1 DEF PairFrom
  <2>6. /\ ToSet(u.pairs) = ToSet(s.pairs) \union {p}
        /\ IsInjective(s.pairs) => IsInjective(u.pairs)
    <3>1. u.pairs = Append(s.pairs, p) /\ p \notin ToSet(s.pairs)
      BY <1>8, <2>3
    <3>2. ToSet(Append(s.pairs, p)) = ToSet(s.pairs) \union {p}
      BY <1>4, <2>4, Appended
    <3>3. IsInjective(s.pairs) => IsInjective(Append(s.pairs, p))
      BY <1>4, <2>4, <3>1, Appended
    <3> QED  BY <3>1, <3>2, <3>3
  <2> QED  BY <1>5, <1>6, <2>5, <2>6 DEF TraceGood
<1> QED  BY <1>3, <1>7, <1>8 DEF Added1

\* so it is so throughout.
LEMMA TraceKept ==
  ASSUME ForestOK, NEW t \in Seq(NodesOf(graph)), constraints \in Seq(CompoundsOf(graph) \X CompoundsOf(graph)),
         NEW st, Traced(t, st)
  PROVE  /\ \A k \in 0..Len(t) : TraceGood(st[k], t, k)
         /\ \A k \in 1..Len(t) : ToSet(st[k - 1].pairs) \subseteq ToSet(st[k].pairs)
<1>1. PICK n \in Nat : n = Len(t)
  OBVIOUS
<1>2. TraceGood(st[0], t, 0)
  <2>1. st[0] = NoTrace
    BY DEF Traced
  <2>2. /\ \A c \in CompoundsOf(graph) \union {0} : NoTrace.last[c] = 0
        /\ NoTrace.pairs = constraints
    BY DEF NoTrace
  <2> QED  BY <2>1, <2>2 DEF TraceGood
<1>3. ASSUME NEW k \in Nat, k + 1 <= n, TraceGood(st[k], t, k)
      PROVE  TraceGood(st[k + 1], t, k + 1) /\ ToSet(st[k].pairs) \subseteq ToSet(st[k + 1].pairs)
  <2>1. k \in 0..n /\ k + 1 \in 1..n /\ (k + 1) - 1 = k
    BY <1>3
  <2>2. st[k] \in Traces /\ st[k + 1] = AddConstraint(st[k], t[k + 1])
    BY <1>1, <2>1 DEF Traced
  <2>3. k + 1 <= Len(t)
    BY <1>1, <1>3
  <2>4. PICK s, u : s = st[k] /\ u = st[k + 1]
    OBVIOUS
  <2>5. s \in Traces /\ TraceGood(s, t, k) /\ u = AddConstraint(s, t[k + 1])
    BY <1>3, <2>2, <2>4
  <2>6. TraceGood(u, t, k + 1) /\ ToSet(s.pairs) \subseteq ToSet(u.pairs)
    <3>1. /\ ForestOK /\ t \in Seq(NodesOf(graph))
          /\ constraints \in Seq(CompoundsOf(graph) \X CompoundsOf(graph)) /\ k \in Nat
      OBVIOUS
    <3>2. TraceStep(u, s, t, k)
      BY <2>3, <2>5, <3>1, TraceStays, Zenon
    <3> QED  BY <3>2 DEF TraceStep
  <2> QED  BY <2>4, <2>6
<1> DEFINE good == {k \in Nat : k <= n => TraceGood(st[k], t, k)}
<1>4. Nat \subseteq good
  <2>1. 0 \in good
    BY <1>2
  <2>2. ASSUME NEW k \in Nat, k \in good PROVE k + 1 \in good
    <3>1. k + 1 <= n => k <= n
      OBVIOUS
    <3> QED  BY <1>3, <2>2, <3>1
  <2> HIDE DEF good
  <2> QED  BY <2>1, <2>2, Inductive
<1>5. \A k \in 0..n : TraceGood(st[k], t, k)
  BY <1>4
<1>6. \A k \in 1..n : ToSet(st[k - 1].pairs) \subseteq ToSet(st[k].pairs)
  <2> TAKE k \in 1..n
  <2>1. k - 1 \in Nat /\ (k - 1) + 1 = k /\ k - 1 \in 0..n /\ (k - 1) + 1 <= n
    OBVIOUS
  <2>2. ToSet(st[k - 1].pairs) \subseteq ToSet(st[(k - 1) + 1].pairs)
    BY <1>3, <1>5, <2>1
  <2> QED  BY <2>1, <2>2
<1> QED  BY <1>1, <1>5, <1>6

\* What add_subgraph_constraints adds.
LEMMA PairsAdded ==
  ASSUME ForestOK, NEW t \in Seq(NodesOf(graph)), constraints \in Seq(CompoundsOf(graph) \X CompoundsOf(graph)),
         NEW Q, Q = WithConstraints(t)
  PROVE  /\ Q \in Seq(CompoundsOf(graph) \X CompoundsOf(graph))
         /\ IsInjective(constraints) => IsInjective(Q)
         /\ ToSet(constraints) \subseteq ToSet(Q)
         /\ \A p \in ToSet(Q) : p \in ToSet(constraints) \/ PairFrom(p, t, Len(t))
<1>1. PICK st : Traced(t, st) /\ Q = st[Len(t)].pairs
  BY TraceExists
<1>2. Len(t) \in 0..Len(t)
  <2>1. PICK n \in Nat : n = Len(t)
    OBVIOUS
  <2>2. n \in 0..n
    OBVIOUS
  <2> QED  BY <2>1, <2>2
<1>3. TraceGood(st[Len(t)], t, Len(t)) /\ st[Len(t)] \in Traces
  BY <1>1, <1>2, TraceKept DEF Traced
<1>4. PICK s : s = st[Len(t)]
  OBVIOUS
<1>5. s \in Traces /\ TraceGood(s, t, Len(t)) /\ Q = s.pairs
  BY <1>1, <1>3, <1>4
<1>6. Q \in Seq(CompoundsOf(graph) \X CompoundsOf(graph))
  BY <1>5 DEF Traces
<1> QED  BY <1>5, <1>6 DEF TraceGood

\* Two frames in the same compound.
Mates(c, d) ==
  c \in CompoundsOf(graph) /\ d \in CompoundsOf(graph) /\ c # d /\ graph.parents[c] = graph.parents[d]

\* The places of the nodes of a compound on a sorted rank.
OnPlaces(t, c, r, o, n) ==
  /\ o \in Nat /\ n \in Nat /\ n >= 2 /\ o + n <= Len(t) /\ o + 1 \in 1..Len(t)
  /\ \A k \in 1..Len(t) : t[k] \in Under(c, r) <=> o + 1 <= k /\ k <= o + n
  /\ t[o + 1] = graph.sides[c][r][1] /\ t[o + n] = graph.sides[c][r][2]

\* The places that a compound's frame encloses on a sorted rank.
LEMMA BlockPlaces ==
  ASSUME NEW r, NEW t, RankOK(t, r), NEW c \in CompoundsOf(graph), Reached(c, r)
  PROVE  \E o, n : OnPlaces(t, c, r, o, n)
<1>1. PICK o, n : Block(t, c, r, o, n)
  BY DEF RankOK
<1>2. PICK l \in Nat : l = Len(t)
  BY DEF RankOK, Lists
<1>3. o \in Nat /\ n \in Nat /\ n >= 2 /\ o + n <= l
  BY <1>1, <1>2 DEF Block
<1>4. DOMAIN t = 1..l /\ \A i, j \in 1..l : t[i] = t[j] => i = j
  BY <1>2 DEF RankOK, Lists, IsInjective
<1>5. ASSUME NEW k \in 1..l, t[k] \in Under(c, r) PROVE o + 1 <= k /\ k <= o + n
  <2>1. PICK j \in 1..n : t[o + j] = t[k]
    BY <1>1, <1>5 DEF Block
  <2>2. o + j \in 1..l
    BY <1>3
  <2>3. o + j = k
    BY <1>4, <2>1, <2>2
  <2> QED  BY <1>3, <2>3
<1>6. ASSUME NEW k \in 1..l, o + 1 <= k, k <= o + n PROVE t[k] \in Under(c, r)
  <2>1. k - o \in 1..n /\ o + (k - o) = k
    BY <1>3, <1>6
  <2>2. t[o + (k - o)] \in Under(c, r)
    BY <1>1, <2>1 DEF Block
  <2> QED  BY <2>1, <2>2
<1>7. o + 1 \in 1..l
  BY <1>3
<1>8. t[o + 1] = graph.sides[c][r][1] /\ t[o + n] = graph.sides[c][r][2]
  BY <1>1 DEF Block
<1>9. \A k \in 1..l : t[k] \in Under(c, r) <=> o + 1 <= k /\ k <= o + n
  BY <1>5, <1>6
<1>10. OnPlaces(t, c, r, o, n)
  BY <1>2, <1>3, <1>7, <1>8, <1>9 DEF OnPlaces
<1> QED  BY <1>10

\* Two compounds of one parent have no node in common.
LEMMA MatesApart ==
  ASSUME GraphShape, LayersOK, NEW r \in DOMAIN layers, NEW c, NEW d, Mates(c, d), NEW v \in Under(c, r)
  PROVE  v \notin Under(d, r)
<1>1. c # 0 /\ d # 0 /\ ForestOK
  BY DEF Mates, GraphShape, ForestOK
<1>2. v \in NodesOf(graph)
  BY DEF LayersOK, Under, ToSet
<1> SUFFICES ASSUME v \in Under(d, r) PROVE FALSE
  OBVIOUS
<1>3. c \in Ups(v) /\ d \in Ups(v)
  BY <1>1 DEF Under
<1>4. c = d
  BY <1>1, <1>2, <1>3, ChildOnTheWay DEF Mates
<1> QED  BY <1>4 DEF Mates

\* Of two frames in the same compound one stands to the left of the other.
LEMMA MatesOrdered ==
  ASSUME GraphShape, LayersOK, NEW r \in DOMAIN layers, NEW t, RankOK(t, r), NEW c, NEW d, Mates(c, d),
         Reached(c, r), Reached(d, r)
  PROVE  /\ Precedes(t, c, d, r) \/ Precedes(t, d, c, r)
         /\ \A i, j \in 1..Len(t) : i < j /\ t[i] \in Under(c, r) /\ t[j] \in Under(d, r) => Precedes(t, c, d, r)
         /\ ~(Precedes(t, c, d, r) /\ Precedes(t, d, c, r))
<1>1. PICK o, n : OnPlaces(t, c, r, o, n)
  BY BlockPlaces DEF Mates
<1>2. PICK p, m : OnPlaces(t, d, r, p, m)
  BY BlockPlaces DEF Mates
<1>3. PICK l \in Nat : l = Len(t)
  BY DEF RankOK, Lists
<1>4. /\ o \in Nat /\ n \in Nat /\ n >= 2 /\ o + n <= l /\ o + 1 \in 1..l
      /\ p \in Nat /\ m \in Nat /\ m >= 2 /\ p + m <= l /\ p + 1 \in 1..l
  BY <1>1, <1>2, <1>3 DEF OnPlaces
<1>5. /\ \A k \in 1..l : t[k] \in Under(c, r) <=> o + 1 <= k /\ k <= o + n
      /\ \A k \in 1..l : t[k] \in Under(d, r) <=> p + 1 <= k /\ k <= p + m
  BY <1>1, <1>2, <1>3 DEF OnPlaces
<1>6. \A k \in 1..l : ~(t[k] \in Under(c, r) /\ t[k] \in Under(d, r))
  BY MatesApart
<1>7. \A k \in 1..l : ~(o + 1 <= k /\ k <= o + n /\ p + 1 <= k /\ k <= p + m)
  BY <1>5, <1>6
<1>8. o + n <= p \/ p + m <= o
  <2>1. CASE o <= p
    <3>1. ~(o + 1 <= p + 1 /\ p + 1 <= o + n)
      BY <1>4, <1>7
    <3> QED  BY <1>4, <2>1, <3>1
  <2>2. CASE ~(o <= p)
    <3>1. ~(p + 1 <= o + 1 /\ o + 1 <= p + m)
      BY <1>4, <1>7
    <3> QED  BY <1>4, <2>2, <3>1
  <2> QED  BY <2>1, <2>2
<1>9. o + n <= p => Precedes(t, c, d, r)
  <2> SUFFICES ASSUME o + n <= p, NEW i \in 1..l, NEW j \in 1..l, t[i] \in Under(c, r), t[j] \in Under(d, r)
               PROVE  i < j
    BY <1>3 DEF Precedes
  <2>1. i <= o + n /\ p + 1 <= j
    BY <1>5
  <2> QED  BY <1>4, <2>1
<1>10. p + m <= o => Precedes(t, d, c, r)
  <2> SUFFICES ASSUME p + m <= o, NEW i \in 1..l, NEW j \in 1..l, t[i] \in Under(d, r), t[j] \in Under(c, r)
               PROVE  i < j
    BY <1>3 DEF Precedes
  <2>1. i <= p + m /\ o + 1 <= j
    BY <1>5
  <2> QED  BY <1>4, <2>1
<1>11. \A i, j \in 1..l : i < j /\ t[i] \in Under(c, r) /\ t[j] \in Under(d, r) => Precedes(t, c, d, r)
  <2> TAKE i, j \in 1..l
  <2> HAVE i < j /\ t[i] \in Under(c, r) /\ t[j] \in Under(d, r)
  <2>1. ASSUME Precedes(t, d, c, r) PROVE FALSE
    <3>1. j < i
      BY <1>3, <2>1 DEF Precedes
    <3> QED  BY <3>1
  <2> QED  BY <1>8, <1>9, <1>10, <2>1
<1>12. ~(Precedes(t, c, d, r) /\ Precedes(t, d, c, r))
  <2> SUFFICES ASSUME Precedes(t, c, d, r), Precedes(t, d, c, r) PROVE FALSE
    OBVIOUS
  <2>1. t[o + 1] \in Under(c, r) /\ t[p + 1] \in Under(d, r)
    BY <1>4, <1>5
  <2>2. o + 1 < p + 1 /\ p + 1 < o + 1
    BY <1>3, <1>4, <2>1 DEF Precedes
  <2> QED  BY <1>4, <2>2
<1> QED  BY <1>3, <1>8, <1>9, <1>10, <1>11, <1>12

\* The frames around the nodes of a rank that stand in one compound with two others.
LEMMA AmongTwo ==
  ASSUME GraphShape, LayersOK, TwoAbreast, NEW r \in DOMAIN layers, NEW c, NEW d, Mates(c, d),
         Reached(c, r), Reached(d, r), NEW v \in Under(0, r), NEW x \in Ups(v), graph.parents[x] = graph.parents[c]
  PROVE  (x = c /\ v \in Under(c, r)) \/ (x = d /\ v \in Under(d, r))
<1> DEFINE C == CompoundsOf(graph)
           p == graph.parents[c]
<1>1. ForestOK /\ v \in NodesOf(graph) /\ v \in ToSet(layers[r]) /\ \A e \in Ups(v) : Spans(e, r)
  BY DEF GraphShape, LayersOK, Under, ToSet
<1>2. x \in C /\ c \in C /\ d \in C /\ c # d /\ c # 0 /\ d # 0
  <2>1. Ups(v) \subseteq C
    BY <1>1, UpsAre
  <2> QED  BY <1>1, <2>1 DEF Mates, ForestOK
<1>3. x \in NodesOf(graph) /\ c \in NodesOf(graph) /\ d \in NodesOf(graph) /\ p \in C \union {0}
  <2>1. x \in NodesOf(graph) /\ c \in NodesOf(graph) /\ d \in NodesOf(graph)
    BY <1>1, <1>2 DEF ForestOK
  <2> QED  BY <1>1, <2>1 DEF ForestOK
<1>4. Spans(x, r) /\ Spans(c, r) /\ Spans(d, r)
  BY <1>1, <1>2 DEF Reached
<1>5. x \in ChildrenAt(p, r) \intersect C /\ c \in ChildrenAt(p, r) \intersect C /\ d \in ChildrenAt(p, r) \intersect C
  BY <1>2, <1>3, <1>4 DEF ChildrenAt, Mates
<1> HIDE DEF p, C
<1>6. x = c \/ x = d
  BY <1>2, <1>3, <1>5, OnlyTwo DEF C
<1> QED  BY <1>1, <1>2, <1>6 DEF Under

\* The border nodes of a compound are its children.
LEMMA SideParent ==
  ASSUME GraphShape, NEW r, NEW c \in CompoundsOf(graph), Spans(c, r)
  PROVE  graph.parents[graph.sides[c][r][1]] = c /\ graph.parents[graph.sides[c][r][2]] = c
<1>1. r \in DOMAIN graph.sides[c]
  BY DEF Spans
<1>2. PICK a, b \in NodesOf(graph) \ CompoundsOf(graph) :
         graph.sides[c][r] = <<a, b>> /\ graph.parents[a] = c /\ graph.parents[b] = c
  BY <1>1 DEF GraphShape
<1> QED  BY <1>2

\* What has been seen of two frames side by side after some nodes, when the first nodes of the one
\* and of the other are at places i and j.
SeenOfTwo(s, k, i, j, c, d) ==
  LET p == graph.parents[c]
  IN  /\ k < j => s.last[p] \in {0, c}
      /\ i <= k /\ k < j => s.last[p] = c
      /\ j <= k => <<c, d>> \in ToSet(s.pairs)

\* One visit more keeps what is known of two such compounds.
LEMMA SeenNext ==
  ASSUME NEW i \in Nat, NEW j \in Nat, i < j, NEW k \in Nat, NEW c, NEW d, NEW s, NEW u, NEW v,
         SeenOfTwo(s, k, i, j, c, d), Added1(s, v, u), Mates(c, d), c # 0, d # 0,
         ToSet(s.pairs) \subseteq ToSet(u.pairs),
         graph.parents[c] \in CompoundsOf(graph) \union {0},
         \A x \in Ups(v) : graph.parents[x] = graph.parents[c] => x = c \/ (x = d /\ j <= k + 1),
         k + 1 = i => graph.parents[v] = c,
         k + 1 = j => graph.parents[v] = d
  PROVE  SeenOfTwo(u, k + 1, i, j, c, d)
<1> DEFINE p == graph.parents[c]
<1>2. u.last[p] = s.last[p] \/ u.last[p] = c \/ (u.last[p] = d /\ j <= k + 1)
  <2>1. u.last[p] = s.last[p] \/ (u.last[p] \in Ups(v) /\ graph.parents[u.last[p]] = p)
    BY DEF Added1
  <2> QED  BY <2>1
<1>3. ASSUME k + 1 < j PROVE u.last[p] \in {0, c}
  <2>1. k < j /\ ~(j <= k + 1)
    BY <1>3
  <2> QED  BY <1>2, <2>1 DEF SeenOfTwo
<1>4. ASSUME i <= k + 1, k + 1 < j PROVE u.last[p] = c
  <2>1. CASE k + 1 = i
    <3>1. graph.parents[v] = c
      BY <2>1
    <3> QED  BY <3>1 DEF Added1
  <2>2. CASE k + 1 # i
    <3>1. i <= k /\ k < j /\ ~(j <= k + 1)
      BY <1>4, <2>2
    <3> QED  BY <1>2, <3>1 DEF SeenOfTwo
  <2> QED  BY <2>1, <2>2
<1>5. ASSUME j <= k + 1 PROVE <<c, d>> \in ToSet(u.pairs)
  <2>1. CASE j <= k
    BY <2>1 DEF SeenOfTwo
  <2>2. CASE ~(j <= k)
    <3>1. k + 1 = j /\ i <= k /\ k < j
      BY <1>5, <2>2
    <3>2. s.last[p] = c
      BY <3>1 DEF SeenOfTwo
    <3>3. graph.parents[v] = d
      BY <3>1
    <3>5. s.last[graph.parents[d]] = c /\ c # d
      BY <3>2 DEF Mates
    <3> QED  BY <3>3, <3>5 DEF Added1
  <2> QED  BY <2>1, <2>2
<1> QED  BY <1>3, <1>4, <1>5 DEF SeenOfTwo

\* So two compounds of one parent on a rank are constrained in the order they stand.
LEMMA MatesPaired ==
  ASSUME GraphShape, LayersOK, TwoAbreast, NEW r \in DOMAIN layers, NEW t, RankOK(t, r),
         constraints \in Seq(CompoundsOf(graph) \X CompoundsOf(graph)), NEW c, NEW d, Mates(c, d),
         Reached(c, r), Reached(d, r), Precedes(t, c, d, r)
  PROVE  <<c, d>> \in ToSet(WithConstraints(t))
<1>1. ForestOK
  BY DEF GraphShape
<1>2. t \in Seq(Under(0, r)) /\ Under(0, r) \subseteq NodesOf(graph)
  BY DEF RankOK, Lists, Under, LayersOK, ToSet
<1>3. t \in Seq(NodesOf(graph))
  BY <1>2, SeqWider
<1>4. PICK st : Traced(t, st) /\ WithConstraints(t) = st[Len(t)].pairs
  BY <1>1, <1>3, TraceExists
<1>5. PICK l \in Nat : l = Len(t)
  BY <1>3
<1>6. PICK o, n : OnPlaces(t, c, r, o, n)
  BY BlockPlaces DEF Mates
<1>7. PICK q, m : OnPlaces(t, d, r, q, m)
  BY BlockPlaces DEF Mates
<1>8. /\ o \in Nat /\ n \in Nat /\ n >= 2 /\ o + n <= l /\ o + 1 \in 1..l
      /\ q \in Nat /\ m \in Nat /\ m >= 2 /\ q + m <= l /\ q + 1 \in 1..l
      /\ \A k \in 1..l : t[k] \in Under(c, r) <=> o + 1 <= k /\ k <= o + n
      /\ \A k \in 1..l : t[k] \in Under(d, r) <=> q + 1 <= k /\ k <= q + m
      /\ t[o + 1] = graph.sides[c][r][1] /\ t[q + 1] = graph.sides[d][r][1]
  BY <1>5, <1>6, <1>7 DEF OnPlaces
<1>9. o + 1 < q + 1
  <2>1. t[o + 1] \in Under(c, r) /\ t[q + 1] \in Under(d, r)
    BY <1>8
  <2> QED  BY <1>5, <1>8, <2>1 DEF Precedes
<1>10. c \in CompoundsOf(graph) /\ d \in CompoundsOf(graph) /\ c # 0 /\ d # 0
       /\ graph.parents[c] \in CompoundsOf(graph) \union {0} /\ Spans(c, r) /\ Spans(d, r)
  BY <1>1 DEF Mates, ForestOK, Reached
<1>11. graph.parents[t[o + 1]] = c /\ graph.parents[t[q + 1]] = d
  BY <1>8, <1>10, SideParent
<1> DEFINE good == {k \in Nat : k <= l => SeenOfTwo(st[k], k, o + 1, q + 1, c, d)}
<1>12. 0 \in good
  <2>1. st[0].last[graph.parents[c]] = 0
    <3>1. st[0] = NoTrace
      BY <1>4 DEF Traced
    <3> QED  BY <1>10, <3>1 DEF NoTrace
  <2>2. ~(q + 1 <= 0) /\ ~(o + 1 <= 0)
    BY <1>8
  <2> QED  BY <2>1, <2>2 DEF SeenOfTwo
<1>13. ASSUME NEW k \in Nat, k \in good PROVE k + 1 \in good
  <2> SUFFICES ASSUME k + 1 <= l PROVE SeenOfTwo(st[k + 1], k + 1, o + 1, q + 1, c, d)
    OBVIOUS
  <2>1. k \in 0..l /\ k + 1 \in 1..l /\ (k + 1) - 1 = k /\ k <= l /\ k + 1 \in 0..l
    OBVIOUS
  <2>2. PICK s, u, v : s = st[k] /\ u = st[k + 1] /\ v = t[k + 1]
    OBVIOUS
  <2>3. s \in Traces /\ u = AddConstraint(s, v) /\ v \in Under(0, r) /\ v \in NodesOf(graph)
    <3>1. t[k + 1] \in Under(0, r)
      BY <1>2, <1>5, <2>1
    <3> QED  BY <1>2, <1>4, <1>5, <2>1, <2>2, <3>1 DEF Traced
  <2>4. Added1(s, v, u)
    BY <1>1, <2>3, AddsOne
  <2>5. ToSet(s.pairs) \subseteq ToSet(u.pairs)
    <3>1. ToSet(st[(k + 1) - 1].pairs) \subseteq ToSet(st[k + 1].pairs)
      BY <1>1, <1>3, <1>4, <1>5, <2>1, TraceKept
    <3> QED  BY <2>1, <2>2, <3>1
  <2>6. \A x \in Ups(v) : graph.parents[x] = graph.parents[c] => x = c \/ (x = d /\ q + 1 <= k + 1)
    <3> TAKE x \in Ups(v)
    <3> HAVE graph.parents[x] = graph.parents[c]
    <3>1. (x = c /\ v \in Under(c, r)) \/ (x = d /\ v \in Under(d, r))
      BY <2>3, AmongTwo
    <3>2. v \in Under(d, r) => q + 1 <= k + 1
      BY <1>8, <2>1, <2>2
    <3> QED  BY <3>1, <3>2
  <2>7. (k + 1 = o + 1 => graph.parents[v] = c) /\ (k + 1 = q + 1 => graph.parents[v] = d)
    BY <1>11, <2>2
  <2>8. SeenOfTwo(s, k, o + 1, q + 1, c, d)
    BY <1>13, <2>1, <2>2
  <2> HIDE DEF good
  <2>9. o + 1 \in Nat /\ q + 1 \in Nat
    BY <1>8
  <2>10. SeenOfTwo(u, k + 1, o + 1, q + 1, c, d)
    <3>1. Mates(c, d) /\ k \in Nat
      OBVIOUS
    <3> QED  BY <1>9, <1>10, <2>4, <2>5, <2>6, <2>7, <2>8, <2>9, <3>1, SeenNext, Zenon
  <2> QED  BY <2>2, <2>10
<1>14. Nat \subseteq good
  <2> HIDE DEF good
  <2> QED  BY <1>12, <1>13, Inductive
<1>15. SeenOfTwo(st[l], l, o + 1, q + 1, c, d)
  <2>1. l \in good
    BY <1>14
  <2> QED  BY <2>1
<1>16. q + 1 <= l
  BY <1>8
<1> QED  BY <1>4, <1>5, <1>15, <1>16 DEF SeenOfTwo
-----------------------------------------------------------------------------
(* Sweeping: from the list of a rank to the places of its nodes.           *)

\* Places that crossing reduction may give the nodes of the ranks: those that sort_subgraph gets to
\* have different ones, and a rank of such nodes only is filled from 0 on.
PlacesOK(o) ==
  /\ \A r \in DOMAIN layers : \A v \in ToSet(layers[r]) : v \in DOMAIN o /\ o[v] \in Nat
  /\ \A r \in DOMAIN layers : \A u, v \in Under(0, r) : o[u] = o[v] => u = v
  /\ \A r \in DOMAIN layers :
       Under(0, r) = ToSet(layers[r]) =>
         {o[v] : v \in ToSet(layers[r])} = 0..(Cardinality(ToSet(layers[r])) - 1)

\* The nodes of a compound have the places from b to e of a rank, its borders those at the ends.
FrameOn(o, c, r, b, e) ==
  /\ b \in Nat /\ e \in Nat /\ b < e
  /\ {o[v] : v \in Under(c, r)} = b..e
  /\ o[graph.sides[c][r][1]] = b /\ o[graph.sides[c][r][2]] = e

\* Every frame of a rank is drawn around its own nodes; and one compound left of another.
TogetherOn(o, r) == \A c \in CompoundsOf(graph) : Reached(c, r) => \E b, e : FrameOn(o, c, r, b, e)
LeftHand(o, c, d, r) == \A u \in Under(c, r), v \in Under(d, r) : o[u] < o[v]

\* The places after a rank has been sorted as t.
PlacesBy(o, t) ==
  /\ DOMAIN o = DOMAIN order
  /\ \A k \in 1..Len(t) : o[t[k]] = k - 1
  /\ \A v \in DOMAIN order : v \notin ToSet(t) => o[v] = order[v]

\* Numbering a sorted rank gives its nodes their places,
LEMMA SortGivesPlaces ==
  ASSUME NEW S, S \subseteq DOMAIN order, NEW t, Lists(t, S), NEW o,
         o = [v \in DOMAIN order |->
                IF v \in ToSet(t) THEN (CHOOSE k \in DOMAIN t : t[k] = v) - 1 ELSE order[v]]
  PROVE  PlacesBy(o, t)
<1>1. t \in Seq(S) /\ Len(t) \in Nat /\ DOMAIN t = 1..Len(t) /\ ToSet(t) \subseteq S
      /\ \A k \in 1..Len(t) : t[k] \in ToSet(t)
  BY ListMembers DEF Lists
<1>2. \A j, k \in 1..Len(t) : t[j] = t[k] => j = k
  BY <1>1 DEF Lists, IsInjective
<1>3. ASSUME NEW k \in 1..Len(t) PROVE o[t[k]] = k - 1
  <2>1. t[k] \in ToSet(t) /\ t[k] \in DOMAIN order
    BY <1>1
  <2>2. (CHOOSE j \in DOMAIN t : t[j] = t[k]) = k
    BY <1>1, <1>2
  <2> QED  BY <2>1, <2>2
<1>4. \A v \in DOMAIN order : v \notin ToSet(t) => o[v] = order[v]
  OBVIOUS
<1>5. DOMAIN o = DOMAIN order
  OBVIOUS
<1> QED  BY <1>3, <1>4, <1>5 DEF PlacesBy

\* A node is on one rank,
LEMMA RanksApart ==
  ASSUME GraphShape, LayersOK, NEW r \in DOMAIN layers, NEW q \in DOMAIN layers, q # r, NEW v \in ToSet(layers[q])
  PROVE  v \notin ToSet(layers[r])
BY DEF LayersOK

\* so sorting one rank leaves all ranks in order.
LEMMA PlacesStayOK ==
  ASSUME GraphShape, LayersOK, NEW r \in DOMAIN layers, NEW t, Lists(t, Under(0, r)), PlacesOK(order),
         NEW o, PlacesBy(o, t)
  PROVE  PlacesOK(o)
<1> DEFINE U == Under(0, r)
<1>1. t \in Seq(U) /\ Len(t) \in Nat /\ DOMAIN t = 1..Len(t) /\ ToSet(t) = U
      /\ \A x : x \in ToSet(t) <=> \E k \in 1..Len(t) : t[k] = x
  <2>1. t \in Seq(U) /\ Len(t) \in Nat /\ DOMAIN t = 1..Len(t) /\ ToSet(t) \subseteq U
        /\ \A x : x \in ToSet(t) <=> \E k \in 1..Len(t) : t[k] = x
    BY ListMembers DEF Lists
  <2>2. U \subseteq ToSet(t)
    BY <2>1 DEF Lists
  <2> QED  BY <2>1, <2>2
<1>2. U \subseteq ToSet(layers[r]) /\ \A q \in DOMAIN layers : Under(0, q) \subseteq ToSet(layers[q])
  BY DEF Under
<1>3. PICK n \in Nat : n = Len(t)
  BY <1>1
<1>4. \A k \in 1..n : o[t[k]] = k - 1
  BY <1>3 DEF PlacesBy
<1>5. ASSUME NEW q \in DOMAIN layers, q # r, NEW v \in ToSet(layers[q]) PROVE v \in DOMAIN o /\ o[v] = order[v]
  <2>1. v \in DOMAIN order /\ v \notin ToSet(t)
    BY <1>1, <1>2, <1>5, RanksApart DEF PlacesOK
  <2> QED  BY <2>1 DEF PlacesBy
<1>6. ASSUME NEW q \in DOMAIN layers, NEW v \in ToSet(layers[q]) PROVE v \in DOMAIN o /\ o[v] \in Nat
  <2>1. CASE v \in U
    <3>1. PICK k \in 1..n : t[k] = v
      BY <1>1, <1>3, <2>1
    <3>2. o[v] = k - 1
      BY <1>4, <3>1
    <3> QED  BY <3>2 DEF PlacesOK, PlacesBy
  <2>2. CASE v \notin U
    <3>1. v \in DOMAIN order /\ v \notin ToSet(t) /\ order[v] \in Nat
      BY <1>1, <2>2 DEF PlacesOK
    <3> QED  BY <3>1 DEF PlacesBy
  <2> QED  BY <2>1, <2>2
<1>7. ASSUME NEW q \in DOMAIN layers, NEW u \in Under(0, q), NEW v \in Under(0, q), o[u] = o[v] PROVE u = v
  <2>1. CASE q # r
    BY <1>2, <1>5, <1>7, <2>1 DEF PlacesOK
  <2>2. CASE q = r
    <3>1. PICK j, k \in 1..n : t[j] = u /\ t[k] = v
      BY <1>1, <1>3, <2>2
    <3>2. j - 1 = k - 1
      BY <1>4, <1>7, <3>1
    <3>3. j = k
      BY <3>2
    <3> QED  BY <3>1, <3>3
  <2> QED  BY <2>1, <2>2
<1>8. ASSUME NEW q \in DOMAIN layers, Under(0, q) = ToSet(layers[q])
      PROVE  {o[v] : v \in ToSet(layers[q])} = 0..(Cardinality(ToSet(layers[q])) - 1)
  <2>1. CASE q # r
    <3>1. {o[v] : v \in ToSet(layers[q])} = {order[v] : v \in ToSet(layers[q])}
      BY <1>5, <2>1
    <3> QED  BY <1>8, <3>1 DEF PlacesOK
  <2>2. CASE q = r
    <3>1. Cardinality(ToSet(layers[q])) = n
      BY <1>3, <1>8, <2>2, ListLength
    <3>2. \A v \in U : o[v] \in 0..(n - 1)
      <4> TAKE v \in U
      <4>1. PICK k \in 1..n : t[k] = v
        BY <1>1, <1>3
      <4> QED  BY <1>4, <4>1
    <3>3. \A i \in 0..(n - 1) : \E v \in U : o[v] = i
      <4> TAKE i \in 0..(n - 1)
      <4>1. i + 1 \in 1..n
        OBVIOUS
      <4>2. t[i + 1] \in U /\ o[t[i + 1]] = (i + 1) - 1
        BY <1>1, <1>3, <1>4, <4>1
      <4> QED  BY <4>2
    <3>4. {o[v] : v \in U} = 0..(n - 1)
      BY <3>2, <3>3
    <3> QED  BY <1>8, <2>2, <3>1, <3>4
  <2> QED  BY <2>1, <2>2
<1> QED  BY <1>6, <1>7, <1>8 DEF PlacesOK

\* The places of a sorted rank keep frames together,
LEMMA SortedFrames ==
  ASSUME NEW r, NEW t, RankOK(t, r), NEW o, PlacesBy(o, t)
  PROVE  TogetherOn(o, r)
<1> SUFFICES ASSUME NEW c \in CompoundsOf(graph), Reached(c, r) PROVE \E b, e : FrameOn(o, c, r, b, e)
  BY DEF TogetherOn
<1>1. PICK p, n : OnPlaces(t, c, r, p, n)
  BY BlockPlaces
<1>2. PICK l \in Nat : l = Len(t)
  BY DEF RankOK, Lists
<1>3. /\ p \in Nat /\ n \in Nat /\ n >= 2 /\ p + n <= l
      /\ \A k \in 1..l : t[k] \in Under(c, r) <=> p + 1 <= k /\ k <= p + n
      /\ t[p + 1] = graph.sides[c][r][1] /\ t[p + n] = graph.sides[c][r][2]
  BY <1>1, <1>2 DEF OnPlaces
<1>4. \A k \in 1..l : o[t[k]] = k - 1
  BY <1>2 DEF PlacesBy
<1>5. \A v \in Under(c, r) : \E k \in 1..l : t[k] = v
  <2>1. Under(c, r) \subseteq Under(0, r)
    BY DEF Under
  <2> QED  BY <1>2, <2>1 DEF RankOK, Lists
<1>6. {o[v] : v \in Under(c, r)} = p..(p + n - 1)
  <2>1. \A v \in Under(c, r) : o[v] \in p..(p + n - 1)
    <3> TAKE v \in Under(c, r)
    <3>1. PICK k \in 1..l : t[k] = v
      BY <1>5
    <3>2. o[v] = k - 1 /\ p + 1 <= k /\ k <= p + n
      BY <1>3, <1>4, <3>1
    <3> QED  BY <1>3, <3>2
  <2>2. \A i \in p..(p + n - 1) : \E v \in Under(c, r) : o[v] = i
    <3> TAKE i \in p..(p + n - 1)
    <3>1. i + 1 \in 1..l /\ p + 1 <= i + 1 /\ i + 1 <= p + n /\ (i + 1) - 1 = i
      BY <1>3
    <3>2. t[i + 1] \in Under(c, r) /\ o[t[i + 1]] = i
      BY <1>3, <1>4, <3>1
    <3> QED  BY <3>2
  <2> QED  BY <2>1, <2>2
<1>7. p + 1 \in 1..l /\ p + n \in 1..l /\ (p + 1) - 1 = p /\ (p + n) - 1 = p + n - 1
  BY <1>3
<1>8. o[graph.sides[c][r][1]] = p /\ o[graph.sides[c][r][2]] = p + n - 1
  BY <1>3, <1>4, <1>7
<1>9. p \in Nat /\ p + n - 1 \in Nat /\ p < p + n - 1
  BY <1>3
<1> WITNESS p, p + n - 1
<1> QED  BY <1>6, <1>8, <1>9 DEF FrameOn

\* and compounds on the sides the list has them.
LEMMA SortedSides ==
  ASSUME NEW r, NEW t, RankOK(t, r), NEW o, PlacesBy(o, t), NEW c, NEW d, Precedes(t, c, d, r)
  PROVE  LeftHand(o, c, d, r)
<1> SUFFICES ASSUME NEW u \in Under(c, r), NEW v \in Under(d, r) PROVE o[u] < o[v]
  BY DEF LeftHand
<1>1. u \in Under(0, r) /\ v \in Under(0, r)
  BY DEF Under
<1>2. PICK l \in Nat : l = Len(t)
  BY DEF RankOK, Lists
<1>3. PICK i, j \in 1..l : t[i] = u /\ t[j] = v
  BY <1>1, <1>2 DEF RankOK, Lists
<1>4. i < j
  BY <1>2, <1>3 DEF Precedes
<1>5. o[u] = i - 1 /\ o[v] = j - 1
  BY <1>2, <1>3 DEF PlacesBy
<1> QED  BY <1>3, <1>4, <1>5

\* The constraints of a sweep that has sorted some ranks.
ConstraintsFrom(Q, S) ==
  /\ Q \in Seq(CompoundsOf(graph) \X CompoundsOf(graph)) /\ IsInjective(Q)
  /\ \A p \in ToSet(Q) : Mates(p[1], p[2]) /\ \E q \in S : Reached(p[1], q) /\ Reached(p[2], q)
  /\ \A p, m \in ToSet(Q) : ~(p[1] = m[2] /\ p[2] = m[1])

\* A constraint noted on a rank is between compounds seen there, in the order they stand.
LEMMA PairsOnRank ==
  ASSUME GraphShape, LayersOK, NEW r \in DOMAIN layers, NEW t, RankOK(t, r), NEW p,
         p \in CompoundsOf(graph) \X CompoundsOf(graph), PairFrom(p, t, Len(t))
  PROVE  /\ Mates(p[1], p[2]) /\ Reached(p[1], r) /\ Reached(p[2], r) /\ Precedes(t, p[1], p[2], r)
<1>1. Mates(p[1], p[2])
  BY DEF PairFrom, Mates
<1>2. PICK i, j \in 1..Len(t) : i < j /\ p[1] \in Ups(t[i]) /\ p[2] \in Ups(t[j])
  BY DEF PairFrom
<1>3. t[i] \in Under(0, r) /\ t[j] \in Under(0, r)
  BY DEF RankOK, Lists
<1>4. ForestOK
  BY DEF GraphShape
<1>5. ASSUME NEW v \in Under(0, r), NEW c \in Ups(v), c \in CompoundsOf(graph) PROVE Reached(c, r) /\ v \in Under(c, r)
  <2>1. v \in NodesOf(graph) /\ \A d \in Ups(v) : Spans(d, r)
    BY DEF LayersOK, Under, ToSet
  <2>2. Ups(c) \subseteq Ups(v)
    BY <1>4, <2>1, UpsTransitive
  <2> QED  BY <1>5, <2>1, <2>2 DEF Reached, Under
<1>6. Reached(p[1], r) /\ Reached(p[2], r) /\ t[i] \in Under(p[1], r) /\ t[j] \in Under(p[2], r)
  BY <1>2, <1>3, <1>5
<1>7. Precedes(t, p[1], p[2], r)
  BY <1>1, <1>2, <1>6, MatesOrdered
<1> QED  BY <1>1, <1>6, <1>7

\* Noting those of a rank keeps what the constraints say of the ranks swept before.
LEMMA ConstraintsGrow ==
  ASSUME NEW r, Sweepable(r), NEW t, RankOK(t, r), NEW S, ConstraintsFrom(constraints, S),
         NEW Q, Q = WithConstraints(t)
  PROVE  /\ ConstraintsFrom(Q, S \union {r})
         /\ ToSet(constraints) \subseteq ToSet(Q)
         /\ \A p \in ToSet(Q) : Reached(p[1], r) /\ Reached(p[2], r) => Precedes(t, p[1], p[2], r)
         /\ \A c, d : Mates(c, d) /\ Reached(c, r) /\ Reached(d, r) => <<c, d>> \in ToSet(Q) \/ <<d, c>> \in ToSet(Q)
<1>1. GraphShape /\ LayersOK /\ TwoAbreast /\ r \in DOMAIN layers /\ ForestOK
  BY DEF Sweepable, GraphShape
<1>2. t \in Seq(NodesOf(graph))
  <2>1. t \in Seq(Under(0, r)) /\ Under(0, r) \subseteq NodesOf(graph)
    BY <1>1 DEF RankOK, Lists, Under, LayersOK, ToSet
  <2> QED  BY <2>1, SeqWider
<1>3. constraints \in Seq(CompoundsOf(graph) \X CompoundsOf(graph)) /\ IsInjective(constraints)
  BY DEF ConstraintsFrom
<1>4. /\ Q \in Seq(CompoundsOf(graph) \X CompoundsOf(graph))
      /\ IsInjective(Q)
      /\ ToSet(constraints) \subseteq ToSet(Q)
      /\ \A p \in ToSet(Q) : p \in ToSet(constraints) \/ PairFrom(p, t, Len(t))
  BY <1>1, <1>2, <1>3, PairsAdded
<1>5. \A p \in ToSet(Q) : p \in CompoundsOf(graph) \X CompoundsOf(graph)
  BY <1>4, ListMembers
<1>6. ASSUME NEW p \in ToSet(Q), p \notin ToSet(constraints)
      PROVE  /\ Mates(p[1], p[2]) /\ Reached(p[1], r) /\ Reached(p[2], r) /\ Precedes(t, p[1], p[2], r)
  BY <1>1, <1>4, <1>5, <1>6, PairsOnRank
<1>7. ASSUME NEW p \in ToSet(Q), Reached(p[1], r), Reached(p[2], r) PROVE Precedes(t, p[1], p[2], r)
  <2>1. CASE p \in ToSet(constraints)
    <3>1. PICK k \in DOMAIN constraints : constraints[k] = p
      BY <2>1 DEF ToSet
    <3> QED  BY <1>7, <3>1 DEF RankOK
  <2> QED  BY <1>6, <2>1
<1>8. ASSUME NEW p \in ToSet(Q)
      PROVE  Mates(p[1], p[2]) /\ \E q \in S \union {r} : Reached(p[1], q) /\ Reached(p[2], q)
  BY <1>6 DEF ConstraintsFrom
<1>9. ASSUME NEW p \in ToSet(Q), NEW m \in ToSet(Q), p[1] = m[2], p[2] = m[1] PROVE FALSE
  <2>1. CASE p \in ToSet(constraints) /\ m \in ToSet(constraints)
    BY <1>9, <2>1 DEF ConstraintsFrom
  <2>2. CASE p \notin ToSet(constraints) \/ m \notin ToSet(constraints)
    <3>1. Reached(p[1], r) /\ Reached(p[2], r) /\ Mates(p[1], p[2])
      BY <1>6, <1>8, <1>9, <2>2
    <3>2. Precedes(t, p[1], p[2], r) /\ Precedes(t, p[2], p[1], r)
      BY <1>7, <1>9, <3>1
    <3> QED  BY <1>1, <3>1, <3>2, MatesOrdered
  <2> QED  BY <2>1, <2>2
<1>10. ASSUME NEW c, NEW d, Mates(c, d), Reached(c, r), Reached(d, r)
       PROVE  <<c, d>> \in ToSet(Q) \/ <<d, c>> \in ToSet(Q)
  <2>1. CASE Precedes(t, c, d, r)
    <3>1. <<c, d>> \in ToSet(WithConstraints(t))
      BY <1>1, <1>3, <1>10, <2>1, MatesPaired
    <3> QED  BY <3>1
  <2>2. CASE Precedes(t, d, c, r)
    <3>1. Mates(d, c)
      BY <1>10 DEF Mates
    <3>2. <<d, c>> \in ToSet(WithConstraints(t))
      BY <1>1, <1>3, <1>10, <2>2, <3>1, MatesPaired
    <3> QED  BY <3>2
  <2>3. Precedes(t, c, d, r) \/ Precedes(t, d, c, r)
    BY <1>1, <1>10, MatesOrdered
  <2> QED  BY <2>1, <2>2, <2>3
<1>11. ConstraintsFrom(Q, S \union {r})
  BY <1>4, <1>8, <1>9 DEF ConstraintsFrom
<1> QED  BY <1>4, <1>7, <1>10, <1>11

\* A sweep that has sorted some ranks.
SweptOK(o, Q, S) ==
  /\ S \subseteq DOMAIN layers
  /\ ConstraintsFrom(Q, S)
  /\ \A q \in S : TogetherOn(o, q)
  /\ \A q \in S : \A c, d : Mates(c, d) /\ Reached(c, q) /\ Reached(d, q) =>
                               <<c, d>> \in ToSet(Q) \/ <<d, c>> \in ToSet(Q)
  /\ \A q \in S : \A p \in ToSet(Q) : Reached(p[1], q) /\ Reached(p[2], q) => LeftHand(o, p[1], p[2], q)

\* The constraints of the ranks already swept are fit for the next one.
LEMMA SweptConstraints ==
  ASSUME ForestOK, NEW r, NEW S, ConstraintsFrom(constraints, S),
         S \subseteq {q \in DOMAIN layers : IF Downward THEN q < r ELSE q > r}
  PROVE  ConstraintsOK(r)
<1>1. constraints \in Seq(CompoundsOf(graph) \X CompoundsOf(graph)) /\ IsInjective(constraints)
  BY DEF ConstraintsFrom
<1>2. \A k \in DOMAIN constraints : constraints[k] \in ToSet(constraints)
  BY DEF ToSet
<1>3. ASSUME NEW k \in DOMAIN constraints
      PROVE  /\ constraints[k][1] # constraints[k][2]
             /\ graph.parents[constraints[k][1]] = graph.parents[constraints[k][2]]
             /\ \E q \in DOMAIN layers : /\ IF Downward THEN q < r ELSE q > r
                                         /\ Spans(constraints[k][1], q) /\ Spans(constraints[k][2], q)
  <2>1. Mates(constraints[k][1], constraints[k][2])
    BY <1>2 DEF ConstraintsFrom
  <2>2. PICK q \in S : Reached(constraints[k][1], q) /\ Reached(constraints[k][2], q)
    BY <1>2 DEF ConstraintsFrom
  <2>3. Spans(constraints[k][1], q) /\ Spans(constraints[k][2], q)
    <3>1. constraints[k][1] \in CompoundsOf(graph) /\ constraints[k][2] \in CompoundsOf(graph)
      BY <2>1 DEF Mates
    <3>2. constraints[k][1] # 0 /\ constraints[k][2] # 0
      BY <3>1 DEF ForestOK
    <3> QED  BY <2>2, <3>1, <3>2 DEF Reached
  <2> QED  BY <2>1, <2>2, <2>3 DEF Mates
<1>4. ASSUME NEW j \in DOMAIN constraints, NEW k \in DOMAIN constraints
      PROVE  ~(constraints[j][1] = constraints[k][2] /\ constraints[j][2] = constraints[k][1])
  BY <1>2 DEF ConstraintsFrom
<1> QED  BY <1>1, <1>3, <1>4 DEF ConstraintsOK

\* One rank more.
LEMMA SortsOne ==
  ASSUME NEW r, Sweepable(r), PlacesOK(order), NEW S, r \notin S, SweptOK(order, constraints, S),
         NEW o, o = [v \in DOMAIN order |->
                       IF v \in ToSet(SortedRank(r))
                       THEN (CHOOSE k \in DOMAIN SortedRank(r) : SortedRank(r)[k] = v) - 1 ELSE order[v]],
         NEW Q, Q = WithConstraints(SortedRank(r))
  PROVE  PlacesOK(o) /\ SweptOK(o, Q, S \union {r}) /\ DOMAIN o = DOMAIN order
<1>1. GraphShape /\ LayersOK /\ TwoAbreast /\ r \in DOMAIN layers
  BY DEF Sweepable
<1>2. PICK t : t = SortedRank(r)
  OBVIOUS
<1>3. RankOK(t, r)
  <2>1. Apart(r)
    BY <1>1 DEF PlacesOK, Apart
  <2> QED  BY <1>2, <2>1, SortedRankOK
<1>4. Lists(t, Under(0, r)) /\ Under(0, r) \subseteq ToSet(layers[r]) /\ Under(0, r) \subseteq DOMAIN order
  BY <1>1, <1>3 DEF RankOK, Under, PlacesOK
<1>5. PlacesBy(o, t)
  BY <1>2, <1>4, SortGivesPlaces
<1>6. PlacesOK(o)
  BY <1>1, <1>4, <1>5, PlacesStayOK
<1>7. S \subseteq DOMAIN layers /\ ConstraintsFrom(constraints, S)
  BY DEF SweptOK
<1>8. Q = WithConstraints(t)
  BY <1>2
<1>9. /\ ConstraintsFrom(Q, S \union {r})
      /\ ToSet(constraints) \subseteq ToSet(Q)
      /\ \A p \in ToSet(Q) : Reached(p[1], r) /\ Reached(p[2], r) => Precedes(t, p[1], p[2], r)
      /\ \A c, d : Mates(c, d) /\ Reached(c, r) /\ Reached(d, r) => <<c, d>> \in ToSet(Q) \/ <<d, c>> \in ToSet(Q)
  BY <1>3, <1>7, <1>8, ConstraintsGrow
<1>10. ASSUME NEW q \in S, NEW v \in ToSet(layers[q]) PROVE o[v] = order[v]
  <2>1. v \notin ToSet(layers[r]) /\ v \in DOMAIN order
    BY <1>1, <1>7, RanksApart DEF PlacesOK
  <2>2. ToSet(t) \subseteq Under(0, r)
    BY <1>4, ListMembers DEF Lists
  <2> QED  BY <1>4, <1>5, <2>1, <2>2 DEF PlacesBy
<1>11. \A q \in S : \A c : Under(c, q) \subseteq ToSet(layers[q])
  BY DEF Under
<1>12. ASSUME NEW q \in S PROVE TogetherOn(o, q)
  <2> SUFFICES ASSUME NEW c \in CompoundsOf(graph), Reached(c, q) PROVE \E b, e : FrameOn(o, c, q, b, e)
    BY DEF TogetherOn
  <2>1. PICK b, e : FrameOn(order, c, q, b, e)
    BY DEF SweptOK, TogetherOn
  <2>2. {o[v] : v \in Under(c, q)} = {order[v] : v \in Under(c, q)}
    BY <1>10, <1>11
  <2>3. graph.sides[c][q][1] \in ToSet(layers[q]) /\ graph.sides[c][q][2] \in ToSet(layers[q])
    <3>1. q \in DOMAIN layers /\ q \in DOMAIN graph.sides[c]
      BY <1>1, <1>7 DEF Reached, Spans, GraphShape, ForestOK
    <3>2. ToSet(graph.sides[c][q]) \subseteq ToSet(layers[q])
      BY <1>1, <3>1 DEF LayersOK
    <3>3. PICK a, z : graph.sides[c][q] = <<a, z>>
      BY <1>1, <3>1 DEF GraphShape
    <3> QED  BY <3>2, <3>3 DEF ToSet
  <2>4. FrameOn(o, c, q, b, e)
    BY <1>10, <2>1, <2>2, <2>3 DEF FrameOn
  <2> QED  BY <2>4
<1>13. TogetherOn(o, r)
  BY <1>3, <1>5, SortedFrames
<1>14. ASSUME NEW q \in S \union {r}, NEW c, NEW d, Mates(c, d), Reached(c, q), Reached(d, q)
       PROVE  <<c, d>> \in ToSet(Q) \/ <<d, c>> \in ToSet(Q)
  <2>1. CASE q = r
    BY <1>9, <1>14, <2>1
  <2>2. CASE q \in S
    BY <1>9, <1>14, <2>2 DEF SweptOK
  <2> QED  BY <2>1, <2>2
<1>15. ASSUME NEW q \in S \union {r}, NEW p \in ToSet(Q), Reached(p[1], q), Reached(p[2], q)
       PROVE  LeftHand(o, p[1], p[2], q)
  <2>1. CASE q = r
    <3>1. Precedes(t, p[1], p[2], r)
      BY <1>9, <1>15, <2>1
    <3> QED  BY <1>3, <1>5, <2>1, <3>1, SortedSides
  <2>2. CASE q \in S
    <3>1. p \in ToSet(constraints)
      <4> SUFFICES ASSUME p \notin ToSet(constraints) PROVE FALSE
        OBVIOUS
      <4>1. p \in CompoundsOf(graph) \X CompoundsOf(graph) /\ p = <<p[1], p[2]>> /\ Mates(p[1], p[2])
        BY <1>9, ListMembers DEF ConstraintsFrom
      <4>2. <<p[1], p[2]>> \in ToSet(constraints) \/ <<p[2], p[1]>> \in ToSet(constraints)
        BY <1>15, <2>2, <4>1 DEF SweptOK
      <4>3. PICK m : m = <<p[2], p[1]>>
        OBVIOUS
      <4>4. m \in ToSet(Q) /\ m[1] = p[2] /\ m[2] = p[1]
        BY <1>9, <4>1, <4>2, <4>3
      <4> QED  BY <1>9, <4>4 DEF ConstraintsFrom
    <3>2. LeftHand(order, p[1], p[2], q)
      BY <1>15, <2>2, <3>1 DEF SweptOK
    <3> QED  BY <1>10, <1>11, <2>2, <3>2 DEF LeftHand
  <2> QED  BY <2>1, <2>2
<1>16. S \union {r} \subseteq DOMAIN layers
  BY <1>1, <1>7
<1>17. SweptOK(o, Q, S \union {r})
  <2>1. \A q \in S \union {r} : TogetherOn(o, q)
    BY <1>12, <1>13
  <2> QED  BY <1>9, <1>14, <1>15, <1>16, <2>1 DEF SweptOK
<1> QED  BY <1>5, <1>6, <1>17 DEF PlacesBy
-----------------------------------------------------------------------------
(* greedy_switch: the rows it goes along, and what an exchange leaves.     *)

\* The layers are numbered from 0 to the last.
LEMMA LastRankIs ==
  ASSUME LayersOK
  PROVE  LastRank \in Nat /\ DOMAIN layers = 0..LastRank
<1>1. PICK n \in Nat : DOMAIN layers = 0..n
  BY DEF LayersOK
<1>2. IsFiniteSet(0..n) /\ 0..n \in SUBSET Int
  BY <1>1, FS_Interval
<1>3. 0..n # {} /\ n \in 0..n
  BY <1>1
<1>4. Max(0..n) \in 0..n /\ \A y \in 0..n : Max(0..n) >= y
  BY <1>2, <1>3, GreatestInteger
<1>5. Max(0..n) = n
  <2> HIDE DEF Max
  <2>1. Max(0..n) >= n
    BY <1>3, <1>4
  <2> QED  BY <1>1, <1>4, <2>1
<1>6. LastRank = n
  BY <1>1, <1>5 DEF LastRank
<1> QED  BY <1>1, <1>6

\* A rank as a pass of greedy_switch goes through it.
RowOK(w, r, o) ==
  /\ Lists(w, ToSet(layers[r]))
  /\ \A j, k \in 1..Len(w) : j < k => o[w[j]] <= o[w[k]]

\* How a row is ordered: by place, as listed where places tie.
RowBefore(r, o) ==
  {p \in (DOMAIN layers[r]) \X (DOMAIN layers[r]) :
     \/ o[layers[r][p[1]]] < o[layers[r][p[2]]]
     \/ (o[layers[r][p[1]]] = o[layers[r][p[2]]] /\ p[1] < p[2])}

\* RowOf lists a rank in that order.
LEMMA RowIs ==
  ASSUME LayersOK, NEW r \in DOMAIN layers, NEW o, \A v \in ToSet(layers[r]) : o[v] \in Nat
  PROVE  RowOK(RowOf(r, o), r, o)
<1> DEFINE all == layers[r]
           D == DOMAIN all
           before(j, k) == o[all[j]] < o[all[k]] \/ (o[all[j]] = o[all[k]] /\ j < k)
           R == RowBefore(r, o)
           lined == Lined(D, before)
<1>1. all \in Seq(ToSet(all)) /\ IsInjective(all) /\ Len(all) \in Nat /\ D = 1..Len(all)
      /\ \A k \in D : all[k] \in ToSet(all) /\ o[all[k]] \in Nat /\ k \in Nat
  <2>1. all \in Seq(NodesOf(graph) \ CompoundsOf(graph)) /\ IsInjective(all)
    BY DEF LayersOK
  <2>2. Len(all) \in Nat /\ D = 1..Len(all) /\ \A k \in 1..Len(all) : all[k] \in ToSet(all)
    BY <2>1, ListMembers
  <2>3. all \in Seq(ToSet(all))
    BY <2>1, <2>2, SeqWithin
  <2> QED  BY <2>1, <2>2, <2>3
<1>2. IsFiniteSet(D) /\ Cardinality(D) = Len(all) /\ Cardinality(D) \in Nat
  <2>1. PICK n \in Nat : n = Len(all)
    BY <1>1
  <2>2. IsFiniteSet(1..n) /\ Cardinality(1..n) = n
    <3>1. IsFiniteSet(1..n) /\ Cardinality(1..n) = IF 1 > n THEN 0 ELSE n - 1 + 1
      BY FS_Interval
    <3> QED  BY <3>1
  <2>3. D = 1..n
    BY <1>1, <2>1
  <2> QED  BY <2>1, <2>2, <2>3
<1>3. ASSUME NEW j \in D, NEW k \in D PROVE <<j, k>> \in R <=> before(j, k)
  BY DEF RowBefore
<1>4. StrictOrder(D, R)
  <2> DEFINE at1(k) == o[all[k]]
  <2>1. \A k \in D : at1(k) \in Nat /\ k \in Nat
    BY <1>1
  <2>2. \A j, k \in D : <<j, k>> \in R <=> at1(j) < at1(k) \/ (at1(j) = at1(k) /\ j < k)
    BY <1>3
  <2> HIDE DEF at1, R, D
  <2>3. \A u \in D : <<u, u>> \notin R
    BY <2>1, <2>2
  <2>4. ASSUME NEW u \in D, NEW v \in D, NEW w \in D, <<u, v>> \in R, <<v, w>> \in R PROVE <<u, w>> \in R
    <3>1. at1(u) < at1(v) \/ (at1(u) = at1(v) /\ u < v)
      BY <2>2, <2>4
    <3>2. at1(v) < at1(w) \/ (at1(v) = at1(w) /\ v < w)
      BY <2>2, <2>4
    <3>3. at1(u) < at1(w) \/ (at1(u) = at1(w) /\ u < w)
      BY <2>1, <3>1, <3>2
    <3> QED  BY <2>2, <3>3
  <2>5. ASSUME NEW u \in D, NEW v \in D PROVE u = v \/ <<u, v>> \in R \/ <<v, u>> \in R
    BY <2>1, <2>2
  <2> QED  BY <2>3, <2>4, <2>5 DEF StrictOrder
<1>5. IsLining(lined, D, R)
  <2>1. ASSUME NEW v \in D PROVE {w \in D : before(w, v)} = {w \in D : <<w, v>> \in R}
    BY <1>3
  <2>2. ASSUME NEW k \in 1..Cardinality(D) PROVE lined[k] \in D /\ TurnIn(D, R, lined[k]) = k - 1
    <3>1. lined[k] = CHOOSE v \in D : Cardinality({w \in D : before(w, v)}) = k - 1
      BY DEF Lined
    <3> HIDE DEF lined, before, D, R
    <3>2. k - 1 \in 0..(Cardinality(D) - 1)
      BY <1>2
    <3>3. \E v \in D : TurnIn(D, R, v) = k - 1
      BY <1>2, <1>4, <3>2, OrderedTurns
    <3>4. \E v \in D : Cardinality({w \in D : before(w, v)}) = k - 1
      BY <2>1, <3>3 DEF TurnIn
    <3>5. lined[k] \in D /\ Cardinality({w \in D : before(w, lined[k])}) = k - 1
      BY <3>1, <3>4
    <3> QED  BY <2>1, <3>5 DEF TurnIn
  <2>3. DOMAIN lined = 1..Cardinality(D) /\ lined = [k \in DOMAIN lined |-> lined[k]]
    <3> DEFINE nth(n) == CHOOSE v \in D : Cardinality({w \in D : before(w, v)}) = n - 1
    <3>1. lined = [n \in 1..Cardinality(D) |-> nth(n)]
      BY DEF Lined
    <3> HIDE DEF nth, lined, D
    <3> QED  BY <3>1
  <2> HIDE DEF lined, D, R
  <2> QED  BY <1>2, <1>4, <2>2, <2>3, LiningOf
<1>6. PICK w : w = RowOf(r, o)
  OBVIOUS
<1>7. w = [n \in DOMAIN lined |-> all[lined[n]]]
  BY <1>6 DEF RowOf
<1>8. PICK n \in Nat : n = Cardinality(D)
  BY <1>2
<1> HIDE DEF lined, before, R
<1>9. lined \in [1..n -> D] /\ (\A v \in D : \E k \in 1..n : lined[k] = v)
      /\ \A j, k \in 1..n : j < k <=> <<lined[j], lined[k]>> \in R
  BY <1>5, <1>8 DEF IsLining
<1> HIDE DEF D
<1>10. w = [k \in 1..n |-> all[lined[k]]] /\ \A k \in 1..n : lined[k] \in D /\ all[lined[k]] \in ToSet(all)
  BY <1>1, <1>7, <1>9
<1>11. w \in Seq(ToSet(all)) /\ Len(w) = n /\ DOMAIN w = 1..n /\ \A k \in 1..n : w[k] = all[lined[k]]
  BY <1>10
<1>12. ASSUME NEW j \in 1..n, NEW k \in 1..n, j < k PROVE w[j] # w[k] /\ o[w[j]] <= o[w[k]]
  <2>1. <<lined[j], lined[k]>> \in R /\ lined[j] \in D /\ lined[k] \in D
    BY <1>9, <1>12
  <2>2. lined[j] # lined[k]
    BY <1>4, <2>1 DEF StrictOrder
  <2>3. all[lined[j]] # all[lined[k]]
    BY <1>1, <2>1, <2>2 DEF IsInjective, D
  <2>4. o[all[lined[j]]] < o[all[lined[k]]] \/ o[all[lined[j]]] = o[all[lined[k]]]
    BY <1>3, <2>1 DEF before
  <2>5. o[all[lined[j]]] \in Nat /\ o[all[lined[k]]] \in Nat
    BY <1>1, <2>1
  <2> QED  BY <1>11, <2>3, <2>4, <2>5
<1>13. IsInjective(w)
  <2>1. ASSUME NEW j \in 1..n, NEW k \in 1..n, w[j] = w[k] PROVE j = k
    <3>1. ~(j < k) /\ ~(k < j)
      BY <1>12, <2>1
    <3> QED  BY <3>1
  <2> QED  BY <1>11, <2>1 DEF IsInjective
<1>14. \A x \in ToSet(all) : \E k \in 1..n : w[k] = x
  <2> TAKE x \in ToSet(all)
  <2>1. PICK d \in D : all[d] = x
    BY DEF ToSet, D
  <2>2. PICK k \in 1..n : lined[k] = d
    BY <1>9
  <2> QED  BY <1>11, <2>1, <2>2
<1>15. Lists(w, ToSet(all))
  BY <1>11, <1>13, <1>14 DEF Lists
<1>16. RowOK(w, r, o)
  BY <1>11, <1>12, <1>15 DEF RowOK
<1> QED  BY <1>6, <1>16

\* The nodes of each compound stand together.
CompactOn(o, r) ==
  \A c \in CompoundsOf(graph) : Reached(c, r) => \E b, e \in Nat : b < e /\ {o[v] : v \in Under(c, r)} = b..e

\* Frames that stand together enclose nothing else.
LEMMA TogetherCompact ==
  ASSUME NEW o, NEW r, TogetherOn(o, r)
  PROVE  CompactOn(o, r)
BY DEF TogetherOn, CompactOn, FrameOn

\* Two nodes of one compound change places.
Exchanged(o, p, a, b) ==
  /\ DOMAIN o = DOMAIN p
  /\ \A v \in DOMAIN p : o[v] = IF v = a THEN p[b] ELSE IF v = b THEN p[a] ELSE p[v]

\* What an exchange of two places does,
LEMMA ExchangedIs ==
  ASSUME NEW p, NEW a \in DOMAIN p, NEW b \in DOMAIN p, NEW o,
         o = [p EXCEPT ![a] = p[b], ![b] = p[a]]
  PROVE  Exchanged(o, p, a, b)
<1>1. DOMAIN o = DOMAIN p
  OBVIOUS
<1>2. \A v \in DOMAIN p : o[v] = IF v = b THEN p[a] ELSE IF v = a THEN p[b] ELSE p[v]
  OBVIOUS
<1> QED  BY <1>1, <1>2 DEF Exchanged

\* to a set of nodes that holds both or neither,
LEMMA SwapImage ==
  ASSUME NEW o, NEW p, NEW a, NEW b, Exchanged(o, p, a, b), NEW S, S \subseteq DOMAIN p, a \in S <=> b \in S
  PROVE  {o[v] : v \in S} = {p[v] : v \in S}
<1>1. \A v \in S : v \in DOMAIN p
  OBVIOUS
<1>2. ASSUME NEW v \in S PROVE \E u \in S : o[v] = p[u]
  BY <1>1 DEF Exchanged
<1>3. ASSUME NEW u \in S PROVE \E v \in S : o[v] = p[u]
  <2>1. CASE u = a
    <3>1. b \in S /\ (b = a => o[b] = p[a]) /\ (b # a => o[b] = p[a])
      BY <1>1, <2>1 DEF Exchanged
    <3> QED  BY <2>1, <3>1
  <2>2. CASE u = b /\ u # a
    <3>1. a \in S /\ o[a] = p[b]
      BY <1>1, <2>2 DEF Exchanged
    <3> QED  BY <2>2, <3>1
  <2>3. CASE u # a /\ u # b
    <3>1. o[u] = p[u]
      BY <1>1, <2>3 DEF Exchanged
    <3> QED  BY <3>1
  <2> QED  BY <2>1, <2>2, <2>3
<1> QED  BY <1>2, <1>3

\* and to the ranks and frames: exchanging two nodes of one parent keeps both.
LEMMA SwapKeeps ==
  ASSUME GraphShape, LayersOK, NEW r \in DOMAIN layers, NEW a \in ToSet(layers[r]), NEW b \in ToSet(layers[r]),
         graph.parents[a] = graph.parents[b], NEW p, PlacesOK(p), NEW o, Exchanged(o, p, a, b)
  PROVE  PlacesOK(o) /\ \A q \in DOMAIN layers : CompactOn(p, q) => CompactOn(o, q)
<1>1. ForestOK /\ a \in NodesOf(graph) /\ b \in NodesOf(graph)
  BY DEF GraphShape, LayersOK, ToSet
<1>2. Ups(a) = Ups(b)
  BY <1>1, UpsAre
<1>3. ASSUME NEW q \in DOMAIN layers PROVE a \in ToSet(layers[q]) <=> b \in ToSet(layers[q])
  BY RanksApart
<1>4. \A q \in DOMAIN layers : \A c : a \in Under(c, q) <=> b \in Under(c, q)
  BY <1>2, <1>3 DEF Under
<1>5. \A q \in DOMAIN layers : ToSet(layers[q]) \subseteq DOMAIN p
  BY DEF PlacesOK
<1>6. \A q \in DOMAIN layers : \A c : Under(c, q) \subseteq ToSet(layers[q])
  BY DEF Under
<1>7. ASSUME NEW q \in DOMAIN layers, NEW v \in ToSet(layers[q]) PROVE v \in DOMAIN o /\ o[v] \in Nat
  <2>1. v \in DOMAIN p /\ p[v] \in Nat /\ p[a] \in Nat /\ p[b] \in Nat
    BY DEF PlacesOK
  <2> QED  BY <2>1 DEF Exchanged
<1>8. ASSUME NEW q \in DOMAIN layers, NEW u \in Under(0, q), NEW v \in Under(0, q), o[u] = o[v] PROVE u = v
  <2>1. /\ u \in DOMAIN p /\ v \in DOMAIN p /\ \A x, y \in Under(0, q) : p[x] = p[y] => x = y
    BY <1>5, <1>6 DEF PlacesOK
  <2>2. a \in Under(0, q) <=> b \in Under(0, q)
    BY <1>4
  <2> QED  BY <1>8, <2>1, <2>2 DEF Exchanged
<1>9. ASSUME NEW q \in DOMAIN layers, Under(0, q) = ToSet(layers[q])
      PROVE  {o[v] : v \in ToSet(layers[q])} = 0..(Cardinality(ToSet(layers[q])) - 1)
  <2>1. {o[v] : v \in ToSet(layers[q])} = {p[v] : v \in ToSet(layers[q])}
    BY <1>3, <1>5, SwapImage
  <2> QED  BY <1>9, <2>1 DEF PlacesOK
<1>10. PlacesOK(o)
  BY <1>7, <1>8, <1>9 DEF PlacesOK
<1>11. ASSUME NEW q \in DOMAIN layers, CompactOn(p, q) PROVE CompactOn(o, q)
  <2> SUFFICES ASSUME NEW c \in CompoundsOf(graph), Reached(c, q)
               PROVE  \E d, e \in Nat : d < e /\ {o[v] : v \in Under(c, q)} = d..e
    BY DEF CompactOn
  <2>1. PICK d, e \in Nat : d < e /\ {p[v] : v \in Under(c, q)} = d..e
    BY <1>11 DEF CompactOn
  <2>2. Under(c, q) \subseteq DOMAIN p
    BY <1>5, <1>6
  <2>3. a \in Under(c, q) <=> b \in Under(c, q)
    BY <1>4
  <2>4. {o[v] : v \in Under(c, q)} = {p[v] : v \in Under(c, q)}
    BY <2>2, <2>3, SwapImage
  <2> QED  BY <2>1, <2>4
<1> QED  BY <1>10, <1>11

\* The row stays sorted when both change there, too.
LEMMA RowSwapped ==
  ASSUME NEW r, NEW w, NEW p, RowOK(w, r, p), NEW k \in Nat, 1 <= k, k + 1 <= Len(w), NEW o,
         \A v \in ToSet(layers[r]) : v \in DOMAIN p,
         Exchanged(o, p, w[k], w[k + 1]),
         NEW u, u = [w EXCEPT ![k] = w[k + 1], ![k + 1] = w[k]]
  PROVE  RowOK(u, r, o)
<1> DEFINE S == ToSet(layers[r])
<1>1. w \in Seq(S) /\ IsInjective(w) /\ Len(w) \in Nat /\ DOMAIN w = 1..Len(w) /\ \A x \in S : \E j \in 1..Len(w) : w[j] = x
  BY DEF RowOK, Lists
<1>2. PICK n \in Nat : n = Len(w)
  BY <1>1
<1>3. k \in 1..n /\ k + 1 \in 1..n /\ k # k + 1
  BY <1>2
<1> DEFINE other(j) == IF j = k THEN k + 1 ELSE IF j = k + 1 THEN k ELSE j
<1>4. \A j \in 1..n : w[j] \in S /\ w[j] \in DOMAIN p /\ \A i \in 1..n : w[i] = w[j] => i = j
  BY <1>1, <1>2 DEF IsInjective
<1>5. u \in [1..n -> S] /\ \A j \in 1..n : other(j) \in 1..n /\ other(other(j)) = j /\ u[j] = w[other(j)]
  <2>1. u \in [1..n -> S]
    BY <1>1, <1>2, <1>3, <1>4
  <2>2. \A j \in 1..n : u[j] = w[other(j)]
    BY <1>1, <1>2, <1>3
  <2>3. \A j \in 1..n : other(j) \in 1..n /\ other(other(j)) = j
    BY <1>3
  <2> HIDE DEF other
  <2> QED  BY <2>1, <2>2, <2>3
<1>6. u \in Seq(S) /\ Len(u) = n /\ DOMAIN u = 1..n
  <2>1. \A m \in Nat : \A f \in [1..m -> S] : f \in Seq(S) /\ Len(f) = m /\ DOMAIN f = 1..m
    <3> HIDE DEF S
    <3> TAKE m \in Nat
    <3> TAKE f \in [1..m -> S]
    <3> QED  OBVIOUS
  <2>2. u \in [1..n -> S]
    BY <1>5
  <2> QED  BY <2>1, <2>2
<1>7. ASSUME NEW j \in 1..n PROVE o[u[j]] = p[w[j]]
  <2>1. CASE j = k
    <3>1. u[j] = w[k + 1] /\ w[k + 1] # w[k]
      BY <1>3, <1>4, <1>5, <2>1
    <3> QED  BY <1>3, <1>4, <2>1, <3>1 DEF Exchanged
  <2>2. CASE j = k + 1
    <3>1. u[j] = w[k]
      BY <1>3, <1>5, <2>2
    <3> QED  BY <1>3, <1>4, <2>2, <3>1 DEF Exchanged
  <2>3. CASE j # k /\ j # k + 1
    <3>1. u[j] = w[j] /\ w[j] # w[k] /\ w[j] # w[k + 1]
      BY <1>3, <1>4, <1>5, <2>3
    <3> QED  BY <1>4, <3>1 DEF Exchanged
  <2> QED  BY <2>1, <2>2, <2>3
<1> HIDE DEF other
<1>8. \A i, j \in 1..n : u[i] = u[j] => i = j
  BY <1>4, <1>5
<1>9. \A x \in S : \E j \in 1..n : u[j] = x
  <2> TAKE x \in S
  <2>1. PICK j \in 1..n : w[j] = x
    BY <1>1, <1>2
  <2>2. other(j) \in 1..n /\ u[other(j)] = w[j]
    BY <1>5
  <2> QED  BY <2>1, <2>2
<1>10. Lists(u, S)
  BY <1>6, <1>8, <1>9 DEF Lists, IsInjective
<1>11. \A i, j \in 1..n : i < j => o[u[i]] <= o[u[j]]
  BY <1>2, <1>7 DEF RowOK
<1> QED  BY <1>2, <1>6, <1>10, <1>11 DEF RowOK
-----------------------------------------------------------------------------
(* The invariant of the sweeps and of switching.                           *)

\* The ranks that this sweep has sorted.
SweptRanks ==
  IF Downward THEN {q \in DOMAIN layers : 1 <= q /\ (step = "judge" \/ q < at)}
              ELSE {q \in DOMAIN layers : q < LastRank /\ (step = "judge" \/ q > at)}

\* Steps that leave the graph and the nodes of the ranks alone.
Steady == graph' = graph /\ layers' = layers

\* Steps that leave the graph, the layers and the parameters alone keep what is said of them:
LEMMA SteadyShape ==
  ASSUME Steady
  PROVE  /\ GraphShape' = GraphShape /\ LayersOK' = LayersOK /\ TwoAbreast' = TwoAbreast
         /\ LastRank' = LastRank /\ Inner' = Inner /\ Wide' = Wide
<1>1. GraphShape' = GraphShape
  BY DEF Steady, GraphShape, ForestOK, SidesJoined, JoinedAt, NodesOf, CompoundsOf
<1>2. LayersOK' = LayersOK
  BY DEF Steady, LayersOK, NodesOf, CompoundsOf
<1>3. TwoAbreast' = TwoAbreast
  BY DEF Steady, TwoAbreast, NodesOf, CompoundsOf, Spans
<1>4. LastRank' = LastRank /\ Inner' = Inner /\ Wide' = Wide
  BY DEF Steady, LastRank, Inner, Wide
<1> QED  BY <1>1, <1>2, <1>3, <1>4

\* of the places,
LEMMA SteadyPlaces ==
  ASSUME Steady, NEW o, PlacesOK(o)
  PROVE  /\ order' = o => PlacesOK(order)'
         /\ best'.order = o => PlacesOK(best.order)'
<1>0. PlacesOK(o)' = PlacesOK(o)
  BY DEF Steady, PlacesOK, Under, Ups, PathUp, NodesOf, Spans, CompoundsOf
<1>1. PlacesOK(o)'
  BY <1>0
<1>2. ASSUME order' = o PROVE PlacesOK(order)'
  BY <1>1, <1>2 DEF PlacesOK
<1>3. ASSUME best'.order = o PROVE PlacesOK(best.order)'
  BY <1>1, <1>3 DEF PlacesOK
<1> QED  BY <1>2, <1>3

\* of the frames,
LEMMA SteadyCompact ==
  ASSUME Steady, NEW o, \A r \in Inner : CompactOn(o, r)
  PROVE  /\ order' = o => (\A r \in Inner : CompactOn(order, r))'
         /\ best'.order = o => (\A r \in Inner : CompactOn(best.order, r))'
<1>1. (\A r \in Inner : CompactOn(o, r))'
  <2>1. ASSUME NEW r PROVE CompactOn(o, r)' = CompactOn(o, r)
    BY DEF Steady, CompactOn, Under, Ups, PathUp, NodesOf, Spans, CompoundsOf, Reached
  <2>2. Inner' = Inner
    BY SteadyShape
  <2> QED  BY <2>1, <2>2
<1>2. ASSUME order' = o PROVE (\A r \in Inner : CompactOn(order, r))'
  BY <1>1, <1>2 DEF CompactOn
<1>3. ASSUME best'.order = o PROVE (\A r \in Inner : CompactOn(best.order, r))'
  BY <1>1, <1>3 DEF CompactOn
<1> QED  BY <1>2, <1>3

\* of the row being switched,
LEMMA SteadyRow ==
  ASSUME Steady, NEW o, NEW r, NEW w, RowOK(w, r, o), order' = o, at' = r, row' = w
  PROVE  RowOK(row, at, order)'
BY DEF Steady, RowOK, Lists

\* of the rows to come,
LEMMA SteadyRowOf ==
  ASSUME Steady, NEW o, order' = o, NEW r
  PROVE  RowOf(r, order') = RowOf(r, o) /\ RowOf(r, order)' = RowOf(r, o)
BY DEF Steady, RowOf, Lined

\* and of the ranks swept.
LEMMA SteadySwept ==
  ASSUME Steady, NEW o, NEW Q, NEW S, SweptOK(o, Q, S), order' = o, constraints' = Q, SweptRanks' = S
  PROVE  SweptOK(order, constraints, SweptRanks)'
<1>1. SweptOK(o, Q, S)' = SweptOK(o, Q, S)
  <2>1. ASSUME NEW c, NEW d PROVE Mates(c, d)' = Mates(c, d)
    BY DEF Steady, Mates, CompoundsOf
  <2>2. ASSUME NEW c, NEW q PROVE Reached(c, q)' = Reached(c, q)
    BY DEF Steady, Reached, Spans, CompoundsOf, Ups, PathUp, NodesOf
  <2>3. ASSUME NEW q PROVE TogetherOn(o, q)' = TogetherOn(o, q)
    BY DEF Steady, TogetherOn, FrameOn, Under, Ups, PathUp, NodesOf, Spans, CompoundsOf, Reached
  <2>4. ASSUME NEW c, NEW d, NEW q PROVE LeftHand(o, c, d, q)' = LeftHand(o, c, d, q)
    BY DEF Steady, LeftHand, Under, Ups, PathUp, NodesOf, Spans, CompoundsOf
  <2>5. ConstraintsFrom(Q, S)' = ConstraintsFrom(Q, S)
    <3>1. CompoundsOf(graph)' = CompoundsOf(graph)
      BY DEF Steady
    <3> QED  BY <2>1, <2>2, <3>1 DEF ConstraintsFrom
  <2>6. layers' = layers
    BY DEF Steady
  <2> QED  BY <2>1, <2>2, <2>3, <2>4, <2>5, <2>6 DEF SweptOK
<1>2. SweptOK(o, Q, S)'
  BY <1>1
<1>3. ConstraintsFrom(constraints, SweptRanks)'
  BY <1>2 DEF SweptOK, ConstraintsFrom
<1>4. (\A q \in SweptRanks : TogetherOn(order, q))'
  BY <1>2 DEF SweptOK, TogetherOn, FrameOn
<1>5. (\A q \in SweptRanks : \A p \in ToSet(constraints) :
         Reached(p[1], q) /\ Reached(p[2], q) => LeftHand(order, p[1], p[2], q))'
  BY <1>2 DEF SweptOK, LeftHand
<1> QED  BY <1>2, <1>3, <1>4, <1>5 DEF SweptOK

\* Between two steps of the sweeps.
SweepHeld ==
  /\ turn \in Nat /\ LastRank >= 1 /\ PlacesOK(order) /\ SweptOK(order, constraints, SweptRanks)
  /\ turn > 0 => PlacesOK(best.order) /\ \A r \in Inner : CompactOn(best.order, r)
  /\ step = "sweep" => at \in DOMAIN layers /\ IF Downward THEN 1 <= at ELSE at < LastRank

\* Between two steps of greedy_switch.
SwitchHeld ==
  /\ PlacesOK(order) /\ \A r \in Inner : CompactOn(order, r)
  /\ at \in DOMAIN layers /\ RowOK(row, at, order)
  /\ slot \in Nat /\ 1 <= slot /\ slot + 1 <= Len(row)

\* The invariant of the ordering proper, part by part of the passes.
OrderHeld ==
  /\ step \in {"wait", "init"} => turn = 0 /\ constraints = <<>>
  /\ step \in {"init", "sweep", "judge", "switch"} => GraphShape /\ LayersOK
  /\ TwoAbreast => (Sweeping => SweepHeld) /\ (step = "switch" => SwitchHeld)

\* Beginning a row of greedy_switch establishes what switching relies on.
LEMMA Begins ==
  ASSUME LayersOK, Steady, NEW o, order' = o, PlacesOK(o), \A r \in Inner : CompactOn(o, r),
         NEW r \in Wide, BeginRow(r)
  PROVE  SwitchHeld'
<1>1. r \in DOMAIN layers /\ Len(layers[r]) > 1
  BY DEF Wide
<1>2. PICK w : w = RowOf(r, o)
  OBVIOUS
<1>3. at' = r /\ slot' = 1 /\ row' = w
  BY <1>2, SteadyRowOf DEF BeginRow
<1>4. RowOK(w, r, o)
  BY <1>1, <1>2, RowIs DEF PlacesOK
<1>5. Len(w) > 1
  <2>1. Lists(w, ToSet(layers[r]))
    BY <1>4 DEF RowOK
  <2>2. Cardinality(ToSet(layers[r])) = Len(w)
    BY <2>1, ListLength
  <2>3. Lists(layers[r], ToSet(layers[r]))
    <3>1. layers[r] \in Seq(NodesOf(graph) \ CompoundsOf(graph)) /\ IsInjective(layers[r])
      BY <1>1 DEF LayersOK
    <3>2. \A k \in 1..Len(layers[r]) : layers[r][k] \in ToSet(layers[r])
      BY <3>1, ListMembers
    <3>3. layers[r] \in Seq(ToSet(layers[r]))
      BY <3>1, <3>2, SeqWithin
    <3>4. \A x \in ToSet(layers[r]) : \E k \in 1..Len(layers[r]) : layers[r][k] = x
      BY <3>1, ListMembers
    <3> QED  BY <3>1, <3>3, <3>4 DEF Lists
  <2>4. Cardinality(ToSet(layers[r])) = Len(layers[r])
    BY <2>3, ListLength
  <2>5. PICK m : m = Len(layers[r])
    OBVIOUS
  <2>6. m > 1 /\ Len(w) = m
    BY <1>1, <2>2, <2>4, <2>5
  <2> QED  BY <2>6
<1>6. RowOK(row, at, order)'
  BY <1>3, <1>4, SteadyRow
<1>7. PlacesOK(order)' /\ (\A q \in Inner : CompactOn(order, q))'
  BY SteadyPlaces, SteadyCompact
<1>8. at' \in DOMAIN layers' /\ slot' \in Nat /\ 1 <= slot' /\ slot' + 1 <= Len(row')
  <2>1. PICK n \in Nat : n = Len(w)
    BY <1>4 DEF RowOK, Lists
  <2>2. n > 1
    BY <1>5, <2>1
  <2>3. 1 + 1 <= n
    BY <2>2
  <2> QED  BY <1>1, <1>3, <2>1, <2>3 DEF Steady
<1> QED  BY <1>6, <1>7, <1>8 DEF SwitchHeld

\* Sorting a rank keeps it (sweep_up, sweep_down),
LEMMA RankSorted ==
  ASSUME OrderHeld, SortRank
  PROVE  OrderHeld'
<1>1. step = "sweep" /\ Steady /\ step' \in {"sweep", "judge"} /\ turn' = turn /\ best' = best
  BY DEF SortRank, Steady
<1>2. GraphShape /\ LayersOK /\ GraphShape' /\ LayersOK'
  BY <1>1, SteadyShape DEF OrderHeld
<1> SUFFICES ASSUME TwoAbreast PROVE SweepHeld'
  BY <1>1, <1>2, SteadyShape DEF OrderHeld
<1>3. SweepHeld
  BY <1>1 DEF OrderHeld, Sweeping
<1>4. LastRank \in Nat /\ DOMAIN layers = 0..LastRank /\ LastRank >= 1 /\ LastRank' = LastRank
  BY <1>1, <1>2, <1>3, LastRankIs, SteadyShape DEF SweepHeld
<1>5. PICK r : r = at
  OBVIOUS
<1>6. PICK S : S = SweptRanks
  OBVIOUS
<1>7. PICK o : o = order'
  OBVIOUS
<1>8. PICK Q : Q = constraints'
  OBVIOUS
<1>9. r \in DOMAIN layers /\ IF Downward THEN 1 <= r ELSE r < LastRank
  BY <1>1, <1>3, <1>5 DEF SweepHeld
<1>10. S = IF Downward THEN {q \in DOMAIN layers : 1 <= q /\ q < r} ELSE {q \in DOMAIN layers : q < LastRank /\ q > r}
  BY <1>1, <1>5, <1>6 DEF SweptRanks
<1>11. SweptOK(order, constraints, S) /\ PlacesOK(order)
  BY <1>3, <1>6 DEF SweepHeld
<1>12. Sweepable(r)
  <2>1. PlacesTyped
    BY <1>11 DEF PlacesTyped, PlacesOK
  <2>2. graph.rank \in [NodesOf(graph) -> Int] /\ ForestOK
    BY <1>2 DEF GraphShape
  <2>3. Across(r) \in DOMAIN layers
    BY <1>4, <1>9 DEF Across
  <2>4. ConstraintsOK(r)
    <3>1. S \subseteq {q \in DOMAIN layers : IF Downward THEN q < r ELSE q > r}
      BY <1>10
    <3>2. ConstraintsFrom(constraints, S)
      BY <1>11 DEF SweptOK
    <3> QED  BY <2>2, <3>1, <3>2, SweptConstraints
  <2> QED  BY <1>2, <1>9, <2>1, <2>3, <2>4 DEF Sweepable
<1>13. r \notin S
  BY <1>4, <1>9, <1>10
<1>14. /\ o = [v \in DOMAIN order |->
                 IF v \in ToSet(SortedRank(r))
                 THEN (CHOOSE k \in DOMAIN SortedRank(r) : SortedRank(r)[k] = v) - 1 ELSE order[v]]
       /\ Q = WithConstraints(SortedRank(r))
  BY <1>5, <1>7, <1>8 DEF SortRank
<1>15. PlacesOK(o) /\ SweptOK(o, Q, S \union {r})
  BY <1>11, <1>12, <1>13, <1>14, SortsOne
<1>16. SweptRanks' = S \union {r} /\ (step' = "sweep" => at' \in DOMAIN layers /\ IF Downward THEN 1 <= at' ELSE at' < LastRank)
  <2>1. layers' = layers /\ Downward' = Downward
    BY <1>1 DEF Steady, Downward
  <2>2. IF r = IF Downward THEN LastRank ELSE 0
        THEN step' = "judge" ELSE step' = "sweep" /\ at' = r + IF Downward THEN 1 ELSE -1
    BY <1>1, <1>5 DEF SortRank
  <2>3. SweptRanks' = IF Downward THEN {q \in DOMAIN layers : 1 <= q /\ (step' = "judge" \/ q < at')}
                      ELSE {q \in DOMAIN layers : q < LastRank /\ (step' = "judge" \/ q > at')}
    BY <1>4, <2>1 DEF SweptRanks
  <2>4. CASE Downward
    BY <1>4, <1>9, <1>10, <2>2, <2>3, <2>4
  <2>5. CASE ~Downward
    BY <1>4, <1>9, <1>10, <2>2, <2>3, <2>5
  <2> QED  BY <2>4, <2>5
<1>17. PlacesOK(order)' /\ SweptOK(order, constraints, SweptRanks)'
  BY <1>1, <1>7, <1>8, <1>15, <1>16, SteadyPlaces, SteadySwept
<1>18. turn' > 0 => PlacesOK(best.order)' /\ (\A q \in Inner : CompactOn(best.order, q))'
  <2> SUFFICES ASSUME turn > 0 PROVE PlacesOK(best.order)' /\ (\A q \in Inner : CompactOn(best.order, q))'
    BY <1>1
  <2>1. PICK p : p = best.order
    OBVIOUS
  <2>2. best'.order = p
    BY <1>1, <2>1
  <2>3. PlacesOK(p) /\ \A q \in Inner : CompactOn(p, q)
    BY <1>3, <2>1 DEF SweepHeld
  <2> QED  BY <1>1, <2>2, <2>3, SteadyPlaces, SteadyCompact
<1>19. Downward' = Downward /\ layers' = layers
  BY <1>1 DEF Steady, Downward
<1> QED  BY <1>1, <1>3, <1>4, <1>16, <1>17, <1>18, <1>19 DEF SweepHeld

\* There is a first wide rank, if any.
LEMMA LeastWide ==
  ASSUME LayersOK, NEW B \in SUBSET Wide, B # {}
  PROVE  Min(B) \in B
<1>1. LastRank \in Nat /\ DOMAIN layers = 0..LastRank
  BY LastRankIs
<1>2. IsFiniteSet(0..LastRank) /\ B \in SUBSET (0..LastRank) /\ B \in SUBSET Int
  <2>1. IsFiniteSet(0..LastRank)
    BY <1>1, FS_Interval
  <2> QED  BY <1>1, <2>1 DEF Wide
<1>3. IsFiniteSet(B)
  BY <1>2, FS_Subset
<1> QED  BY <1>2, <1>3, LeastInteger

\* so does judging a sweep (keeping the best order, stopping or beginning to switch),
LEMMA Judged ==
  ASSUME OrderHeld, Judge
  PROVE  OrderHeld'
<1>1. step = "judge" /\ Steady /\ step' \in {"sweep", "switch", "loops"} /\ turn' = turn + 1 /\ constraints' = <<>>
  BY DEF Judge, Steady, EndPasses
<1>2. GraphShape /\ LayersOK /\ GraphShape' /\ LayersOK'
  BY <1>1, SteadyShape DEF OrderHeld
<1> SUFFICES ASSUME TwoAbreast PROVE (step' = "sweep" => SweepHeld') /\ (step' = "switch" => SwitchHeld')
  BY <1>1, <1>2, SteadyShape DEF OrderHeld, Sweeping
<1>3. SweepHeld
  BY <1>1 DEF OrderHeld, Sweeping
<1>4. LastRank \in Nat /\ DOMAIN layers = 0..LastRank /\ LastRank >= 1 /\ LastRank' = LastRank /\ turn \in Nat
  BY <1>1, <1>2, <1>3, LastRankIs, SteadyShape DEF SweepHeld
<1>5. PICK o : o = order
  OBVIOUS
<1>6. PlacesOK(o) /\ \A q \in Inner : CompactOn(o, q)
  <2>1. ASSUME NEW q \in Inner PROVE q \in SweptRanks
    BY <1>1, <1>4 DEF Inner, SweptRanks
  <2> QED  BY <1>3, <1>5, <2>1, TogetherCompact DEF SweepHeld, SweptOK
<1>7. PICK p : p = best'.order
  OBVIOUS
<1>8. PlacesOK(p) /\ \A q \in Inner : CompactOn(p, q)
  <2>1. \/ best' = [order |-> order, crossings |-> Crossings(order)]
        \/ (best' = best /\ turn # 0)
    BY DEF Judge
  <2>2. CASE best' = [order |-> order, crossings |-> Crossings(order)]
    BY <1>5, <1>6, <1>7, <2>2
  <2>3. CASE best' = best /\ turn # 0
    BY <1>3, <1>4, <1>7, <2>3 DEF SweepHeld
  <2> QED  BY <2>1, <2>2, <2>3
<1>9. PlacesOK(best.order)' /\ (\A q \in Inner : CompactOn(best.order, q))'
  BY <1>1, <1>7, <1>8, SteadyPlaces, SteadyCompact
<1>10. ASSUME step' = "sweep" PROVE SweepHeld'
  <2>1. at' = (IF turn % 2 = 0 THEN 1 ELSE LastRank - 1) /\ order' = o
    BY <1>5, <1>10 DEF Judge, EndPasses
  <2>2. Downward' <=> turn % 2 = 0
    BY <1>1, <1>4 DEF Downward
  <2>3. layers' = layers
    BY <1>1 DEF Steady
  <2>4. SweptRanks' = {}
    <3>1. SweptRanks' = IF turn % 2 = 0 THEN {q \in DOMAIN layers : 1 <= q /\ q < at'}
                        ELSE {q \in DOMAIN layers : q < LastRank /\ q > at'}
      BY <1>4, <1>10, <2>2, <2>3 DEF SweptRanks
    <3> QED  BY <1>4, <2>1, <3>1
  <2>5. SweptOK(o, <<>>, {})
    BY DEF SweptOK, ConstraintsFrom, IsInjective, ToSet
  <2>6. SweptOK(order, constraints, SweptRanks)'
    BY <1>1, <2>1, <2>4, <2>5, SteadySwept
  <2>7. PlacesOK(order)'
    BY <1>1, <1>6, <2>1, SteadyPlaces
  <2>8. at' \in DOMAIN layers' /\ IF Downward' THEN 1 <= at' ELSE at' < LastRank'
    BY <1>4, <2>1, <2>2, <2>3
  <2>9. turn' \in Nat /\ LastRank' >= 1
    BY <1>1, <1>4
  <2> QED  BY <1>9, <2>6, <2>7, <2>8, <2>9 DEF SweepHeld
<1>11. ASSUME step' = "switch" PROVE SwitchHeld'
  <2>1. order' = p /\ Wide # {} /\ BeginRow(Min(Wide))
    BY <1>7, <1>11 DEF Judge, EndPasses
  <2>2. Min(Wide) \in Wide
    BY <1>2, <2>1, LeastWide
  <2>3. PICK r \in Wide : r = Min(Wide)
    BY <2>2
  <2>4. BeginRow(r)
    BY <2>1, <2>3
  <2> QED  BY <1>1, <1>2, <1>8, <2>1, <2>4, Begins
<1> QED  BY <1>10, <1>11

\* and so does a step of greedy_switch.
LEMMA Switched ==
  ASSUME OrderHeld, Switch
  PROVE  OrderHeld'
<1>1. step = "switch" /\ Steady /\ step' \in {"switch", "loops"}
  BY DEF Switch, Steady, EndPasses
<1>2. GraphShape /\ LayersOK /\ GraphShape' /\ LayersOK'
  BY <1>1, SteadyShape DEF OrderHeld
<1> SUFFICES ASSUME TwoAbreast, step' = "switch" PROVE SwitchHeld'
  BY <1>1, <1>2, SteadyShape DEF OrderHeld, Sweeping
<1>3. SwitchHeld
  BY <1>1 DEF OrderHeld
<1>4. PICK p : p = order
  OBVIOUS
<1>5. PICK o : o = order'
  OBVIOUS
<1>6. PICK w : w = row
  OBVIOUS
<1>7. PICK k : k = slot
  OBVIOUS
<1>8. PICK r : r = at
  OBVIOUS
<1>9. /\ PlacesOK(p) /\ (\A q \in Inner : CompactOn(p, q)) /\ r \in DOMAIN layers /\ RowOK(w, r, p)
      /\ k \in Nat /\ 1 <= k /\ k + 1 <= Len(w)
  BY <1>3, <1>4, <1>6, <1>7, <1>8 DEF SwitchHeld
<1>10. PICK n \in Nat : n = Len(w)
  BY <1>9 DEF RowOK, Lists
<1>11. k \in 1..n /\ k + 1 \in 1..n
  BY <1>9, <1>10
<1>12. w[k] \in ToSet(layers[r]) /\ w[k + 1] \in ToSet(layers[r])
       /\ \A v \in ToSet(layers[r]) : v \in DOMAIN p
  BY <1>9, <1>10, <1>11 DEF RowOK, Lists, PlacesOK
<1> DEFINE switches == MaySwitch(w[k], w[k + 1])
<1>13. /\ switches => o = [p EXCEPT ![w[k]] = p[w[k + 1]], ![w[k + 1]] = p[w[k]]]
       /\ ~switches => o = p
  BY <1>4, <1>5, <1>6, <1>7 DEF Switch
<1>14. switches => Exchanged(o, p, w[k], w[k + 1]) /\ graph.parents[w[k]] = graph.parents[w[k + 1]]
  <2> SUFFICES ASSUME switches PROVE Exchanged(o, p, w[k], w[k + 1]) /\ graph.parents[w[k]] = graph.parents[w[k + 1]]
    OBVIOUS
  <2>1. w[k] \in DOMAIN p /\ w[k + 1] \in DOMAIN p
    BY <1>12
  <2>2. PICK a, b : a = w[k] /\ b = w[k + 1]
    OBVIOUS
  <2>3. o = [p EXCEPT ![a] = p[b], ![b] = p[a]] /\ a \in DOMAIN p /\ b \in DOMAIN p
    BY <1>13, <2>1, <2>2
  <2>4. Exchanged(o, p, a, b)
    BY <2>3, ExchangedIs
  <2> QED  BY <2>2, <2>4 DEF MaySwitch
<1> HIDE DEF switches
<1>15. PlacesOK(o) /\ \A q \in Inner : CompactOn(o, q)
  <2>1. CASE switches
    <3>1. \A q \in Inner : q \in DOMAIN layers
      <4>1. LastRank \in Nat /\ DOMAIN layers = 0..LastRank
        BY <1>2, LastRankIs
      <4> QED  BY <4>1 DEF Inner
    <3>2. PlacesOK(o) /\ \A q \in DOMAIN layers : CompactOn(p, q) => CompactOn(o, q)
      BY <1>2, <1>9, <1>12, <1>14, <2>1, SwapKeeps
    <3> QED  BY <1>9, <3>1, <3>2
  <2>2. CASE ~switches
    BY <1>9, <1>13, <2>2
  <2> QED  BY <2>1, <2>2
<1>16. CASE slot + 1 < Len(row)
  <2>1. slot' = k + 1 /\ at' = r /\ row' = IF switches THEN [w EXCEPT ![k] = w[k + 1], ![k + 1] = w[k]] ELSE w
    BY <1>6, <1>7, <1>8, <1>16 DEF Switch, switches
  <2>2. PICK u : u = row'
    OBVIOUS
  <2>3. RowOK(u, r, o) /\ Len(u) = Len(w)
    <3>1. CASE switches
      <4>1. u = [w EXCEPT ![k] = w[k + 1], ![k + 1] = w[k]]
        BY <2>1, <2>2, <3>1
      <4>2. Exchanged(o, p, w[k], w[k + 1])
        BY <1>14, <3>1
      <4>3. /\ RowOK(w, r, p) /\ k \in Nat /\ 1 <= k /\ k + 1 <= Len(w)
            /\ \A v \in ToSet(layers[r]) : v \in DOMAIN p
        BY <1>9, <1>12
      <4>4. RowOK(u, r, o)
        BY <4>1, <4>2, <4>3, RowSwapped, Zenon
      <4>5. Len(u) = Len(w)
        BY <4>3, <4>4, ListLength DEF RowOK
      <4> QED  BY <4>4, <4>5
    <3>2. CASE ~switches
      BY <1>9, <1>13, <2>1, <2>2, <3>2
    <3> QED  BY <3>1, <3>2
  <2>4. RowOK(row, at, order)'
    BY <1>1, <1>5, <2>1, <2>2, <2>3, SteadyRow
  <2>5. PlacesOK(order)' /\ (\A q \in Inner : CompactOn(order, q))'
    BY <1>1, <1>5, <1>15, SteadyPlaces, SteadyCompact
  <2>6. slot' \in Nat /\ 1 <= slot' /\ slot' + 1 <= Len(row')
    <3>1. k + 1 < n
      BY <1>6, <1>7, <1>10, <1>16
    <3>2. k + 1 \in Nat /\ 1 <= k + 1 /\ (k + 1) + 1 <= n
      BY <1>9, <1>11, <3>1
    <3> QED  BY <1>10, <2>1, <2>2, <2>3, <3>2
  <2>7. at' \in DOMAIN layers'
    BY <1>1, <1>9, <2>1 DEF Steady
  <2> QED  BY <2>4, <2>5, <2>6, <2>7 DEF SwitchHeld
<1>17. CASE ~(slot + 1 < Len(row))
  <2>1. PICK q \in Wide : BeginRow(q)
    <3>1. \/ ({s \in Wide : s > at} # {} /\ BeginRow(Min({s \in Wide : s > at})))
          \/ BeginRow(Min(Wide))
      BY <1>1, <1>17 DEF Switch, EndPasses
    <3>2. r \in Wide
      <4>1. Lists(w, ToSet(layers[r])) /\ Lists(layers[r], ToSet(layers[r]))
        <5>1. layers[r] \in Seq(NodesOf(graph) \ CompoundsOf(graph)) /\ IsInjective(layers[r])
          BY <1>2, <1>9 DEF LayersOK
        <5>2. \A j \in 1..Len(layers[r]) : layers[r][j] \in ToSet(layers[r])
          BY <5>1, ListMembers
        <5>3. layers[r] \in Seq(ToSet(layers[r]))
          BY <5>1, <5>2, SeqWithin
        <5>4. \A x \in ToSet(layers[r]) : \E j \in 1..Len(layers[r]) : layers[r][j] = x
          BY <5>1, ListMembers
        <5> QED  BY <1>9, <5>1, <5>3, <5>4 DEF Lists, RowOK
      <4>2. Len(w) = Cardinality(ToSet(layers[r])) /\ Len(layers[r]) = Cardinality(ToSet(layers[r]))
        BY <4>1, ListLength
      <4>3. PICK m : m = Len(layers[r])
        OBVIOUS
      <4>4. n = m
        BY <1>10, <4>2, <4>3
      <4>5. n > 1
        BY <1>11
      <4> QED  BY <1>9, <4>3, <4>4, <4>5 DEF Wide
    <3>3. Min(Wide) \in Wide
      BY <1>2, <3>2, LeastWide
    <3>4. {s \in Wide : s > at} # {} => Min({s \in Wide : s > at}) \in Wide
      <4>1. {s \in Wide : s > at} \in SUBSET Wide
        OBVIOUS
      <4> QED  BY <1>2, <4>1, LeastWide
    <3> QED  BY <3>1, <3>3, <3>4
  <2> QED  BY <1>1, <1>2, <1>5, <1>15, <2>1, Begins
<1> QED  BY <1>16, <1>17
-----------------------------------------------------------------------------
(* init_order: the visits from the first rank on.                          *)

\* The depth-first numbering of init_order, one visit at a time: what is left and what is seen.
LinksFrom(v) == {i \in DOMAIN graph.links : graph.links[i].from = v}
NextOf(v) == LET out == InOrder(LinksFrom(v)) IN [i \in DOMAIN out |-> graph.links[out[i]].to]
VisitNext(s) ==
  IF s.left = <<>> THEN s
  ELSE IF Head(s.left) \in ToSet(s.seen) THEN [s EXCEPT !.left = Tail(@)]
  ELSE [left |-> NextOf(Head(s.left)) \o Tail(s.left), seen |-> Append(s.seen, Head(s.left))]

\* It begins with the nodes rank by rank.
ByRank == FlattenSeq([i \in 1..(LastRank + 1) |-> layers[i - 1]])

\* The states of the visits,
VisitRun(f) ==
  f = [n \in Nat |-> IF n = 0 THEN [left |-> ByRank, seen |-> <<>>] ELSE VisitNext(f[n - 1])]

\* and how many visits there are at most.
VisitTotal == Len(ByRank) + Len(graph.links)

\* The nodes that the search may meet.
Meets == NodesOf(graph) \ CompoundsOf(graph)

\* Nodes are left or seen.
VisitStates == [left : Seq(Meets), seen : Seq(Meets)]

\* The links that have not been followed.
VisitOpen(s) == {i \in DOMAIN graph.links : graph.links[i].from \notin ToSet(s.seen)}

\* The links join nodes that are on ranks.
LinksOK == graph.links \in Seq([from : Meets, to : Meets])

\* What is so after n visits: nothing is lost, and the visits left are counted.
VisitGood(s, n) ==
  /\ s \in VisitStates /\ IsInjective(s.seen)
  /\ ToSet(ByRank) \subseteq ToSet(s.seen) \union ToSet(s.left)
  /\ s.left = <<>> \/ n + Len(s.left) + Cardinality(VisitOpen(s)) <= VisitTotal

\* The links are finitely many,
LEMMA OpenFinite ==
  ASSUME LinksOK
  PROVE  /\ IsFiniteSet(DOMAIN graph.links) /\ Cardinality(DOMAIN graph.links) = Len(graph.links)
         /\ Len(graph.links) \in Nat /\ DOMAIN graph.links \in SUBSET Int
         /\ \A S \in SUBSET DOMAIN graph.links : IsFiniteSet(S) /\ Cardinality(S) \in Nat
<1>1. PICK n \in Nat : n = Len(graph.links)
  BY DEF LinksOK
<1>2. DOMAIN graph.links = 1..n
  BY <1>1 DEF LinksOK
<1>3. IsFiniteSet(1..n) /\ Cardinality(1..n) = n
  <2>1. IsFiniteSet(1..n) /\ Cardinality(1..n) = IF 1 > n THEN 0 ELSE n - 1 + 1
    BY FS_Interval
  <2> QED  BY <2>1
<1>4. \A S \in SUBSET (1..n) : IsFiniteSet(S) /\ Cardinality(S) \in Nat
  BY <1>3, FS_Subset, FS_CardinalityType
<1> QED  BY <1>1, <1>2, <1>3, <1>4

\* so are those of a node,
LEMMA NextTyped ==
  ASSUME LinksOK, NEW v
  PROVE  /\ NextOf(v) \in Seq(Meets) /\ Len(NextOf(v)) = Cardinality(LinksFrom(v))
<1> DEFINE O == LinksFrom(v)
           out == InOrder(O)
<1>1. O \in SUBSET DOMAIN graph.links /\ O \in SUBSET Int /\ IsFiniteSet(O)
  BY OpenFinite DEF LinksFrom
<1>2. PICK n \in Nat : n = Cardinality(O)
  BY <1>1, OpenFinite
<1>3. out \in [1..n -> O]
  BY <1>1, <1>2, InOrderFacts
<1>4. \A i \in 1..n : graph.links[out[i]].to \in Meets
  <2> HIDE DEF out
  <2> TAKE i \in 1..n
  <2>1. out[i] \in DOMAIN graph.links
    BY <1>1, <1>3
  <2>2. graph.links[out[i]] \in [from : Meets, to : Meets]
    BY <2>1, EntryOf DEF LinksOK
  <2> QED  BY <2>2
<1>5. NextOf(v) = [i \in 1..n |-> graph.links[out[i]].to]
  BY <1>3 DEF NextOf
<1>6. PICK f : f = NextOf(v)
  OBVIOUS
<1> HIDE DEF out, O
<1>7. f \in [1..n -> Meets]
  BY <1>4, <1>5, <1>6
<1>8. f \in Seq(Meets) /\ Len(f) = n
  BY <1>7
<1> QED  BY <1>2, <1>6, <1>8 DEF O

\* and each visit keeps VisitGood.
LEMMA VisitStep ==
  ASSUME LinksOK, NEW s, NEW n \in Nat, VisitGood(s, n), VisitTotal \in Nat
  PROVE  VisitGood(VisitNext(s), n + 1)
<1>1. s.left \in Seq(Meets) /\ s.seen \in Seq(Meets) /\ IsInjective(s.seen) /\ s \in VisitStates
      /\ ToSet(ByRank) \subseteq ToSet(s.seen) \union ToSet(s.left)
  BY DEF VisitGood, VisitStates
<1>2. CASE s.left = <<>>
  BY <1>2 DEF VisitGood, VisitNext
<1>3. CASE s.left # <<>>
  <2>1. PICK h, q : h = Head(s.left) /\ q = Tail(s.left)
    OBVIOUS
  <2>2. /\ h \in Meets /\ q \in Seq(Meets) /\ Len(s.left) \in Nat /\ Len(q) \in Nat /\ Len(s.left) = Len(q) + 1
        /\ ToSet(s.left) = {h} \union ToSet(q)
    <3>1. PICK y : y = s.left
      OBVIOUS
    <3>2. y \in Seq(Meets) /\ y # <<>> /\ h = Head(y) /\ q = Tail(y)
      BY <1>1, <1>3, <2>1, <3>1
    <3>3. /\ Len(y) \in Nat /\ Len(y) >= 1 /\ h = y[1] /\ h \in Meets /\ q \in Seq(Meets) /\ Len(q) = Len(y) - 1
          /\ \A k \in 1..(Len(y) - 1) : q[k] = y[k + 1]
      BY <3>2, HeadAndTail
    <3>4. Len(q) \in Nat /\ Len(y) = Len(q) + 1
      <4>1. PICK m \in Nat : m = Len(y)
        BY <3>3
      <4>2. PICK l \in Nat : l = Len(q)
        BY <3>3
      <4>3. l = m - 1
        BY <3>3, <4>1, <4>2
      <4>4. m = l + 1
        BY <4>3
      <4> QED  BY <4>1, <4>2, <4>4
    <3>5. ToSet(y) = {h} \union ToSet(q)
      <4>1. PICK l \in Nat : l = Len(q)
        BY <3>4
      <4>2. (\A x : x \in ToSet(y) <=> \E k \in 1..(l + 1) : y[k] = x) /\ (\A x : x \in ToSet(q) <=> \E k \in 1..l : q[k] = x)
        <5>1. Len(y) = l + 1
          BY <3>4, <4>1
        <5>2. \A x : x \in ToSet(y) <=> \E k \in 1..Len(y) : y[k] = x
          BY <3>2, ListMembers
        <5>3. \A x : x \in ToSet(q) <=> \E k \in 1..Len(q) : q[k] = x
          BY <3>3, ListMembers
        <5> QED  BY <4>1, <5>1, <5>2, <5>3
      <4>3. y[1] = h /\ \A k \in 1..l : q[k] = y[k + 1]
        BY <3>3, <3>4, <4>1
      <4>4. ASSUME NEW x \in ToSet(y) PROVE x = h \/ x \in ToSet(q)
        <5>1. PICK k \in 1..(l + 1) : y[k] = x
          BY <4>2
        <5>2. k = 1 \/ (k - 1 \in 1..l /\ (k - 1) + 1 = k)
          OBVIOUS
        <5> QED  BY <4>2, <4>3, <5>1, <5>2
      <4>5. ASSUME NEW x \in ToSet(q) PROVE x \in ToSet(y)
        <5>1. PICK k \in 1..l : q[k] = x
          BY <4>2
        <5>2. k + 1 \in 1..(l + 1)
          OBVIOUS
        <5> QED  BY <4>2, <4>3, <5>1, <5>2
      <4>6. h \in ToSet(y)
        <5>1. 1 \in 1..(l + 1)
          OBVIOUS
        <5> QED  BY <4>2, <4>3, <5>1
      <4> QED  BY <4>4, <4>5, <4>6
    <3> QED  BY <3>1, <3>3, <3>4, <3>5
  <2>3. PICK l \in Nat : l = Len(q)
    BY <2>2
  <2>4. PICK m \in Nat : m = Cardinality(VisitOpen(s))
    BY OpenFinite DEF VisitOpen
  <2>5. n + (l + 1) + m <= VisitTotal
    <3>1. n + Len(s.left) + Cardinality(VisitOpen(s)) <= VisitTotal
      BY <1>3 DEF VisitGood
    <3>2. Len(s.left) = l + 1
      BY <2>2, <2>3
    <3> QED  BY <2>4, <3>1, <3>2
  <2>6. PICK u : u = VisitNext(s)
    OBVIOUS
  <2>7. CASE h \in ToSet(s.seen)
    <3>1. u = [s EXCEPT !.left = q]
      BY <1>3, <2>1, <2>6, <2>7 DEF VisitNext
    <3>2. u.left = q /\ u.seen = s.seen /\ u \in VisitStates
      BY <1>1, <2>2, <3>1 DEF VisitStates
    <3>3. VisitOpen(u) = VisitOpen(s)
      BY <3>2 DEF VisitOpen
    <3>4. (n + 1) + l + m <= VisitTotal
      BY <2>5
    <3>5. (n + 1) + Len(u.left) + Cardinality(VisitOpen(u)) <= VisitTotal
      BY <2>3, <2>4, <3>2, <3>3, <3>4
    <3>6. ToSet(ByRank) \subseteq ToSet(u.seen) \union ToSet(u.left)
      BY <1>1, <2>2, <2>7, <3>2
    <3> QED  BY <1>1, <2>6, <3>2, <3>5, <3>6 DEF VisitGood
  <2>8. CASE h \notin ToSet(s.seen)
    <3>1. PICK x : x = NextOf(h)
      OBVIOUS
    <3>2. x \in Seq(Meets) /\ Len(x) = Cardinality(LinksFrom(h))
      BY <3>1, NextTyped
    <3>3. PICK y, z : y = x \o q /\ z = Append(s.seen, h)
      OBVIOUS
    <3>4. u = [left |-> y, seen |-> z]
      BY <1>3, <2>1, <2>6, <2>8, <3>1, <3>3 DEF VisitNext
    <3>5. y \in Seq(Meets) /\ Len(y) = Len(x) + Len(q) /\ ToSet(y) = ToSet(x) \union ToSet(q)
      BY <2>2, <3>2, <3>3, Joined
    <3>6. z \in Seq(Meets) /\ ToSet(z) = ToSet(s.seen) \union {h} /\ IsInjective(z)
      BY <1>1, <2>2, <2>8, <3>3, Appended
    <3>7. PICK k \in Nat : k = Cardinality(LinksFrom(h))
      BY OpenFinite DEF LinksFrom
    <3>8. PICK j \in Nat : j = Cardinality(VisitOpen(u))
      BY OpenFinite DEF VisitOpen
    <3>9. m = j + k
      <4>1. u.seen = z
        BY <3>4
      <4>2. VisitOpen(u) = VisitOpen(s) \ LinksFrom(h) /\ VisitOpen(s) \intersect LinksFrom(h) = LinksFrom(h)
        BY <2>8, <3>6, <4>1 DEF VisitOpen, LinksFrom
      <4>3. IsFiniteSet(VisitOpen(s))
        BY OpenFinite DEF VisitOpen
      <4>4. Cardinality(VisitOpen(s) \ LinksFrom(h)) = Cardinality(VisitOpen(s)) - Cardinality(VisitOpen(s) \intersect LinksFrom(h))
        BY <4>3, FS_Difference
      <4>5. j = m - k
        BY <2>4, <3>7, <3>8, <4>2, <4>4
      <4> QED  BY <4>5
    <3>10. (n + 1) + (k + l) + j <= VisitTotal
      BY <2>5, <3>9
    <3>11. Len(y) = k + l
      BY <2>3, <3>2, <3>5, <3>7
    <3>12. u.left = y /\ u.seen = z /\ u \in VisitStates
      BY <3>4, <3>5, <3>6 DEF VisitStates
    <3>13. (n + 1) + Len(u.left) + Cardinality(VisitOpen(u)) <= VisitTotal
      BY <3>8, <3>10, <3>11, <3>12
    <3>14. ToSet(ByRank) \subseteq ToSet(u.seen) \union ToSet(u.left)
      BY <1>1, <2>2, <3>5, <3>6, <3>12
    <3> QED  BY <2>6, <3>6, <3>12, <3>13, <3>14 DEF VisitGood
  <2> QED  BY <2>7, <2>8
<1> QED  BY <1>2, <1>3

\* Listing the nodes rank by rank lists all of them.
LEMMA ByRankIs ==
  ASSUME LayersOK
  PROVE  /\ ByRank \in Seq(Meets) /\ Len(ByRank) \in Nat
         /\ \A r \in DOMAIN layers : ToSet(layers[r]) \subseteq ToSet(ByRank)
<1>1. LastRank \in Nat /\ DOMAIN layers = 0..LastRank
  BY LastRankIs
<1>2. PICK n \in Nat : n = LastRank + 1
  BY <1>1
<1>3. PICK rows : rows = [i \in 1..n |-> layers[i - 1]]
  OBVIOUS
<1>4. \A i \in 1..n : i - 1 \in DOMAIN layers
  BY <1>1, <1>2
<1>5. rows \in [1..n -> Seq(Meets)]
  <2>1. \A i \in 1..n : layers[i - 1] \in Seq(Meets)
    BY <1>4 DEF LayersOK, Meets
  <2> QED  BY <1>3, <2>1
<1>6. ByRank = FlattenSeq(rows)
  BY <1>2, <1>3 DEF ByRank
<1>7. PICK f : f = FlattenSeq(rows)
  OBVIOUS
<1>8. f \in Seq(Meets) /\ \A j \in 1..n : \A x \in DOMAIN rows[j] : \E y \in DOMAIN f : f[y] = rows[j][x]
  BY <1>5, <1>7, FlattenFacts
<1>9. ASSUME NEW r \in DOMAIN layers PROVE ToSet(layers[r]) \subseteq ToSet(f)
  <2>1. r + 1 \in 1..n /\ (r + 1) - 1 = r
    BY <1>1, <1>2
  <2>2. rows[r + 1] = layers[r]
    BY <1>3, <2>1
  <2>3. \A x \in DOMAIN layers[r] : \E y \in DOMAIN f : f[y] = layers[r][x]
    BY <1>8, <2>1, <2>2
  <2> QED  BY <2>3 DEF ToSet
<1> QED  BY <1>6, <1>7, <1>8, <1>9

\* Hence every node on a rank is visited once.
LEMMA VisitsAre ==
  ASSUME LayersOK, LinksOK
  PROVE  /\ Visits \in Seq(Meets) /\ IsInjective(Visits)
         /\ \A r \in DOMAIN layers : ToSet(layers[r]) \subseteq ToSet(Visits)
<1> DEFINE start == [left |-> ByRank, seen |-> <<>>]
           succ == [s \in VisitStates |-> VisitNext(s)]
           f == CHOOSE g : VisitRun(g)
<1>1. Visits = f[VisitTotal].seen
  BY DEF Visits, VisitRun, VisitNext, NextOf, LinksFrom, VisitTotal, ByRank
<1>2. ByRank \in Seq(Meets) /\ Len(ByRank) \in Nat /\ Len(graph.links) \in Nat /\ VisitTotal \in Nat
  BY ByRankIs, OpenFinite DEF VisitTotal
<1>3. start \in VisitStates
  BY <1>2 DEF VisitStates
<1>4. VisitGood(start, 0)
  <2>1. PICK u : u = start
    OBVIOUS
  <2>2. u.left = ByRank /\ u.seen = <<>>
    BY <2>1
  <2>3. IsInjective(u.seen) /\ ToSet(u.seen) = {}
    BY <2>2 DEF IsInjective, ToSet
  <2>4. VisitOpen(u) = DOMAIN graph.links
    BY <2>3 DEF VisitOpen
  <2>5. Cardinality(VisitOpen(u)) = Len(graph.links)
    BY <2>4, OpenFinite
  <2>6. PICK l \in Nat : l = Len(graph.links)
    BY <1>2
  <2>7. PICK m \in Nat : m = Len(ByRank)
    BY <1>2
  <2>8. VisitTotal = m + l
    BY <2>6, <2>7 DEF VisitTotal
  <2>9. 0 + m + l <= VisitTotal
    BY <2>8
  <2>10. 0 + Len(u.left) + Cardinality(VisitOpen(u)) <= VisitTotal
    BY <2>2, <2>5, <2>6, <2>7, <2>9
  <2>11. u \in VisitStates /\ ToSet(ByRank) \subseteq ToSet(u.seen) \union ToSet(u.left)
    BY <1>3, <2>1, <2>2
  <2>12. VisitGood(u, 0)
    BY <2>3, <2>10, <2>11 DEF VisitGood
  <2> QED  BY <2>1, <2>12
<1>5. succ \in [VisitStates -> VisitStates]
  <2>1. ASSUME NEW s \in VisitStates PROVE VisitNext(s) \in VisitStates
    <3>1. CASE s.left = <<>>
      BY <3>1 DEF VisitNext
    <3>2. CASE s.left # <<>>
      <4>1. PICK h, q : h = Head(s.left) /\ q = Tail(s.left)
        OBVIOUS
      <4>2. s.left \in Seq(Meets) /\ s.seen \in Seq(Meets)
        BY DEF VisitStates
      <4>3. h \in Meets /\ q \in Seq(Meets)
        BY <3>2, <4>1, <4>2, HeadAndTail
      <4>4. NextOf(h) \o q \in Seq(Meets) /\ Append(s.seen, h) \in Seq(Meets)
        BY <4>2, <4>3, NextTyped, Joined, Appended
      <4>5. [left |-> NextOf(h) \o q, seen |-> Append(s.seen, h)] \in VisitStates
        BY <4>4 DEF VisitStates
      <4>6. [s EXCEPT !.left = q] \in VisitStates
        BY <4>3 DEF VisitStates
      <4> QED  BY <3>2, <4>1, <4>5, <4>6 DEF VisitNext
    <3> QED  BY <3>1, <3>2
  <2> QED  BY <2>1
<1>6. \E g : VisitRun(g)
  <2> HIDE DEF start, succ
  <2>1. PICK g : Iterates(g, VisitStates, start, succ)
    BY <1>3, <1>5, IterationExists
  <2>7. g \in [Nat -> VisitStates] /\ g[0] = start
    BY <2>1 DEF Iterates
  <2>8. ASSUME NEW n \in Nat, n # 0 PROVE n - 1 \in Nat /\ g[n - 1] \in VisitStates /\ g[n] = succ[g[n - 1]]
    <3>1. n - 1 \in Nat /\ (n - 1) + 1 = n
      BY <2>8
    <3>2. g[(n - 1) + 1] = succ[g[n - 1]]
      BY <2>1, <3>1 DEF Iterates
    <3> QED  BY <2>7, <3>1, <3>2
  <2>2. ASSUME NEW n \in Nat PROVE g[n] = IF n = 0 THEN start ELSE VisitNext(g[n - 1])
    <3>1. CASE n = 0
      BY <2>7, <3>1
    <3>2. CASE n # 0
      BY <2>8, <3>2 DEF succ
    <3> QED  BY <3>1, <3>2
  <2>3. g = [n \in Nat |-> IF n = 0 THEN start ELSE VisitNext(g[n - 1])]
    <3>1. g = [n \in Nat |-> g[n]]
      BY <2>7
    <3> QED  BY <2>2, <3>1
  <2>4. VisitRun(g)
    BY <2>3 DEF VisitRun, start
  <2> QED  BY <2>4
<1>7. VisitRun(f)
  BY <1>6, Zenon
<1>8. f[0] = start /\ \A n \in Nat : f[n + 1] = VisitNext(f[n])
  <2> HIDE DEF f
  <2>1. \A n \in Nat : f[n] = IF n = 0 THEN start ELSE VisitNext(f[n - 1])
    BY <1>7 DEF VisitRun
  <2>2. f[0] = start
    BY <2>1
  <2>3. ASSUME NEW n \in Nat PROVE f[n + 1] = VisitNext(f[n])
    <3>1. n + 1 \in Nat /\ n + 1 # 0 /\ (n + 1) - 1 = n
      OBVIOUS
    <3> HIDE DEF start
    <3>2. f[n + 1] = VisitNext(f[(n + 1) - 1])
      BY <2>1, <3>1
    <3> QED  BY <3>1, <3>2
  <2> QED  BY <2>2, <2>3
<1> HIDE DEF f, start, succ
<1> DEFINE good == {n \in Nat : VisitGood(f[n], n)}
<1>9. Nat \subseteq good
  <2>1. 0 \in good
    BY <1>4, <1>8
  <2>2. ASSUME NEW n \in Nat, n \in good PROVE n + 1 \in good
    <3>1. VisitGood(f[n], n)
      BY <2>2
    <3>2. PICK s : s = f[n]
      OBVIOUS
    <3>3. VisitGood(s, n)
      BY <3>1, <3>2
    <3>4. VisitGood(VisitNext(s), n + 1)
      BY <1>2, <3>3, VisitStep
    <3>5. f[n + 1] = VisitNext(s)
      BY <1>8, <3>2
    <3> QED  BY <3>4, <3>5
  <2> HIDE DEF good
  <2> QED  BY <2>1, <2>2, Inductive
<1>10. PICK s : s = f[VisitTotal]
  OBVIOUS
<1>11. VisitGood(s, VisitTotal)
  <2>1. VisitTotal \in good
    BY <1>2, <1>9
  <2> QED  BY <1>10, <2>1
<1>12. s.left = <<>>
  <2> SUFFICES ASSUME s.left # <<>> PROVE FALSE
    OBVIOUS
  <2>1. VisitTotal + Len(s.left) + Cardinality(VisitOpen(s)) <= VisitTotal
    BY <1>11 DEF VisitGood
  <2>2. s.left \in Seq(Meets)
    BY <1>11 DEF VisitGood, VisitStates
  <2>3. PICK y : y = s.left
    OBVIOUS
  <2>4. PICK l \in Nat : l = Len(y) /\ l >= 1
    BY <2>2, <2>3, HeadAndTail
  <2>5. PICK m \in Nat : m = Cardinality(VisitOpen(s))
    BY OpenFinite DEF VisitOpen
  <2>6. VisitTotal + l + m <= VisitTotal
    BY <2>1, <2>3, <2>4, <2>5
  <2> QED  BY <1>2, <2>4, <2>6
<1>13. ToSet(ByRank) \subseteq ToSet(s.seen) /\ s.seen \in Seq(Meets) /\ IsInjective(s.seen)
  <2>1. ToSet(s.left) = {}
    BY <1>12 DEF ToSet
  <2> QED  BY <1>11, <2>1 DEF VisitGood, VisitStates
<1>14. Visits = s.seen
  BY <1>1, <1>10
<1> QED  BY <1>13, <1>14, ByRankIs

\* The initial order puts every rank in order (init_order).
LEMMA InitOrdered ==
  ASSUME OrderHeld, InitOrder
  PROVE  OrderHeld'
<1>1. step = "init" /\ graph' = graph /\ turn' = turn /\ constraints' = constraints /\ turn = 0 /\ constraints = <<>>
      /\ step' \in {"loops", "sweep"} /\ GraphShape /\ LayersOK
  BY DEF InitOrder, OrderHeld, sweepVars
<1>2. CASE step' = "loops"
  BY <1>2 DEF OrderHeld, Sweeping
<1>3. CASE step' = "sweep"
  <2> DEFINE V == ToSet(Visits)
             At(r) == {v \in V : graph.rank[v] = r}
             K(r, pinned) == {i \in DOMAIN Visits : /\ graph.rank[Visits[i]] = r
                                                    /\ pinned = (Visits[i] \in graph.pinned)}
             on(r, pinned) == Picked(Visits, K(r, pinned))
             O == [v \in V |-> LET lined == layers'[graph.rank[v]]
                               IN  (CHOOSE i \in DOMAIN lined : lined[i] = v) - 1]
  <2>1. LastRank >= 1 /\ layers' = [r \in DOMAIN layers |-> on(r, FALSE) \o on(r, TRUE)]
        /\ order' = O /\ at' = LastRank - 1
    <3>1. ~(LastRank < 1)
      BY <1>3 DEF InitOrder
    <3>2. LastRank >= 1
      BY <1>1, <3>1, LastRankIs
    <3>3. layers' = [r \in DOMAIN layers |-> on(r, FALSE) \o on(r, TRUE)]
      BY <3>1 DEF InitOrder
    <3>4. order' = O
      BY <3>1 DEF InitOrder
    <3>5. at' = LastRank - 1
      BY <3>1 DEF InitOrder
    <3> QED  BY <3>2, <3>3, <3>4, <3>5
  <2>2. LastRank \in Nat /\ DOMAIN layers = 0..LastRank
    BY <1>1, LastRankIs
  <2>3. LinksOK
    <3>1. graph.links \in Seq([from : NodesOf(graph) \ CompoundsOf(graph), to : NodesOf(graph) \ CompoundsOf(graph)])
      BY <1>1 DEF GraphShape
    <3> QED  BY <3>1 DEF LinksOK, Meets
  <2>4. Visits \in Seq(Meets) /\ IsInjective(Visits) /\ \A r \in DOMAIN layers : ToSet(layers[r]) \subseteq V
    BY <1>1, <2>3, VisitsAre
  <2>5. ASSUME NEW r \in DOMAIN layers PROVE Lists(on(r, FALSE) \o on(r, TRUE), At(r))
    <3>1. PICK vis : vis = Visits
      OBVIOUS
    <3>2. PICK A, B : A = K(r, FALSE) /\ B = K(r, TRUE)
      OBVIOUS
    <3>3. A \in SUBSET DOMAIN vis /\ B \in SUBSET DOMAIN vis
      BY <3>1, <3>2
    <3> DEFINE X == {vis[k] : k \in A}
               Y == {vis[k] : k \in B}
    <3>4. X \union Y = At(r)
      <4>1. \A k \in DOMAIN vis : k \in A \union B <=> graph.rank[vis[k]] = r
        BY <3>1, <3>2
      <4>2. V = {vis[k] : k \in DOMAIN vis}
        BY <3>1 DEF ToSet
      <4>3. A \subseteq DOMAIN vis /\ B \subseteq DOMAIN vis
        BY <3>3
      <4> HIDE DEF V
      <4> QED  BY <4>1, <4>2, <4>3
    <3>5. X \intersect Y = {}
      <4>1. \A k \in A : vis[k] \notin graph.pinned
        BY <3>1, <3>2
      <4>2. \A k \in B : vis[k] \in graph.pinned
        BY <3>1, <3>2
      <4> QED  BY <4>1, <4>2
    <3>6. vis \in Seq(Meets) /\ IsInjective(vis)
      BY <2>4, <3>1
    <3>7. Lists(Picked(vis, A), X) /\ Lists(Picked(vis, B), Y)
      BY <3>3, <3>6, PickedLists
    <3>8. PICK x, y : x = Picked(vis, A) /\ y = Picked(vis, B)
      OBVIOUS
    <3>9. Lists(x, X) /\ Lists(y, Y)
      BY <3>7, <3>8
    <3>10. on(r, FALSE) = x /\ on(r, TRUE) = y
      BY <3>1, <3>2, <3>8
    <3> HIDE DEF X, Y, on, At
    <3>11. Lists(x \o y, X \union Y)
      BY <3>5, <3>9, ListsJoined
    <3> QED  BY <3>4, <3>10, <3>11
  <2>6. PICK L : L = layers'
    OBVIOUS
  <2>7. L = [r \in DOMAIN layers |-> on(r, FALSE) \o on(r, TRUE)]
    BY <2>1, <2>6
  <2> HIDE DEF on
  <2>8. DOMAIN L = 0..LastRank /\ \A r \in 0..LastRank : Lists(L[r], At(r))
    BY <2>2, <2>5, <2>7
  <2> HIDE DEF At, V
  <2>9. \A r \in 0..LastRank : /\ L[r] \in Seq(Meets) /\ IsInjective(L[r]) /\ ToSet(L[r]) = At(r)
    <3> TAKE r \in 0..LastRank
    <3>1. PICK t : t = L[r]
      OBVIOUS
    <3>2. Lists(t, At(r))
      BY <2>8, <3>1
    <3>3. t \in Seq(At(r)) /\ IsInjective(t)
      BY <3>2 DEF Lists
    <3>4. At(r) \in SUBSET Meets
      <4>1. V \subseteq Meets
        BY <2>4, ListMembers DEF V
      <4> QED  BY <4>1 DEF At
    <3>5. t \in Seq(Meets)
      BY <3>3, <3>4, SeqWider
    <3>6. ToSet(t) = At(r)
      <4>1. ToSet(t) \subseteq At(r)
        BY <3>3, ListMembers
      <4>2. \A x \in At(r) : x \in ToSet(t)
        BY <3>2, <3>3, ListMembers DEF Lists
      <4> QED  BY <4>1, <4>2
    <3> QED  BY <3>1, <3>3, <3>5, <3>6
  <2>10. \A r \in DOMAIN layers : ToSet(layers[r]) \subseteq At(r)
    BY <1>1, <2>4 DEF At, LayersOK
  <2>11. LayersOK'
    <3>1. DOMAIN layers' = 0..LastRank
      BY <2>6, <2>8
    <3>2. \A r \in DOMAIN layers' : /\ layers'[r] \in Seq(NodesOf(graph') \ CompoundsOf(graph')) /\ IsInjective(layers'[r])
                                    /\ \A v \in ToSet(layers'[r]) : graph'.rank[v] = r
      BY <1>1, <2>6, <2>9, <3>1 DEF At, Meets
    <3>3. \A r \in DOMAIN layers' : ToSet(layers[r]) \subseteq ToSet(layers'[r])
      BY <2>2, <2>6, <2>9, <2>10, <3>1
    <3>4. \A c \in CompoundsOf(graph'), r \in DOMAIN layers' :
             r \in DOMAIN graph'.sides[c] => ToSet(graph'.sides[c][r]) \subseteq ToSet(layers'[r])
      <4>1. \A c \in CompoundsOf(graph), r \in DOMAIN layers :
             r \in DOMAIN graph.sides[c] => ToSet(graph.sides[c][r]) \subseteq ToSet(layers[r])
        BY <1>1 DEF LayersOK
      <4> QED  BY <1>1, <2>2, <3>1, <3>3, <4>1
    <3>5. \A i \in DOMAIN graph'.links, r \in DOMAIN layers' :
            /\ graph'.rank[graph'.links[i].from] = r => graph'.links[i].from \in ToSet(layers'[r])
            /\ graph'.rank[graph'.links[i].to] = r => graph'.links[i].to \in ToSet(layers'[r])
      <4>1. \A i \in DOMAIN graph.links, r \in DOMAIN layers :
              /\ graph.rank[graph.links[i].from] = r => graph.links[i].from \in ToSet(layers[r])
              /\ graph.rank[graph.links[i].to] = r => graph.links[i].to \in ToSet(layers[r])
        BY <1>1 DEF LayersOK
      <4> QED  BY <1>1, <2>2, <3>1, <3>3, <4>1
    <3> QED  BY <2>2, <3>1, <3>2, <3>4, <3>5 DEF LayersOK
  <2>12. GraphShape'
    <3>1. GraphShape' = GraphShape
      BY <1>1 DEF GraphShape, ForestOK, SidesJoined, JoinedAt, NodesOf, CompoundsOf
    <3> QED  BY <1>1, <3>1
  <2>13. \A r \in 0..LastRank : ToSet(L[r]) \subseteq DOMAIN order' /\ Numbered(order', ToSet(L[r]))
    <3> TAKE r \in 0..LastRank
    <3>1. PICK t, o : t = L[r] /\ o = order'
      OBVIOUS
    <3>2. Lists(t, At(r)) /\ At(r) = ToSet(t) /\ DOMAIN o = V /\ At(r) \subseteq V
      BY <2>1, <2>8, <2>9, <3>1 DEF At
    <3>3. ASSUME NEW k \in 1..Len(t) PROVE o[t[k]] = k - 1
      <4>1. t[k] \in V /\ graph.rank[t[k]] = r
        <5>1. t \in Seq(At(r))
          BY <3>2 DEF Lists
        <5> QED  BY <5>1 DEF At
      <4>2. o[t[k]] = (CHOOSE i \in DOMAIN t : t[i] = t[k]) - 1
        BY <2>1, <2>6, <3>1, <4>1
      <4>3. DOMAIN t = 1..Len(t)
        BY <3>2 DEF Lists
      <4>4. \A i, j \in DOMAIN t : t[i] = t[j] => i = j
        BY <3>2 DEF Lists, IsInjective
      <4>5. (CHOOSE i \in DOMAIN t : t[i] = t[k]) = k
        BY <4>3, <4>4
      <4> QED  BY <4>2, <4>5
    <3>4. Numbered(o, At(r))
      BY <3>2, <3>3, NumberedPlaces
    <3> QED  BY <3>1, <3>2, <3>4
  <2>14. PlacesOK(order)'
    <3>1. DOMAIN layers' = 0..LastRank /\ \A r \in 0..LastRank : ToSet(layers'[r]) \subseteq DOMAIN order' /\ Numbered(order', ToSet(layers'[r]))
      BY <2>6, <2>8, <2>13
    <3>2. \A r : Under(0, r)' \subseteq ToSet(layers'[r])
      BY DEF Under
    <3> QED  BY <3>1, <3>2 DEF PlacesOK, Numbered
  <2>15. LastRank' = LastRank
    <3>1. DOMAIN layers' = DOMAIN layers
      BY <2>2, <2>6, <2>8
    <3> QED  BY <3>1 DEF LastRank
  <2>16. ~Downward /\ ~Downward'
    BY <1>1 DEF Downward
  <2>17. SweptRanks' = {}
    <3>1. SweptRanks' = {q \in DOMAIN layers' : q < LastRank' /\ (step' = "judge" \/ q > at')}
      BY <2>16 DEF SweptRanks
    <3> QED  BY <1>3, <2>1, <2>2, <2>6, <2>8, <2>15, <3>1
  <2>18. SweptOK(order, constraints, SweptRanks)'
    <3>1. constraints' = <<>>
      BY <1>1
    <3> QED  BY <2>17, <3>1 DEF SweptOK, ConstraintsFrom, IsInjective, ToSet
  <2>19. at' \in DOMAIN layers' /\ at' < LastRank' /\ turn' = 0 /\ LastRank' >= 1
    BY <1>1, <2>1, <2>2, <2>6, <2>8, <2>15
  <2>20. SweepHeld'
    BY <2>14, <2>16, <2>18, <2>19 DEF SweepHeld
  <2> QED  BY <1>3, <2>11, <2>12, <2>20 DEF OrderHeld
<1> QED  BY <1>1, <1>2, <1>3
-----------------------------------------------------------------------------
(* What the phases before leave: the segments and their ends.              *)

\* What normalize::run leaves: links that, read with their reversals, lead down one rank at most.
ReadLow(i) ==
  IF i \in flipped THEN rank[segments[i].from] <= rank[segments[i].to] + 1
                   ELSE rank[segments[i].to] <= rank[segments[i].from] + 1

\* Once the chains stand, the segments that the ordering reads are such links.
LinksRead ==
  stage \in {"parents", "order"} =>
    /\ segments \in Seq([from : nodes, to : nodes, orig : Int])
    /\ \A i \in DOMAIN segments \ excluded : ReadLow(i)
    /\ Dummies \in SUBSET nodes

\* Rebuilding the segments leaves them so,
LEMMA RebuildReads ==
  ASSUME Shape, ChainsInv, Rebuild
  PROVE  LinksRead'
<1> DEFINE P == {k \in Positions : ~Long(k)}
           short == InOrder(P)
           R == [from : nodes, to : nodes, orig : Int]
           E == [from : nodes, to : nodes, orig : Int, reversed : BOOLEAN]
           link(s) == [from |-> s.from, to |-> s.to, orig |-> s.orig]
           heads == [i \in DOMAIN short |-> link(edges[short[i]])]
           tails == [i \in DOMAIN segments |-> link(segments[i])]
<1>1. /\ segments' = heads \o tails
      /\ flipped' = {i \in DOMAIN short : short[i] \in reversed} \union
                    {Len(short) + i : i \in {j \in DOMAIN segments :
                                               config.trackChains /\ segments[j].reversed}}
      /\ excluded' = {i \in DOMAIN short : short[i] \in excluded}
      /\ UNCHANGED <<nodes, edges, reversed, rank>>
  BY DEF Rebuild, graphVars, simplexVars
<1>2. P \in SUBSET Int /\ IsFiniteSet(P)
  <2>1. Positions = 1..EdgeCount /\ EdgeCount \in Nat
    BY DEF Shape, Positions, EdgeCount
  <2>2. IsFiniteSet(Positions) /\ Positions \in SUBSET Int
    BY <2>1, FS_Interval
  <2>3. P \subseteq Positions
    OBVIOUS
  <2> QED  BY <2>2, <2>3, FS_Subset
<1>3. Lists(short, P)
  <2> HIDE DEF P
  <2> QED  BY <1>2, ListsInOrder
<1>4. \A k \in P : k \in Positions /\ ~Long(k)
  OBVIOUS
<1> HIDE DEF P, short
<1>5. PICK n \in Nat : n = Len(short) /\ DOMAIN short = 1..n /\ \A i \in 1..n : short[i] \in P
  BY <1>3 DEF Lists
<1>6. PICK S \in Nat : S = Len(segments) /\ DOMAIN segments = 1..S
  BY DEF ChainsInv
<1>7. heads \in [1..n -> R]
  <2>1. \A k \in Positions : edges[k].from \in nodes /\ edges[k].to \in nodes /\ edges[k].orig \in Int
    BY ShapeEnds
  <2> QED  BY <1>4, <1>5, <2>1
<1>8. tails \in [1..S -> R]
  <2>1. segments \in Seq(E)
    BY DEF ChainsInv
  <2>2. \A i \in DOMAIN segments : segments[i] \in E
    <3> HIDE DEF E
    <3> QED  BY <2>1, EntryOf
  <2> QED  BY <1>6, <2>2
<1>9. /\ segments' \in [1..(n + S) -> R]
      /\ \A i \in 1..n : segments'[i] = heads[i]
      /\ \A x \in 1..S : segments'[n + x] = tails[x]
  <2> HIDE DEF heads, tails, R
  <2>1. PICK s \in [1..n -> R], t \in [1..S -> R] : s = heads /\ t = tails
    BY <1>7, <1>8
  <2>2. n \in Nat /\ S \in Nat
    OBVIOUS
  <2>3. s \o t \in [1..(n + S) -> R]
    BY <2>2, RowsJoined, Zenon
  <2>4. \A i \in 1..n : (s \o t)[i] = s[i]
    BY <2>2, RowsJoined, SMT
  <2>5. \A x \in 1..S : (s \o t)[n + x] = t[x]
    BY <2>2, RowsJoined, SMT
  <2> QED  BY <1>1, <2>1, <2>3, <2>4, <2>5
<1>10. PICK segs : segs = segments'
  OBVIOUS
<1>11. segs \in Seq(R) /\ DOMAIN segs = 1..(n + S)
  <2>1. n + S \in Nat
    OBVIOUS
  <2> HIDE DEF R
  <2> QED  BY <1>9, <1>10, <2>1
<1>12. ASSUME NEW i \in 1..n, i \notin excluded' PROVE ReadLow(i)'
  <2>1. PICK k : k = short[i]
    OBVIOUS
  <2>2. k \in Positions /\ ~Long(k) /\ k \notin excluded
    BY <1>1, <1>4, <1>5, <1>12, <2>1
  <2>3. segments'[i] = link(edges[k])
    BY <1>5, <1>9, <2>1
  <2>4. i \in flipped' <=> k \in reversed
    <3>1. \A j \in 1..S : i # n + j
      BY <1>5
    <3> QED  BY <1>1, <1>5, <1>6, <2>1, <3>1
  <2>5. rank[Source(k)] \in Int /\ rank[Target(k)] \in Int /\ ~(rank[Target(k)] > rank[Source(k)] + 1)
    BY <2>2, ShapeEnds DEF Long
  <2>6. rank[Target(k)] <= rank[Source(k)] + 1
    BY <2>5
  <2>7. segments'[i].from = edges[k].from /\ segments'[i].to = edges[k].to
    BY <2>3
  <2> HIDE DEF heads, tails, link
  <2>8. rank' = rank
    BY <1>1
  <2>9. CASE k \in reversed
    <3>1. rank[edges[k].from] <= rank[edges[k].to] + 1
      BY <2>6, <2>9 DEF Source, Target
    <3>2. rank'[segments'[i].from] <= rank'[segments'[i].to] + 1
      BY <2>7, <2>8, <3>1
    <3> QED  BY <2>4, <2>9, <3>2 DEF ReadLow
  <2>10. CASE k \notin reversed
    <3>1. rank[edges[k].to] <= rank[edges[k].from] + 1
      BY <2>6, <2>10 DEF Source, Target
    <3>2. rank'[segments'[i].to] <= rank'[segments'[i].from] + 1
      BY <2>7, <2>8, <3>1
    <3> QED  BY <2>4, <2>10, <3>2 DEF ReadLow
  <2> QED  BY <2>9, <2>10
<1>13. ASSUME NEW x \in 1..S PROVE ReadLow(n + x)'
  <2>1. PICK k \in Passed : OnChain(segments[x], k)
    BY <1>6 DEF ChainsInv, LinksOnChains
  <2>2. rank[segments[x].from] \in Int /\ rank[segments[x].to] = rank[segments[x].from] + 1
    BY <2>1 DEF Shape, OnChain
  <2>3. segments'[n + x] = link(segments[x])
    BY <1>6, <1>9
  <2>4. PICK a, b : a = rank[segments[x].from] /\ b = rank[segments[x].to]
    OBVIOUS
  <2>5. a <= b + 1 /\ b <= a + 1
    BY <2>2, <2>4
  <2>6. segments'[n + x].from = segments[x].from /\ segments'[n + x].to = segments[x].to
    BY <2>3
  <2> HIDE DEF heads, tails, link
  <2>7. rank' = rank
    BY <1>1
  <2>8. rank'[segments'[n + x].from] = a /\ rank'[segments'[n + x].to] = b
    BY <2>4, <2>6, <2>7
  <2> QED  BY <2>5, <2>8 DEF ReadLow
<1>14. \A i \in 1..(n + S) : i \in 1..n \/ \E x \in 1..S : i = n + x
  <2> TAKE i \in 1..(n + S)
  <2>1. CASE i > n
    <3>1. i - n \in 1..S /\ i = n + (i - n)
      BY <2>1
    <3> QED  BY <3>1
  <2>2. CASE ~(i > n)
    BY <2>2
  <2> QED  BY <2>1, <2>2
<1>15. \A i \in DOMAIN segs \ excluded' : ReadLow(i)'
  BY <1>11, <1>12, <1>13, <1>14
<1>16. Dummies' \in SUBSET nodes'
  <2>1. chains \in Seq(ChainsOver(nodes)) /\ chains' = chains
    BY DEF ChainsInv, Rebuild
  <2>2. ASSUME NEW i \in DOMAIN chains PROVE ToSet(chains[i].dummies) \subseteq nodes
    <3>1. chains[i] \in ChainsOver(nodes)
      BY <2>1, EntryOf
    <3>2. chains[i].dummies \in Seq(nodes)
      BY <3>1 DEF ChainsOver
    <3> QED  BY <3>2, ListMembers
  <2> QED  BY <1>1, <2>1, <2>2 DEF Dummies
<1> QED  BY <1>1, <1>10, <1>11, <1>15, <1>16 DEF LinksRead

\* every phase keeps them so,
LEMMA LinksReadInductive ==
  ChainsIInv /\ LinksRead /\ [LayeringNext \/ LayeringDone]_layeringVars => LinksRead'
<1> SUFFICES ASSUME ChainsIInv, LinksRead, [LayeringNext \/ LayeringDone]_layeringVars PROVE LinksRead'
  OBVIOUS
<1>1. CASE Rebuild
  <2>1. stage = "chains"
    BY <1>1 DEF Rebuild
  <2>2. Shape /\ ChainsInv
    BY <2>1 DEF ChainsIInv, UpToChains
  <2> QED  BY <1>1, <2>2, RebuildReads
<1>2. CASE AssignParents \/ LayeringDone \/ UNCHANGED layeringVars
  <2>1. UNCHANGED <<segments, flipped, excluded, nodes, rank, chains>> /\ (stage' \in {"parents", "order"} => stage \in {"parents", "order"})
    <3>1. CASE AssignParents
      BY <3>1 DEF AssignParents, graphVars, simplexVars, nestingVars, chainVars
    <3>2. CASE LayeringDone \/ UNCHANGED layeringVars
      BY <3>2 DEF LayeringDone, layeringVars, graphVars, simplexVars, nestingVars
    <3> QED  BY <1>2, <3>1, <3>2
  <2> QED  BY <2>1 DEF LinksRead, ReadLow, Dummies
<1>3. CASE LayeringNext /\ ~Rebuild /\ ~AssignParents
  <2>1. stage' \notin {"parents", "order"}
    <3>1. CASE ExtractSelfEdges \/ Search \/ EndSearch \/ CompoundFeedback \/ MakeSpace \/ FrameCompounds
      BY <3>1 DEF ExtractSelfEdges, Search, EndSearch, CompoundFeedback, MakeSpace, FrameCompounds
    <3>2. CASE Rank \/ NormalizeRanks \/ Unframe \/ KeepEdge \/ BreakEdge
      BY <3>2 DEF Rank, NormalizeRanks, Unframe, KeepEdge, BreakEdge
    <3> QED  BY <1>3, <3>1, <3>2 DEF LayeringNext
  <2> QED  BY <2>1 DEF LinksRead
<1> QED  BY <1>1, <1>2, <1>3

\* and there are none to begin with.
LEMMA InitIsRead == LayeringInit => LinksRead
  BY DEF LayeringInit, LinksRead
-----------------------------------------------------------------------------
(* border::add_segments: the border nodes and the graph with them.         *)

\* What the phases before leave to border::add_segments.
OrderGround ==
  /\ NodeCount \in Nat /\ nodes = 1..NodeCount /\ rank \in [nodes -> Int]
  /\ Compounds \in SUBSET nodes /\ parents \in [nodes -> Compounds \union {0}]
  /\ \E depth \in [nodes -> Nat] : \A v \in nodes : parents[v] # 0 => depth[parents[v]] < depth[v]
  /\ \A c \in Compounds : MinRank(c) \in Int /\ MaxRank(c) \in Int
  /\ BackDummies \in SUBSET (nodes \ Compounds)
  /\ segments \in Seq([from : nodes, to : nodes, orig : Int])
  /\ \A i \in DOMAIN segments \ excluded : ReadLow(i)

\* The phases before leave what the border segments are built on.
LEMMA GroundIs ==
  ASSUME FramesIInv, LinksRead, stage = "order"
  PROVE  OrderGround
<1>1. Shape /\ CompoundsApart /\ DOMAIN borders = Compounds
  BY DEF FramesIInv, AfterRanking
<1>2. /\ DOMAIN parents = nodes /\ Compounds \in SUBSET nodes /\ IsFiniteSet(nodes) /\ NoCircle /\ 0 \notin nodes
      /\ \A c \in Compounds : c \notin Dummies
  BY <1>1, ApartFacts
<1>3. parents \in [nodes -> Compounds \union {0}]
  <2>1. parents \in [nodes -> nodes \union {0}]
    BY <1>1 DEF CompoundsApart
  <2> QED  BY <2>1 DEF Compounds
<1>4. \E depth \in [nodes -> Nat] : \A v \in nodes : parents[v] # 0 => depth[parents[v]] < depth[v]
  <2> DEFINE depth == [v \in nodes |-> Cardinality(Around(v))]
  <2>1. \A v \in nodes : IsFiniteSet(Around(v)) /\ Cardinality(Around(v)) \in Nat
    <3> TAKE v \in nodes
    <3>1. Around(v) \in SUBSET nodes
      BY <1>2 DEF Around
    <3> QED  BY <1>2, <3>1, FS_Subset, FS_CardinalityType
  <2>2. ASSUME NEW v \in nodes, parents[v] # 0 PROVE Cardinality(Around(parents[v])) < Cardinality(Around(v))
    <3>1. PICK c : c = parents[v]
      OBVIOUS
    <3>2. c \in nodes /\ Around(v) = {c} \union Around(c) /\ c \notin Around(c)
      BY <1>2, <1>3, <2>2, <3>1, AroundStep, AroundOuter
    <3>3. Around(v) = Around(c) \union {c}
      BY <3>2
    <3>4. Cardinality(Around(v)) = Cardinality(Around(c)) + 1 /\ Cardinality(Around(c)) \in Nat
      BY <2>1, <3>2, <3>3, FS_AddElement
    <3>5. PICK m \in Nat : m = Cardinality(Around(c))
      BY <3>4
    <3>6. m < m + 1
      OBVIOUS
    <3> QED  BY <3>1, <3>4, <3>5, <3>6
  <2>3. depth \in [nodes -> Nat]
    BY <2>1
  <2>4. \A v \in nodes : parents[v] # 0 => depth[parents[v]] < depth[v]
    <3> TAKE v \in nodes
    <3> HAVE parents[v] # 0
    <3>1. parents[v] \in nodes
      BY <1>2, <1>3
    <3> QED  BY <2>2, <3>1
  <2> HIDE DEF depth
  <2> QED  BY <2>3, <2>4
<1>5. \A c \in Compounds : MinRank(c) \in Int /\ MaxRank(c) \in Int
  BY <1>1 DEF Shape, BordersKept, MinRank, MaxRank
<1>6. BackDummies \in SUBSET (nodes \ Compounds)
  <2>1. Dummies \in SUBSET nodes
    BY DEF LinksRead
  <2>2. BackDummies \subseteq Dummies
    BY DEF BackDummies, Dummies
  <2> QED  BY <1>2, <2>1, <2>2
<1>7. NodeCount \in Nat /\ nodes = 1..NodeCount /\ rank \in [nodes -> Int]
  BY <1>1 DEF Shape
<1>8. /\ segments \in Seq([from : nodes, to : nodes, orig : Int])
      /\ \A i \in DOMAIN segments \ excluded : ReadLow(i)
  BY DEF LinksRead
<1> QED  BY <1>2, <1>3, <1>4, <1>5, <1>6, <1>7, <1>8 DEF OrderGround

\* A border segment spans finitely many ranks.
LEMMA SpotsFinite ==
  ASSUME OrderGround
  PROVE  IsFiniteSet(Spots)
<1> DEFINE row1(c) == {<<c, r>> : r \in MinRank(c)..MaxRank(c)}
           rows == [c \in Compounds |-> row1(c)]
           S == {rows[c] : c \in Compounds}
<1>1. ASSUME NEW c \in Compounds PROVE IsFiniteSet(row1(c))
  <2> DEFINE I == MinRank(c)..MaxRank(c)
             f == [r \in I |-> <<c, r>>]
  <2>1. IsFiniteSet(I)
    BY FS_Interval DEF OrderGround
  <2>2. DOMAIN f = I /\ row1(c) = {f[r] : r \in I}
    OBVIOUS
  <2> HIDE DEF f, I, row1
  <2>3. IsFiniteSet({f[r] : r \in I})
    BY <2>1, <2>2, FiniteImage
  <2> QED  BY <2>2, <2>3
<1>2. IsFiniteSet(Compounds)
  <2>1. NodeCount \in Nat /\ nodes = 1..NodeCount /\ Compounds \in SUBSET nodes
    BY DEF OrderGround
  <2>2. IsFiniteSet(nodes)
    BY <2>1, FS_Interval
  <2> QED  BY <2>1, <2>2, FS_Subset
<1>3. IsFiniteSet(S)
  <2>1. DOMAIN rows = Compounds
    OBVIOUS
  <2> HIDE DEF rows
  <2> QED  BY <1>2, <2>1, FiniteImage
<1>4. \A T \in S : IsFiniteSet(T)
  BY <1>1
<1>5. Spots = UNION S
  BY DEF Spots
<1> HIDE DEF S
<1> QED  BY <1>3, <1>4, <1>5, FS_UNION

\* The borders of a compound: two numbers a rank, which no other rank of it or of another has.
SidesGood(s) ==
  /\ DOMAIN s = Compounds
  /\ \A c \in Compounds : DOMAIN s[c] = MinRank(c)..MaxRank(c)
  /\ \E number \in [Spots -> Nat] :
       /\ \A p, q \in Spots : number[p] = number[q] => p = q
       /\ \A p \in Spots : s[p[1]][p[2]] = <<NodeCount + 2 * number[p] + 1, NodeCount + 2 * number[p] + 1 + 1>>

\* Spots in the order in which border nodes are made.
SpotBefore == {t \in Spots \X Spots : t[1][1] < t[2][1] \/ (t[1][1] = t[2][1] /\ t[1][2] < t[2][2])}

\* The border nodes are new nodes, each on one spot.
LEMMA SidesAre ==
  ASSUME OrderGround
  PROVE  SidesGood(Sides)
<1> DEFINE before(p) == {q \in Spots : q[1] < p[1] \/ (q[1] = p[1] /\ q[2] < p[2])}
           left(p) == NodeCount + 2 * Cardinality(before(p)) + 1
           number == [p \in Spots |-> Cardinality(before(p))]
<1>1. \A c \in Compounds : c \in Int /\ MinRank(c) \in Int /\ MaxRank(c) \in Int
  BY DEF OrderGround
<1>2. \A p \in Spots : p[1] \in Int /\ p[2] \in Int /\ p = <<p[1], p[2]>>
  BY <1>1 DEF Spots
<1>3. ASSUME NEW p \in Spots, NEW q \in Spots
      PROVE <<p, q>> \in SpotBefore <=> p[1] < q[1] \/ (p[1] = q[1] /\ p[2] < q[2])
  BY DEF SpotBefore
<1>4. StrictOrder(Spots, SpotBefore)
  <2>1. \A u \in Spots : <<u, u>> \notin SpotBefore
    BY <1>2, <1>3
  <2>2. ASSUME NEW u \in Spots, NEW v \in Spots, NEW w \in Spots, <<u, v>> \in SpotBefore, <<v, w>> \in SpotBefore
        PROVE  <<u, w>> \in SpotBefore
    BY <1>2, <1>3, <2>2
  <2>3. ASSUME NEW u \in Spots, NEW v \in Spots PROVE u = v \/ <<u, v>> \in SpotBefore \/ <<v, u>> \in SpotBefore
    <3>1. u[1] = v[1] /\ u[2] = v[2] => u = v
      BY <1>2
    <3> QED  BY <1>2, <1>3, <3>1
  <2> QED  BY <2>1, <2>2, <2>3 DEF StrictOrder
<1>5. \A p \in Spots : Cardinality(before(p)) = TurnIn(Spots, SpotBefore, p)
  <2> TAKE p \in Spots
  <2>1. before(p) = {q \in Spots : <<q, p>> \in SpotBefore}
    BY <1>3
  <2> QED  BY <2>1 DEF TurnIn
<1>6. /\ \A p \in Spots : TurnIn(Spots, SpotBefore, p) \in Nat
      /\ \A p, q \in Spots : TurnIn(Spots, SpotBefore, p) = TurnIn(Spots, SpotBefore, q) => p = q
  BY <1>4, SpotsFinite, OrderedTurns
<1>7. Sides = [c \in Compounds |-> [r \in MinRank(c)..MaxRank(c) |-> <<left(<<c, r>>), left(<<c, r>>) + 1>>]]
  BY DEF Sides
<1> HIDE DEF before
<1>8. number \in [Spots -> Nat] /\ \A p, q \in Spots : number[p] = number[q] => p = q
  BY <1>5, <1>6
<1>9. \A p \in Spots : p[1] \in Compounds /\ p[2] \in MinRank(p[1])..MaxRank(p[1]) /\ p = <<p[1], p[2]>>
  BY DEF Spots
<1>10. PICK s : s = Sides
  OBVIOUS
<1>11. DOMAIN s = Compounds /\ \A c \in Compounds : DOMAIN s[c] = MinRank(c)..MaxRank(c)
  BY <1>7, <1>10
<1>12. ASSUME NEW p \in Spots
       PROVE  s[p[1]][p[2]] = <<NodeCount + 2 * number[p] + 1, NodeCount + 2 * number[p] + 1 + 1>>
  <2>1. s[p[1]][p[2]] = <<left(<<p[1], p[2]>>), left(<<p[1], p[2]>>) + 1>>
    BY <1>7, <1>9, <1>10
  <2>2. left(<<p[1], p[2]>>) = NodeCount + 2 * number[p] + 1
    BY <1>9
  <2> HIDE DEF left, number
  <2> QED  BY <2>1, <2>2
<1> HIDE DEF number, left
<1>13. SidesGood(s)
  BY <1>8, <1>11, <1>12 DEF SidesGood
<1> QED  BY <1>10, <1>13

\* The border nodes, and the spot of each.
SideNodes == UNION {ToSet(Sides[p[1]][p[2]]) : p \in Spots}
SpotOf(v) == CHOOSE p \in Spots : v \in ToSet(Sides[p[1]][p[2]])

\* The borders on a rank of a compound are two new nodes.
SidePair(p, a, b) ==
  /\ Sides[p[1]][p[2]] = <<a, b>> /\ a # b
  /\ a \in SideNodes /\ b \in SideNodes /\ SpotOf(a) = p /\ SpotOf(b) = p

\* What the border nodes are.
LEMMA SideNodesAre ==
  ASSUME OrderGround
  PROVE  /\ \A p \in Spots : \E a, b : SidePair(p, a, b)
         /\ \A v \in SideNodes : SpotOf(v) \in Spots /\ v \in Nat /\ v \notin nodes /\ v # 0
         /\ IsFiniteSet(SideNodes)
         /\ \A p \in Spots : p[1] \in Compounds /\ p[2] \in MinRank(p[1])..MaxRank(p[1]) /\ p[2] \in DOMAIN Sides[p[1]]
         /\ \A c \in Compounds : \A r \in DOMAIN Sides[c] : <<c, r>> \in Spots
         /\ DOMAIN Sides = Compounds
<1>1. PICK s : s = Sides
  OBVIOUS
<1>2. SidesGood(s)
  BY <1>1, SidesAre
<1>3. PICK number \in [Spots -> Nat] :
        /\ \A p, q \in Spots : number[p] = number[q] => p = q
        /\ \A p \in Spots : s[p[1]][p[2]] = <<NodeCount + 2 * number[p] + 1, NodeCount + 2 * number[p] + 1 + 1>>
  BY <1>2 DEF SidesGood
<1> DEFINE a(p) == NodeCount + 2 * number[p] + 1
           b(p) == NodeCount + 2 * number[p] + 1 + 1
<1>4. NodeCount \in Nat /\ nodes = 1..NodeCount
  BY DEF OrderGround
<1>5. \A p \in Spots : ToSet(s[p[1]][p[2]]) = {a(p), b(p)}
  <2> TAKE p \in Spots
  <2>1. s[p[1]][p[2]] = <<a(p), b(p)>>
    BY <1>3
  <2> HIDE DEF a, b
  <2>2. \A x, y : ToSet(<<x, y>>) = {x, y}
    BY DEF ToSet
  <2> QED  BY <2>1, <2>2
<1>6. \A p \in Spots : a(p) \in Nat /\ b(p) \in Nat /\ a(p) > NodeCount /\ b(p) > NodeCount /\ a(p) # b(p)
  BY <1>3, <1>4
<1>7. ASSUME NEW p \in Spots, NEW q \in Spots, NEW v, v \in {a(p), b(p)}, v \in {a(q), b(q)} PROVE p = q
  <2>1. PICK m \in Nat, n \in Nat : m = number[p] /\ n = number[q]
    OBVIOUS
  <2>2. v \in {NodeCount + 2 * m + 1, NodeCount + 2 * m + 1 + 1} /\ v \in {NodeCount + 2 * n + 1, NodeCount + 2 * n + 1 + 1}
    BY <1>7, <2>1
  <2>3. m = n
    BY <1>4, <2>2
  <2> QED  BY <1>3, <2>1, <2>3
<1>8. SideNodes = UNION {{a(p), b(p)} : p \in Spots}
  BY <1>1, <1>5 DEF SideNodes
<1>9. \A v : SpotOf(v) = CHOOSE p \in Spots : v \in {a(p), b(p)}
  <2> TAKE v
  <2>1. \A p \in Spots : v \in ToSet(s[p[1]][p[2]]) <=> v \in {a(p), b(p)}
    BY <1>5
  <2>2. SpotOf(v) = CHOOSE p \in Spots : v \in ToSet(s[p[1]][p[2]])
    BY <1>1 DEF SpotOf
  <2> HIDE DEF a, b
  <2> QED  BY <2>1, <2>2
<1> HIDE DEF a, b
<1>10. ASSUME NEW p \in Spots PROVE SidePair(p, a(p), b(p))
  <2>1. Sides[p[1]][p[2]] = <<a(p), b(p)>>
    BY <1>1, <1>3 DEF a, b
  <2>2. a(p) \in SideNodes /\ b(p) \in SideNodes
    BY <1>8
  <2>3. SpotOf(a(p)) = p /\ SpotOf(b(p)) = p
    BY <1>7, <1>9
  <2> QED  BY <1>6, <2>1, <2>2, <2>3 DEF SidePair
<1>11. ASSUME NEW v \in SideNodes PROVE SpotOf(v) \in Spots /\ v \in Nat /\ v \notin nodes /\ v # 0
  <2>1. PICK p \in Spots : v \in {a(p), b(p)}
    BY <1>8
  <2>2. SpotOf(v) \in Spots
    BY <1>9, <2>1
  <2> QED  BY <1>4, <1>6, <2>1, <2>2
<1>12. IsFiniteSet(SideNodes)
  <2> DEFINE pairs == [p \in Spots |-> {a(p), b(p)}]
             S == {pairs[p] : p \in Spots}
  <2>1. \A p \in Spots : IsFiniteSet({a(p), b(p)})
    <3> TAKE p \in Spots
    <3>1. {a(p), b(p)} = {a(p)} \union {b(p)}
      OBVIOUS
    <3>2. IsFiniteSet({a(p)})
      BY FS_Singleton, Zenon
    <3> QED  BY <3>1, <3>2, FS_AddElement, Zenon
  <2>2. IsFiniteSet(S)
    <3>1. DOMAIN pairs = Spots
      OBVIOUS
    <3> HIDE DEF pairs
    <3> QED  BY <3>1, SpotsFinite, FiniteImage
  <2>3. \A T \in S : IsFiniteSet(T)
    BY <2>1
  <2>4. SideNodes = UNION S
    BY <1>8
  <2> HIDE DEF S
  <2> QED  BY <2>2, <2>3, <2>4, FS_UNION
<1>13. \A p \in Spots : p[1] \in Compounds /\ p[2] \in MinRank(p[1])..MaxRank(p[1])
  BY DEF Spots
<1>14. DOMAIN Sides = Compounds /\ \A c \in Compounds : DOMAIN Sides[c] = MinRank(c)..MaxRank(c)
  BY <1>1, <1>2 DEF SidesGood
<1>15. \A c \in Compounds : \A r \in DOMAIN Sides[c] : <<c, r>> \in Spots
  <2> TAKE c \in Compounds
  <2> TAKE r \in DOMAIN Sides[c]
  <2>1. r \in MinRank(c)..MaxRank(c)
    BY <1>14
  <2> QED  BY <2>1 DEF Spots
<1> QED  BY <1>10, <1>11, <1>12, <1>13, <1>14, <1>15

\* The links between borders, and those of the segments.
SideSteps ==
  {l \in [from : SideNodes, to : SideNodes] :
     \E c \in Compounds : \E r \in DOMAIN Sides[c] : \E j \in {1, 2} :
       r + 1 \in DOMAIN Sides[c] /\ l.from = Sides[c][r][j] /\ l.to = Sides[c][r + 1][j]}

\* Links that end no further than one rank on.
LowLinks == {l \in [from : PositionNodes, to : PositionNodes] : rank[l.to] <= rank[l.from] + 1}

\* The segments the ordering reads are such links.
LEMMA EffectiveAre ==
  ASSUME OrderGround
  PROVE  EffectiveLinks \in Seq(LowLinks)
<1> DEFINE K == {i \in DOMAIN segments \ excluded : {segments[i].from, segments[i].to} \subseteq PositionNodes}
           kept == InOrder(K)
           read(i) == IF i \in flipped
                      THEN [from |-> segments[i].to, to |-> segments[i].from]
                      ELSE [from |-> segments[i].from, to |-> segments[i].to]
<1>1. EffectiveLinks = [n \in DOMAIN kept |-> read(kept[n])]
  BY DEF EffectiveLinks
<1>2. PICK n \in Nat : DOMAIN segments = 1..n
  BY DEF OrderGround
<1>3. IsFiniteSet(K) /\ K \in SUBSET Int
  <2>1. IsFiniteSet(1..n) /\ K \in SUBSET (1..n)
    BY <1>2, FS_Interval
  <2> QED  BY <2>1, FS_Subset
<1>4. ASSUME NEW i \in K PROVE read(i) \in LowLinks
  <2>1. i \in DOMAIN segments \ excluded /\ segments[i].from \in PositionNodes /\ segments[i].to \in PositionNodes
    OBVIOUS
  <2>2. ReadLow(i)
    BY <2>1 DEF OrderGround
  <2> QED  BY <2>1, <2>2 DEF LowLinks, ReadLow
<1> HIDE DEF K
<1>5. Lists(kept, K)
  BY <1>3, ListsInOrder
<1> HIDE DEF kept, read
<1>6. PICK m \in Nat : DOMAIN kept = 1..m /\ \A i \in 1..m : kept[i] \in K
  BY <1>5 DEF Lists
<1>7. PICK f : f = EffectiveLinks
  OBVIOUS
<1>8. f \in [1..m -> LowLinks]
  BY <1>1, <1>4, <1>6, <1>7
<1> QED  BY <1>7, <1>8

\* A link of the border, from one rank to the next.
SideStep(c, r, j) == [from |-> Sides[c][r][j], to |-> Sides[c][r + 1][j]]

\* The links of a compound's border,
LEMMA SideLinksAre ==
  ASSUME OrderGround, NEW c \in Compounds
  PROVE  /\ SideLinks(Sides, c) \in Seq(SideSteps)
         /\ \A r \in DOMAIN Sides[c] : r + 1 \in DOMAIN Sides[c] =>
              \A j \in {1, 2} : \E y \in DOMAIN SideLinks(Sides, c) : SideLinks(Sides, c)[y] = SideStep(c, r, j)
<1>1. PICK lo \in Int, hi \in Int : lo = MinRank(c) /\ hi = MaxRank(c)
  BY DEF OrderGround
<1>2. DOMAIN Sides[c] = lo..hi
  BY <1>1, SidesAre DEF SidesGood
<1>3. PICK n \in Nat : 1..(hi - lo) = 1..n /\ (n = hi - lo \/ (n = 0 /\ hi < lo))
  <2>1. CASE hi - lo \in Nat
    BY <2>1
  <2>2. CASE hi - lo \notin Nat
    <3>1. hi - lo < 0
      BY <2>2
    <3>2. 1..(hi - lo) = {} /\ 1..0 = {}
      BY <3>1
    <3>3. hi < lo
      BY <3>1
    <3> QED  BY <3>2, <3>3
  <2> QED  BY <2>1, <2>2
<1> DEFINE step1(r) == <<SideStep(c, r, 1), SideStep(c, r, 2)>>
           rows == [i \in 1..n |-> step1(lo + i - 1)]
<1>4. ASSUME NEW r \in lo..hi, r + 1 \in lo..hi
      PROVE  /\ SideStep(c, r, 1) \in SideSteps /\ SideStep(c, r, 2) \in SideSteps
             /\ step1(r) \in Seq(SideSteps) /\ DOMAIN step1(r) = {1, 2}
             /\ step1(r)[1] = SideStep(c, r, 1) /\ step1(r)[2] = SideStep(c, r, 2)
  <2>1. <<c, r>> \in Spots /\ <<c, r + 1>> \in Spots
    BY <1>2, <1>4, SideNodesAre
  <2>2. PICK p, q : p = <<c, r>> /\ q = <<c, r + 1>>
    OBVIOUS
  <2>3. PICK a, b : SidePair(p, a, b)
    BY <2>1, <2>2, SideNodesAre
  <2>4. PICK d, e : SidePair(q, d, e)
    BY <2>1, <2>2, SideNodesAre
  <2>5. /\ Sides[c][r] = <<a, b>> /\ Sides[c][r + 1] = <<d, e>>
        /\ a \in SideNodes /\ b \in SideNodes /\ d \in SideNodes /\ e \in SideNodes
    BY <2>2, <2>3, <2>4 DEF SidePair
  <2>6. SideStep(c, r, 1) = [from |-> a, to |-> d] /\ SideStep(c, r, 2) = [from |-> b, to |-> e]
    BY <2>5 DEF SideStep
  <2>7. SideStep(c, r, 1) \in SideSteps
    <3>1. PICK l : l = SideStep(c, r, 1)
      OBVIOUS
    <3>2. l \in [from : SideNodes, to : SideNodes] /\ l.from = Sides[c][r][1] /\ l.to = Sides[c][r + 1][1]
      BY <2>5, <2>6, <3>1
    <3>3. r \in DOMAIN Sides[c] /\ r + 1 \in DOMAIN Sides[c]
      BY <1>2, <1>4
    <3> QED  BY <3>1, <3>2, <3>3 DEF SideSteps
  <2>8. SideStep(c, r, 2) \in SideSteps
    <3>1. PICK l : l = SideStep(c, r, 2)
      OBVIOUS
    <3>2. l \in [from : SideNodes, to : SideNodes] /\ l.from = Sides[c][r][2] /\ l.to = Sides[c][r + 1][2]
      BY <2>5, <2>6, <3>1
    <3>3. r \in DOMAIN Sides[c] /\ r + 1 \in DOMAIN Sides[c]
      BY <1>2, <1>4
    <3> QED  BY <3>1, <3>2, <3>3 DEF SideSteps
  <2>9. PICK x \in SideSteps, y \in SideSteps : x = SideStep(c, r, 1) /\ y = SideStep(c, r, 2)
    BY <2>7, <2>8
  <2>10. <<x, y>> \in Seq(SideSteps) /\ DOMAIN <<x, y>> = {1, 2} /\ <<x, y>>[1] = x /\ <<x, y>>[2] = y
    <3> HIDE DEF SideSteps
    <3>1. <<x, y>> \in Seq(SideSteps) /\ Len(<<x, y>>) = 2 /\ DOMAIN <<x, y>> = 1..2
      OBVIOUS
    <3> QED  BY <3>1
  <2> QED  BY <2>7, <2>8, <2>9, <2>10
<1>5. \A i \in 1..n : lo + i - 1 \in lo..hi /\ (lo + i - 1) + 1 \in lo..hi
  BY <1>3
<1>6. rows \in [1..n -> Seq(SideSteps)]
  BY <1>4, <1>5
<1>7. SideLinks(Sides, c) = FlattenSeq(rows)
  BY <1>1, <1>3 DEF SideLinks, SideStep
<1> HIDE DEF step1
<1>8. PICK f : f = FlattenSeq(rows)
  OBVIOUS
<1>9. f \in Seq(SideSteps) /\ \A k \in 1..n : \A x \in DOMAIN rows[k] : \E y \in DOMAIN f : f[y] = rows[k][x]
  <2> HIDE DEF rows
  <2>1. PICK w : w = rows
    OBVIOUS
  <2>2. n \in Nat /\ w \in [1..n -> Seq(SideSteps)]
    BY <1>6, <2>1
  <2>3. FlattenSeq(w) \in Seq(SideSteps)
    BY <2>2, FlattenFacts
  <2>4. \A k \in 1..n : \A x \in DOMAIN w[k] : \E y \in DOMAIN FlattenSeq(w) : FlattenSeq(w)[y] = w[k][x]
    BY <2>2, FlattenFacts
  <2>5. f = FlattenSeq(w)
    BY <1>8, <2>1
  <2> QED  BY <2>1, <2>3, <2>4, <2>5
<1>10. ASSUME NEW r \in DOMAIN Sides[c], r + 1 \in DOMAIN Sides[c], NEW j \in {1, 2}
       PROVE  \E y \in DOMAIN f : f[y] = SideStep(c, r, j)
  <2>1. PICK k \in 1..n : lo + k - 1 = r
    <3>1. r - lo + 1 \in 1..n /\ lo + (r - lo + 1) - 1 = r
      BY <1>2, <1>3, <1>10
    <3> QED  BY <3>1
  <2>2. rows[k] = step1(r)
    BY <2>1
  <2>3. j \in DOMAIN rows[k] /\ rows[k][j] = SideStep(c, r, j)
    BY <1>2, <1>4, <1>10, <2>2
  <2> QED  BY <1>9, <2>3
<1> QED  BY <1>7, <1>8, <1>9, <1>10

\* all links,
AllLinks ==
  EffectiveLinks \o FlattenSeq([i \in DOMAIN InOrder(Compounds) |-> SideLinks(Sides, InOrder(Compounds)[i])])

\* and what they are.
LEMMA AllLinksAre ==
  ASSUME OrderGround
  PROVE  /\ AllLinks \in Seq(LowLinks \union SideSteps)
         /\ \A c \in Compounds : \A r \in DOMAIN Sides[c] : r + 1 \in DOMAIN Sides[c] =>
              \A j \in {1, 2} : \E y \in DOMAIN AllLinks : AllLinks[y] = SideStep(c, r, j)
<1> DEFINE out == InOrder(Compounds)
           rows == [i \in DOMAIN out |-> SideLinks(Sides, out[i])]
<1>1. IsFiniteSet(Compounds) /\ Compounds \in SUBSET Int
  <2>1. NodeCount \in Nat /\ nodes = 1..NodeCount /\ Compounds \in SUBSET nodes
    BY DEF OrderGround
  <2>2. IsFiniteSet(nodes)
    BY <2>1, FS_Interval
  <2>3. Compounds \in SUBSET Int
    BY <2>1
  <2>4. IsFiniteSet(Compounds)
    BY <2>1, <2>2, FS_Subset
  <2> QED  BY <2>3, <2>4
<1>2. Lists(out, Compounds)
  BY <1>1, ListsInOrder
<1> HIDE DEF out
<1>3. PICK n \in Nat : DOMAIN out = 1..n /\ (\A i \in 1..n : out[i] \in Compounds) /\ \A c \in Compounds : \E i \in 1..n : out[i] = c
  <2>1. PICK n \in Nat : n = Len(out)
    BY <1>2 DEF Lists
  <2> QED  BY <1>2, <2>1 DEF Lists
<1>4. rows \in [1..n -> Seq(SideSteps)]
  BY <1>3, SideLinksAre
<1> DEFINE L == LowLinks \union SideSteps
<1>5. PICK s, t : s = EffectiveLinks /\ t = FlattenSeq(rows)
  OBVIOUS
<1>6. t \in Seq(SideSteps) /\ \A k \in 1..n : \A x \in DOMAIN rows[k] : \E y \in DOMAIN t : t[y] = rows[k][x]
  <2> HIDE DEF rows
  <2> QED  BY <1>4, <1>5, FlattenFacts
<1>7. s \in Seq(L) /\ t \in Seq(L)
  <2>1. s \in Seq(LowLinks)
    BY <1>5, EffectiveAre
  <2>2. LowLinks \in SUBSET L /\ SideSteps \in SUBSET L
    OBVIOUS
  <2> HIDE DEF L
  <2> QED  BY <1>6, <2>1, <2>2, SeqWider
<1>8. AllLinks = s \o t
  BY <1>5 DEF AllLinks, out
<1> HIDE DEF L
<1>9. PICK a \in Nat, b \in Nat : a = Len(s) /\ b = Len(t) /\ DOMAIN t = 1..b
  BY <1>7
<1>10. PICK u : u = s \o t
  OBVIOUS
<1>11. u \in Seq(L) /\ Len(u) = a + b /\ \A i \in 1..b : u[a + i] = t[i]
  BY <1>7, <1>9, <1>10, Concatenated
<1>12. DOMAIN u = 1..(a + b)
  BY <1>11
<1>13. ASSUME NEW c \in Compounds, NEW r \in DOMAIN Sides[c], r + 1 \in DOMAIN Sides[c], NEW j \in {1, 2}
       PROVE  \E y \in DOMAIN u : u[y] = SideStep(c, r, j)
  <2>1. PICK k \in 1..n : out[k] = c
    BY <1>3
  <2>2. rows[k] = SideLinks(Sides, c)
    BY <1>3, <2>1
  <2>3. PICK x \in DOMAIN rows[k] : rows[k][x] = SideStep(c, r, j)
    BY <1>13, <2>2, SideLinksAre
  <2>4. PICK y \in DOMAIN t : t[y] = SideStep(c, r, j)
    BY <1>6, <2>3
  <2>5. y \in 1..b
    BY <1>9
  <2>6. a + y \in 1..(a + b)
    BY <2>5
  <2>7. a + y \in DOMAIN u /\ u[a + y] = t[y]
    BY <1>11, <1>12, <2>5, <2>6
  <2> QED  BY <2>4, <2>7
<1> QED  BY <1>8, <1>10, <1>11, <1>13 DEF L

\* The graph with its border nodes.
AllNodes == nodes \union SideNodes
AllRanks == [v \in AllNodes |-> IF v \in nodes THEN rank[v] ELSE SpotOf(v)[2]]
AllParents == [v \in AllNodes |-> IF v \in nodes THEN parents[v] ELSE SpotOf(v)[1]]
AllPlaced == PositionNodes \union SideNodes

\* It is what add_border_segments makes.
LEMMA GraphAdded ==
  ASSUME AddSegments
  PROVE  /\ graph'.rank = AllRanks /\ graph'.parents = AllParents /\ graph'.sides = Sides
         /\ graph'.links = AllLinks /\ graph'.pinned \subseteq BackDummies
         /\ layers' = [r \in 0..Max({0} \union {AllRanks[v] : v \in AllPlaced}) |->
                         InOrder({v \in AllPlaced : AllRanks[v] = r})]
<1> DEFINE spot == [v \in SideNodes |-> SpotOf(v)]
           ranks == [v \in AllNodes |-> IF v \in nodes THEN rank[v] ELSE spot[v][2]]
           ups == [v \in AllNodes |-> IF v \in nodes THEN parents[v] ELSE spot[v][1]]
<1>1. ranks = AllRanks
  BY DEF AllRanks, AllNodes
<1>2. ups = AllParents
  BY DEF AllParents, AllNodes
<1>3. /\ graph' = [rank |-> ranks, parents |-> ups, sides |-> Sides, links |-> AllLinks,
                   pinned |-> IF config.sideGrouping THEN BackDummies ELSE {},
                   greedySwitch |-> config.greedySwitch]
      /\ layers' = [r \in 0..Max({0} \union {ranks[v] : v \in AllPlaced}) |->
                         InOrder({v \in AllPlaced : ranks[v] = r})]
  BY DEF AddSegments, AllNodes, AllPlaced, AllLinks, SideNodes, SpotOf
<1> HIDE DEF ranks, ups
<1>4. PICK g : g = graph'
  OBVIOUS
<1>5. g.rank = ranks /\ g.parents = ups /\ g.sides = Sides /\ g.links = AllLinks
      /\ g.pinned = IF config.sideGrouping THEN BackDummies ELSE {}
  BY <1>3, <1>4
<1> QED  BY <1>1, <1>2, <1>3, <1>4, <1>5

\* Its nodes are ranked and nested, and a border node is where its compound is.
LEMMA AllNodesAre ==
  ASSUME OrderGround
  PROVE  /\ IsFiniteSet(AllNodes) /\ AllNodes \in SUBSET (Nat \ {0}) /\ Compounds \in SUBSET AllNodes
         /\ AllRanks \in [AllNodes -> Int] /\ AllParents \in [AllNodes -> Compounds \union {0}]
         /\ AllPlaced \in SUBSET (AllNodes \ Compounds)
         /\ \E depth \in [AllNodes -> Nat] :
              \A v \in AllNodes : AllParents[v] # 0 => depth[AllParents[v]] < depth[v]
         /\ \A v \in nodes : AllRanks[v] = rank[v]
         /\ \A p \in Spots : \A a, b : SidePair(p, a, b) =>
              /\ AllRanks[a] = p[2] /\ AllRanks[b] = p[2] /\ AllParents[a] = p[1] /\ AllParents[b] = p[1]
              /\ a \in AllPlaced /\ b \in AllPlaced /\ a \notin BackDummies /\ b \notin BackDummies
<1>1. /\ NodeCount \in Nat /\ nodes = 1..NodeCount /\ rank \in [nodes -> Int]
      /\ Compounds \in SUBSET nodes /\ parents \in [nodes -> Compounds \union {0}]
      /\ BackDummies \in SUBSET nodes
      /\ \A c \in Compounds : MinRank(c) \in Int /\ MaxRank(c) \in Int
  BY DEF OrderGround
<1>2. /\ \A v \in SideNodes : SpotOf(v) \in Spots /\ v \in Nat /\ v \notin nodes /\ v # 0
      /\ IsFiniteSet(SideNodes)
      /\ \A p \in Spots : p[1] \in Compounds /\ p[2] \in MinRank(p[1])..MaxRank(p[1])
  BY SideNodesAre
<1>3. IsFiniteSet(AllNodes)
  <2>1. IsFiniteSet(nodes)
    BY <1>1, FS_Interval
  <2> QED  BY <1>2, <2>1, FS_Union DEF AllNodes
<1>4. AllNodes \in SUBSET (Nat \ {0}) /\ Compounds \in SUBSET AllNodes
  BY <1>1, <1>2 DEF AllNodes
<1>5. AllRanks \in [AllNodes -> Int]
  <2>1. \A v \in AllNodes : (IF v \in nodes THEN rank[v] ELSE SpotOf(v)[2]) \in Int
    BY <1>1, <1>2 DEF AllNodes
  <2> QED  BY <2>1 DEF AllRanks
<1>6. AllParents \in [AllNodes -> Compounds \union {0}]
  <2>1. \A v \in AllNodes : (IF v \in nodes THEN parents[v] ELSE SpotOf(v)[1]) \in Compounds \union {0}
    BY <1>1, <1>2 DEF AllNodes
  <2> QED  BY <2>1 DEF AllParents
<1>7. AllPlaced \in SUBSET (AllNodes \ Compounds)
  BY <1>1, <1>2 DEF AllPlaced, AllNodes, PositionNodes
<1>8. \E depth \in [AllNodes -> Nat] :
        \A v \in AllNodes : AllParents[v] # 0 => depth[AllParents[v]] < depth[v]
  <2>1. PICK d \in [nodes -> Nat] : \A v \in nodes : parents[v] # 0 => d[parents[v]] < d[v]
    BY DEF OrderGround
  <2> DEFINE e == [v \in AllNodes |-> IF v \in nodes THEN d[v] ELSE d[SpotOf(v)[1]] + 1]
  <2>2. \A v \in SideNodes : SpotOf(v)[1] \in nodes
    BY <1>1, <1>2
  <2>3. e \in [AllNodes -> Nat]
    BY <2>2 DEF AllNodes
  <2>4. ASSUME NEW v \in AllNodes, AllParents[v] # 0 PROVE e[AllParents[v]] < e[v]
    <3>1. CASE v \in nodes
      <4>1. AllParents[v] = parents[v]
        BY <3>1 DEF AllParents
      <4>2. parents[v] \in nodes /\ d[parents[v]] < d[v]
        BY <1>1, <2>1, <2>4, <3>1, <4>1
      <4> QED  BY <3>1, <4>1, <4>2 DEF AllNodes
    <3>2. CASE v \notin nodes
      <4>1. v \in SideNodes /\ AllParents[v] = SpotOf(v)[1]
        BY <3>2 DEF AllParents, AllNodes
      <4>2. PICK c \in nodes : c = SpotOf(v)[1]
        BY <2>2, <4>1
      <4>3. e[v] = d[c] + 1 /\ e[c] = d[c]
        BY <3>2, <4>2 DEF AllNodes
      <4> QED  BY <4>1, <4>2, <4>3
    <3> QED  BY <3>1, <3>2
  <2> HIDE DEF e
  <2> QED  BY <2>3, <2>4
<1>9. \A v \in nodes : AllRanks[v] = rank[v]
  BY DEF AllRanks, AllNodes
<1>10. ASSUME NEW p \in Spots, NEW a, NEW b, SidePair(p, a, b)
       PROVE  /\ AllRanks[a] = p[2] /\ AllRanks[b] = p[2] /\ AllParents[a] = p[1] /\ AllParents[b] = p[1]
              /\ a \in AllPlaced /\ b \in AllPlaced /\ a \notin BackDummies /\ b \notin BackDummies
  <2>1. a \in SideNodes /\ b \in SideNodes /\ SpotOf(a) = p /\ SpotOf(b) = p
    BY <1>10 DEF SidePair
  <2>2. a \notin nodes /\ b \notin nodes
    BY <1>2, <2>1
  <2> QED  BY <1>1, <2>1, <2>2 DEF AllRanks, AllParents, AllNodes, AllPlaced
<1> QED  BY <1>3, <1>4, <1>5, <1>6, <1>7, <1>8, <1>9, <1>10

\* The links that greedy_switch goes by lead over one rank.
LinksLow == \A i \in DOMAIN graph.links : graph.rank[graph.links[i].to] <= graph.rank[graph.links[i].from] + 1

\* So it has the shape the ordering relies on,
LEMMA ShapeAdded ==
  ASSUME OrderGround, AddSegments
  PROVE  GraphShape' /\ LinksLow'
<1>1. PICK g : g = graph'
  OBVIOUS
<1>2. /\ g.rank = AllRanks /\ g.parents = AllParents /\ g.sides = Sides
      /\ g.links = AllLinks /\ g.pinned \subseteq BackDummies
  BY <1>1, GraphAdded
<1>3. NodesOf(g) = AllNodes /\ CompoundsOf(g) = Compounds
  BY <1>2, SideNodesAre DEF NodesOf, CompoundsOf, AllRanks
<1>4. ForestOK'
  <2>1. /\ IsFiniteSet(NodesOf(g)) /\ NodesOf(g) \in SUBSET (Nat \ {0})
        /\ CompoundsOf(g) \in SUBSET NodesOf(g)
        /\ g.parents \in [NodesOf(g) -> CompoundsOf(g) \union {0}]
        /\ \E depth \in [NodesOf(g) -> Nat] :
             \A v \in NodesOf(g) : g.parents[v] # 0 => depth[g.parents[v]] < depth[v]
    BY <1>2, <1>3, AllNodesAre
  <2> QED  BY <1>1, <2>1 DEF ForestOK
<1>5. ASSUME NEW c \in Compounds, NEW r \in DOMAIN Sides[c]
      PROVE  \E a, b \in AllNodes \ Compounds :
               /\ Sides[c][r] = <<a, b>> /\ a # b
               /\ AllRanks[a] = r /\ AllRanks[b] = r
               /\ AllParents[a] = c /\ AllParents[b] = c
               /\ a \notin g.pinned /\ b \notin g.pinned
  <2>1. PICK p \in Spots : p = <<c, r>>
    BY <1>5, SideNodesAre
  <2>2. PICK a, b : SidePair(p, a, b)
    BY SideNodesAre
  <2>3. /\ AllRanks[a] = p[2] /\ AllRanks[b] = p[2] /\ AllParents[a] = p[1] /\ AllParents[b] = p[1]
        /\ a \in AllPlaced /\ b \in AllPlaced /\ a \notin BackDummies /\ b \notin BackDummies
    BY <2>2, AllNodesAre
  <2>4. Sides[c][r] = <<a, b>> /\ a # b
    BY <2>1, <2>2 DEF SidePair
  <2>5. a \in AllNodes \ Compounds /\ b \in AllNodes \ Compounds
    BY <2>3, AllNodesAre
  <2> QED  BY <1>2, <2>1, <2>3, <2>4, <2>5
<1>6. \A c \in Compounds :
        /\ DOMAIN Sides[c] \in SUBSET Int
        /\ \A q, s \in DOMAIN Sides[c] : \A t \in Int : q <= t /\ t <= s => t \in DOMAIN Sides[c]
  <2> TAKE c \in Compounds
  <2>1. PICK lo \in Int, hi \in Int : DOMAIN Sides[c] = lo..hi
    BY SidesAre DEF OrderGround, SidesGood
  <2> QED  BY <2>1
<1>7. \A v \in g.pinned : v \notin Compounds
  BY <1>2 DEF OrderGround
<1>8. /\ AllLinks \in Seq([from : AllNodes \ Compounds, to : AllNodes \ Compounds])
      /\ \A i \in DOMAIN AllLinks : AllRanks[AllLinks[i].to] <= AllRanks[AllLinks[i].from] + 1
  <2> DEFINE L == LowLinks \union SideSteps
             T == [from : AllNodes \ Compounds, to : AllNodes \ Compounds]
  <2>1. AllPlaced \in SUBSET (AllNodes \ Compounds) /\ PositionNodes \in SUBSET nodes
    BY AllNodesAre DEF PositionNodes
  <2>2. PositionNodes \in SUBSET (AllNodes \ Compounds) /\ SideNodes \in SUBSET (AllNodes \ Compounds)
    BY <2>1 DEF AllPlaced
  <2>3. LowLinks \in SUBSET T /\ SideSteps \in SUBSET T
    BY <2>2 DEF LowLinks, SideSteps
  <2>4. AllLinks \in Seq(L)
    BY AllLinksAre
  <2>5. AllLinks \in Seq(T)
    <3>1. L \in SUBSET T
      BY <2>3
    <3> HIDE DEF L, T
    <3> QED  BY <2>4, <3>1, SeqWider
  <2>6. ASSUME NEW i \in DOMAIN AllLinks PROVE AllRanks[AllLinks[i].to] <= AllRanks[AllLinks[i].from] + 1
    <3>1. PICK l \in L : l = AllLinks[i]
      <4> HIDE DEF L
      <4> QED  BY <2>4, EntryOf
    <3>2. CASE l \in LowLinks
      <4>1. l.from \in nodes /\ l.to \in nodes /\ rank[l.to] <= rank[l.from] + 1
        BY <2>1, <3>2 DEF LowLinks
      <4>2. AllRanks[l.from] = rank[l.from] /\ AllRanks[l.to] = rank[l.to]
        BY <4>1, AllNodesAre
      <4> QED  BY <3>1, <4>1, <4>2
    <3>3. CASE l \in SideSteps
      <4>1. PICK c \in Compounds : \E r \in DOMAIN Sides[c] : \E j \in {1, 2} :
               r + 1 \in DOMAIN Sides[c] /\ l.from = Sides[c][r][j] /\ l.to = Sides[c][r + 1][j]
        BY <3>3 DEF SideSteps
      <4>2. PICK r \in DOMAIN Sides[c] : \E j \in {1, 2} :
               r + 1 \in DOMAIN Sides[c] /\ l.from = Sides[c][r][j] /\ l.to = Sides[c][r + 1][j]
        BY <4>1
      <4>3. PICK a, b \in AllNodes \ Compounds : Sides[c][r] = <<a, b>> /\ AllRanks[a] = r /\ AllRanks[b] = r
        BY <1>5
      <4>4. PICK d, e \in AllNodes \ Compounds : Sides[c][r + 1] = <<d, e>> /\ AllRanks[d] = r + 1 /\ AllRanks[e] = r + 1
        BY <1>5, <4>2
      <4>5. AllRanks[l.from] = r /\ AllRanks[l.to] = r + 1 /\ r \in Int
        BY <1>6, <4>2, <4>3, <4>4
      <4> QED  BY <3>1, <4>5
    <3> QED  BY <3>1, <3>2, <3>3
  <2> QED  BY <2>5, <2>6
<1>9. ASSUME NEW c \in Compounds, NEW r \in DOMAIN Sides[c], r + 1 \in DOMAIN Sides[c], NEW j \in {1, 2}
      PROVE  \E i \in DOMAIN AllLinks : AllLinks[i].from = Sides[c][r][j] /\ AllLinks[i].to = Sides[c][r + 1][j]
  <2>1. PICK y \in DOMAIN AllLinks : AllLinks[y] = SideStep(c, r, j)
    BY <1>9, AllLinksAre
  <2>2. AllLinks[y].from = Sides[c][r][j] /\ AllLinks[y].to = Sides[c][r + 1][j]
    BY <2>1 DEF SideStep
  <2> QED  BY <2>2
<1>10. SidesJoined'
  <2>1. \A c \in CompoundsOf(g) : \A r \in DOMAIN g.sides[c] :
          r + 1 \in DOMAIN g.sides[c] => \A j \in {1, 2} :
            \E i \in DOMAIN g.links : g.links[i].from = g.sides[c][r][j] /\ g.links[i].to = g.sides[c][r + 1][j]
    BY <1>2, <1>3, <1>9
  <2> QED  BY <1>1, <2>1 DEF SidesJoined, JoinedAt
<1>11. /\ g.rank \in [NodesOf(g) -> Int]
       /\ \A c \in CompoundsOf(g) : \A r \in DOMAIN g.sides[c] :
            \E a, b \in NodesOf(g) \ CompoundsOf(g) :
              /\ g.sides[c][r] = <<a, b>> /\ a # b
              /\ g.rank[a] = r /\ g.rank[b] = r
              /\ g.parents[a] = c /\ g.parents[b] = c
              /\ a \notin g.pinned /\ b \notin g.pinned
       /\ \A c \in CompoundsOf(g) :
            /\ DOMAIN g.sides[c] \in SUBSET Int
            /\ \A q, s \in DOMAIN g.sides[c] : \A t \in Int : q <= t /\ t <= s => t \in DOMAIN g.sides[c]
       /\ \A v \in g.pinned : v \notin CompoundsOf(g)
       /\ g.links \in Seq([from : NodesOf(g) \ CompoundsOf(g), to : NodesOf(g) \ CompoundsOf(g)])
       /\ \A i \in DOMAIN g.links : g.rank[g.links[i].to] <= g.rank[g.links[i].from] + 1
  BY <1>2, <1>3, <1>5, <1>6, <1>7, <1>8, AllNodesAre
<1>12. GraphShape'
  BY <1>1, <1>4, <1>10, <1>11 DEF GraphShape
<1>13. LinksLow'
  BY <1>1, <1>11 DEF LinksLow
<1> QED  BY <1>12, <1>13

\* and its layers hold each node on its rank.
LEMMA LayersAdded ==
  ASSUME OrderGround, AddSegments
  PROVE  LayersOK'
<1>1. PICK g : g = graph'
  OBVIOUS
<1>2. g.rank = AllRanks /\ g.sides = Sides /\ g.links = AllLinks
  BY <1>1, GraphAdded
<1>3. NodesOf(g) = AllNodes /\ CompoundsOf(g) = Compounds
  BY <1>2, SideNodesAre DEF NodesOf, CompoundsOf, AllRanks
<1>4. /\ IsFiniteSet(AllNodes) /\ AllNodes \in SUBSET (Nat \ {0}) /\ AllRanks \in [AllNodes -> Int]
      /\ AllPlaced \in SUBSET (AllNodes \ Compounds)
  BY AllNodesAre
<1>5. PICK n \in Nat : n = Max({0} \union {AllRanks[v] : v \in AllPlaced})
  <2> DEFINE f == [v \in AllPlaced |-> AllRanks[v]]
             S == {f[v] : v \in AllPlaced}
  <2>1. S = {AllRanks[v] : v \in AllPlaced}
    OBVIOUS
  <2>2. IsFiniteSet(AllPlaced)
    BY <1>4, FS_Subset
  <2>3. IsFiniteSet(S)
    <3>1. DOMAIN f = AllPlaced
      OBVIOUS
    <3> HIDE DEF f
    <3> QED  BY <2>2, <3>1, FiniteImage
  <2>4. S \in SUBSET Int
    BY <1>4, <2>1
  <2> HIDE DEF S
  <2>5. {0} \union S = S \union {0}
    OBVIOUS
  <2>6. IsFiniteSet({0} \union S)
    BY <2>3, <2>5, FS_AddElement, Zenon
  <2>7. {0} \union S \in SUBSET Int /\ 0 \in {0} \union S
    BY <2>4
  <2>8. Max({0} \union S) \in {0} \union S /\ Max({0} \union S) >= 0
    BY <2>6, <2>7, GreatestInteger
  <2>9. Max({0} \union S) \in Int
    BY <2>7, <2>8
  <2>10. Max({0} \union S) \in Nat
    <3> HIDE DEF Max
    <3> QED  BY <2>8, <2>9
  <2> QED  BY <2>1, <2>10
<1> DEFINE on(r) == {v \in AllPlaced : AllRanks[v] = r}
<1>6. layers' = [r \in 0..n |-> InOrder(on(r))]
  BY <1>5, GraphAdded
<1>7. \A r : Lists(InOrder(on(r)), on(r))
  <2> TAKE r
  <2>0. on(r) \subseteq AllPlaced
    OBVIOUS
  <2>1. on(r) \in SUBSET AllNodes /\ on(r) \in SUBSET Int
    <3>1. AllPlaced \subseteq AllNodes
      BY <1>4
    <3>2. AllNodes \subseteq Int
      BY <1>4
    <3> HIDE DEF on
    <3>3. on(r) \subseteq AllNodes
      BY <2>0, <3>1
    <3> QED  BY <3>2, <3>3
  <2>2. IsFiniteSet(on(r))
    BY <1>4, <2>1, FS_Subset
  <2> HIDE DEF on
  <2> QED  BY <2>1, <2>2, ListsInOrder
<1>8. PICK L : L = layers'
  OBVIOUS
<1>9. DOMAIN L = 0..n /\ \A r \in 0..n : Lists(L[r], on(r))
  BY <1>6, <1>7, <1>8
<1>10. \A r \in 0..n : L[r] \in Seq(AllNodes \ Compounds) /\ IsInjective(L[r]) /\ ToSet(L[r]) = on(r)
  <2> TAKE r \in 0..n
  <2>1. PICK t : t = L[r]
    OBVIOUS
  <2>2. Lists(t, on(r))
    BY <1>9, <2>1
  <2>3. on(r) \in SUBSET (AllNodes \ Compounds)
    BY <1>4
  <2> HIDE DEF on
  <2>4. t \in Seq(on(r)) /\ IsInjective(t) /\ \A x \in on(r) : \E k \in 1..Len(t) : t[k] = x
    BY <2>2 DEF Lists
  <2>5. t \in Seq(AllNodes \ Compounds)
    BY <2>3, <2>4, SeqWider
  <2>6. ToSet(t) = on(r)
    BY <2>4, ListMembers
  <2> QED  BY <2>1, <2>4, <2>5, <2>6
<1>11. \A c \in Compounds, r \in 0..n : r \in DOMAIN Sides[c] => ToSet(Sides[c][r]) \subseteq ToSet(L[r])
  <2> TAKE c \in Compounds, r \in 0..n
  <2> HAVE r \in DOMAIN Sides[c]
  <2>1. PICK p \in Spots : p = <<c, r>>
    BY SideNodesAre
  <2>2. PICK a, b : SidePair(p, a, b)
    BY SideNodesAre
  <2>3. AllRanks[a] = r /\ AllRanks[b] = r /\ a \in AllPlaced /\ b \in AllPlaced
    BY <2>1, <2>2, AllNodesAre
  <2>4. Sides[c][r] = <<a, b>>
    BY <2>1, <2>2 DEF SidePair
  <2>5. ToSet(Sides[c][r]) = {a, b}
    BY <2>4 DEF ToSet
  <2> QED  BY <1>10, <2>3, <2>5
<1>12. ASSUME NEW i \in DOMAIN AllLinks PROVE AllLinks[i].from \in AllPlaced /\ AllLinks[i].to \in AllPlaced
  <2> DEFINE M == LowLinks \union SideSteps
  <2>1. PICK l \in M : l = AllLinks[i]
    <3>1. AllLinks \in Seq(M)
      BY AllLinksAre
    <3> HIDE DEF M
    <3> QED  BY <3>1, EntryOf
  <2> QED  BY <2>1 DEF LowLinks, SideSteps, AllPlaced
<1>13. \A i \in DOMAIN AllLinks, r \in 0..n :
         /\ AllRanks[AllLinks[i].from] = r => AllLinks[i].from \in ToSet(L[r])
         /\ AllRanks[AllLinks[i].to] = r => AllLinks[i].to \in ToSet(L[r])
  BY <1>10, <1>12
<1>14. \A r \in 0..n : \A v \in ToSet(L[r]) : AllRanks[v] = r
  BY <1>10
<1> HIDE DEF on
<1>15. /\ \A r \in DOMAIN L :
            /\ L[r] \in Seq(NodesOf(g) \ CompoundsOf(g)) /\ IsInjective(L[r])
            /\ \A v \in ToSet(L[r]) : g.rank[v] = r
       /\ \A c \in CompoundsOf(g), r \in DOMAIN L :
            r \in DOMAIN g.sides[c] => ToSet(g.sides[c][r]) \subseteq ToSet(L[r])
       /\ \A i \in DOMAIN g.links, r \in DOMAIN L :
            /\ g.rank[g.links[i].from] = r => g.links[i].from \in ToSet(L[r])
            /\ g.rank[g.links[i].to] = r => g.links[i].to \in ToSet(L[r])
  BY <1>2, <1>3, <1>9, <1>10, <1>11, <1>13, <1>14
<1> QED  BY <1>1, <1>8, <1>9, <1>15 DEF LayersOK
-----------------------------------------------------------------------------
(* The ranks begin at zero, so every link ends in a layer.                 *)

\* No node to be placed is above the first rank.
FromZero ==
  stage \in {"titles", "climbing", "chains", "parents", "order"} =>
    /\ \A v \in PositionNodes : rank[v] >= 0
    /\ \A c \in DOMAIN borders : MinRank(c) >= 0

\* Ranks normalised over some nodes are not negative on them.
LEMMA NormalizedFromZero ==
  ASSUME NEW r \in [nodes -> Int], IsFiniteSet(nodes), NEW placed \in SUBSET nodes
  PROVE  \A v \in placed : Normalized(r, placed)[v] >= 0
<1> SUFFICES ASSUME NEW u \in placed PROVE Normalized(r, placed)[u] >= 0
  OBVIOUS
<1> DEFINE f == [v \in placed |-> r[v]]
           S == {f[v] : v \in placed}
<1>1. S = {r[v] : v \in placed} /\ S \in SUBSET Int /\ S # {} /\ r[u] \in S
  OBVIOUS
<1>2. IsFiniteSet(S)
  <2>1. IsFiniteSet(placed) /\ DOMAIN f = placed
    BY FS_Subset
  <2> HIDE DEF f
  <2> QED  BY <2>1, FiniteImage
<1> HIDE DEF S
<1>3. Min(S) \in Int /\ Min(S) <= r[u]
  BY <1>1, <1>2, LeastInteger
<1>4. Normalized(r, placed) = [v \in nodes |-> r[v] - Min(S)]
  BY <1>1 DEF Normalized
<1>5. PICK m \in Int : m = Min(S)
  BY <1>3
<1>6. r[u] \in Int /\ r[u] - m >= 0
  <2>1. r[u] \in Int /\ m <= r[u]
    BY <1>3, <1>5
  <2> QED  BY <2>1
<1> QED  BY <1>4, <1>5, <1>6

\* The nodes that stay to be placed stay where they are, and the new ones are not above.
LEMMA FromZeroExtends ==
  ASSUME \A v \in PositionNodes : rank[v] >= 0, \A c \in DOMAIN borders : MinRank(c) >= 0,
         Shape, borders' = borders, \A v \in nodes : rank'[v] = rank[v],
         PositionNodes' \intersect nodes \subseteq PositionNodes,
         \A v \in PositionNodes' \ nodes : rank'[v] >= 0
  PROVE  FromZero'
<1>1. \A v \in PositionNodes' : rank'[v] >= 0
  OBVIOUS
<1>2. \A c \in DOMAIN borders : borders[c][1] \in nodes
  BY DEF Shape, BordersKept
<1>3. \A c \in DOMAIN borders' : MinRank(c)' >= 0
  BY <1>2 DEF MinRank
<1> QED  BY <1>1, <1>3 DEF FromZero

\* Every phase keeps the ranks from zero on,
LEMMA FromZeroInductive ==
  RankingIInv /\ ChainsIInv /\ FramesIInv /\ FromZero /\ [LayeringNext \/ LayeringDone]_layeringVars => FromZero'
<1> SUFFICES ASSUME RankingIInv, ChainsIInv, FramesIInv, FromZero, [LayeringNext \/ LayeringDone]_layeringVars
             PROVE  FromZero'
  OBVIOUS
<1>1. CASE NormalizeRanks
  <2>1. /\ stage = "rank" /\ Compounds = {} /\ rank' = Normalized(rank, PositionNodes)
        /\ UNCHANGED <<nodes, parents, unplaced, borders>>
    BY <1>1 DEF NormalizeRanks, graphVars, compoundVars, nestingVars
  <2>2. Shape /\ borders = <<>>
    BY <2>1 DEF ChainsIInv, UpToChains
  <2>3. PositionNodes' = PositionNodes /\ PositionNodes \in SUBSET nodes
    BY <2>1 DEF PositionNodes, Compounds
  <2>4. rank \in [nodes -> Int] /\ IsFiniteSet(nodes)
    BY <2>2, FS_Interval DEF Shape
  <2>5. \A v \in PositionNodes' : rank'[v] >= 0
    BY <2>1, <2>3, <2>4, NormalizedFromZero
  <2>6. DOMAIN borders' = {}
    BY <2>1, <2>2
  <2> QED  BY <2>5, <2>6 DEF FromZero
<1>2. CASE Unframe /\ stage = "clean_up"
  <2>1. /\ UNCHANGED <<nodes, parents, borders>> /\ unplaced' = unplaced \union {NodeCount}
        /\ rank' = Normalized(rank, PositionNodes \ {NodeCount})
    BY <1>2 DEF Unframe, CleanUp, graphVars
  <2>2. Shape /\ FramesStand
    <3>1. Shape /\ Compounds # {}
      BY <1>2 DEF ChainsIInv, UpToChains
    <3>2. FrameUp
      BY <1>2, <3>1 DEF FrameUp
    <3> QED  BY <3>1, <3>2 DEF ChainsIInv
  <2>3. PositionNodes' = PositionNodes \ {NodeCount} /\ PositionNodes \ {NodeCount} \in SUBSET nodes
    BY <2>1 DEF PositionNodes, Compounds
  <2>4. rank \in [nodes -> Int] /\ IsFiniteSet(nodes)
    BY <2>2, FS_Interval DEF Shape
  <2>5. \A v \in PositionNodes' : rank'[v] >= 0
    BY <2>1, <2>3, <2>4, NormalizedFromZero
  <2>6. \A c \in DOMAIN borders : borders[c][1] \in PositionNodes \ {NodeCount}
    BY <2>2 DEF FramesStand, PositionNodes
  <2>7. \A c \in DOMAIN borders' : MinRank(c)' >= 0
    BY <2>1, <2>3, <2>5, <2>6 DEF MinRank
  <2> QED  BY <2>5, <2>7 DEF FromZero
<1>3. CASE Unframe /\ stage = "titles"
  <2>1. InsertTitles /\ borders' = borders
    BY <1>3 DEF Unframe, InsertTitles, nestingVars
  <2>2. Shape /\ titled \in SUBSET Int /\ IsFiniteSet(titled)
    BY <1>3 DEF ChainsIInv, UpToChains
  <2>3. /\ nodes \subseteq nodes' /\ parents' \in [nodes' -> Int]
        /\ unplaced' = unplaced \union (nodes' \ nodes)
        /\ \A v \in nodes : rank'[v] = rank[v]
    <3>1. PICK n \in Nat : /\ nodes' = 1..(NodeCount + n) /\ parents' \in [nodes' -> Int]
                           /\ unplaced' = unplaced \union (nodes' \ nodes)
                           /\ \A v \in nodes : rank'[v] = rank[v]
      BY <2>1, <2>2, TitlesAdded
    <3>2. NodeCount \in Nat /\ nodes = 1..NodeCount
      BY <2>2 DEF Shape
    <3>3. nodes \subseteq nodes'
      BY <3>1, <3>2
    <3> QED  BY <3>1, <3>3
  <2>4. \A v \in nodes : parents'[v] = parents[v]
    BY <2>1, <2>2, TitlesBelong
  <2>5. Compounds \subseteq Compounds'
    <3>1. DOMAIN parents = nodes /\ DOMAIN parents' = nodes'
      BY <2>2, <2>3 DEF Shape
    <3> QED  BY <2>3, <2>4, <3>1 DEF Compounds
  <2>6. PositionNodes' \subseteq PositionNodes
    BY <2>3, <2>5 DEF PositionNodes
  <2>7. \A v \in PositionNodes' \ nodes : FALSE
    BY <2>6 DEF PositionNodes
  <2> QED  BY <1>3, <2>1, <2>2, <2>3, <2>6, <2>7, FromZeroExtends DEF FromZero
<1>4. CASE BreakEdge
  <2>1. PICK k : k = chained + 1
    OBVIOUS
  <2>2. PICK d : d = [i \in 1..(rank[Target(k)] - rank[Source(k)] - 1) |-> NodeCount + 1 + i - 1]
    OBVIOUS
  <2>3. /\ stage = "chains" /\ Long(k) /\ nodes' = nodes \union ToSet(d) /\ chained < EdgeCount
        /\ parents' = [v \in nodes' |-> IF v \in nodes THEN parents[v] ELSE 0]
        /\ rank' = [v \in nodes' |-> IF v \in nodes THEN rank[v] ELSE rank[Source(k)] + 1 + (v - (NodeCount + 1))]
        /\ unplaced' = unplaced /\ borders' = borders
    BY <1>4, <2>1, <2>2 DEF BreakEdge, nestingVars
  <2>4. Shape /\ ScaffoldKept /\ ChainsInv /\ CompoundsApart
    BY <2>3 DEF ChainsIInv, UpToChains, FramesIInv
  <2>5. k \in Positions
    <3>1. Positions = 1..EdgeCount /\ EdgeCount \in Nat /\ chained \in 0..EdgeCount
      BY <2>4 DEF Shape, Positions, EdgeCount, ChainsInv
    <3> QED  BY <2>1, <2>3, <3>1
  <2>6. k \in Given
    BY <2>3, <2>4, <2>5, LongAreGiven
  <2>7. Source(k) \in PositionNodes
    <3>1. Source(k) \in nodes
      BY <2>4, <2>5, ShapeEnds
    <3>2. Source(k) \in {edges[k].from, edges[k].to}
      BY DEF Source
    <3>3. Source(k) \notin Scaffold /\ Source(k) \notin Compounds
      BY <2>4, <2>6, <3>2 DEF Given, CompoundsApart
    <3> QED  BY <3>1, <3>3 DEF PositionNodes, Scaffold, Added
  <2>8. rank[Source(k)] >= 0 /\ rank[Source(k)] \in Int /\ NodeCount \in Nat
    BY <2>3, <2>4, <2>7 DEF FromZero, Shape, PositionNodes
  <2>9. ASSUME NEW v \in nodes' \ nodes PROVE rank'[v] >= 0
    <3>1. v \in ToSet(d)
      BY <2>3, <2>9
    <3>2. PICK i \in DOMAIN d : v = d[i]
      BY <3>1 DEF ToSet
    <3>3. i \in Nat /\ i >= 1 /\ v = NodeCount + 1 + i - 1
      BY <2>2, <3>2
    <3>4. rank'[v] = rank[Source(k)] + 1 + (v - (NodeCount + 1))
      BY <2>3, <2>9
    <3>5. PICK n \in Nat : n = NodeCount
      BY <2>8
    <3>6. PICK s \in Int : s = rank[Source(k)]
      BY <2>8
    <3>7. s >= 0 /\ v = n + 1 + i - 1 /\ rank'[v] = s + 1 + (v - (n + 1))
      BY <2>8, <3>3, <3>4, <3>5, <3>6
    <3> QED  BY <3>3, <3>7
  <2>10. Compounds \subseteq Compounds'
    <3>1. DOMAIN parents = nodes /\ DOMAIN parents' = nodes' /\ \A v \in nodes : parents'[v] = parents[v]
      BY <2>3, <2>4 DEF Shape
    <3> QED  BY <2>3, <3>1 DEF Compounds
  <2>11. PositionNodes' \intersect nodes \subseteq PositionNodes
    BY <2>3, <2>10 DEF PositionNodes
  <2>12. PositionNodes' \ nodes \subseteq nodes' \ nodes
    BY DEF PositionNodes
  <2>13. \A v \in nodes : rank'[v] = rank[v]
    BY <2>3
  <2> QED  BY <2>3, <2>4, <2>9, <2>11, <2>12, <2>13, FromZeroExtends DEF FromZero
<1>5. CASE AssignParents
  <2>1. stage = "parents" /\ UNCHANGED <<nodes, unplaced, rank, borders>>
    BY <1>5 DEF AssignParents, graphVars, simplexVars, nestingVars
  <2>2. Shape /\ CompoundsApart /\ ChainsStand /\ DOMAIN borders = Compounds
    BY <2>1 DEF FramesIInv, AfterRanking
  <2>3. Compounds' = Compounds
    BY <1>5, <2>2, ParentsAssigned
  <2> QED  BY <2>1, <2>3 DEF FromZero, PositionNodes, MinRank
<1>6. CASE Rebuild \/ KeepEdge \/ (Unframe /\ stage = "climbing") \/ LayeringDone \/ UNCHANGED layeringVars
  <2>1. /\ UNCHANGED <<nodes, parents, unplaced, rank, borders>>
        /\ stage' \in {"titles", "climbing", "chains", "parents", "order"} =>
             stage \in {"titles", "climbing", "chains", "parents", "order"}
    <3>1. CASE Rebuild
      BY <3>1 DEF Rebuild, graphVars, compoundVars, simplexVars
    <3>2. CASE KeepEdge
      BY <3>2 DEF KeepEdge, graphVars, compoundVars, simplexVars, nestingVars
    <3>3. CASE Unframe /\ stage = "climbing"
      BY <3>3 DEF Unframe, MarkClimbing, compoundVars, simplexVars, nestingVars
    <3>4. CASE LayeringDone \/ UNCHANGED layeringVars
      BY <3>4 DEF LayeringDone, layeringVars, graphVars, compoundVars, simplexVars, nestingVars
    <3> QED  BY <1>6, <3>1, <3>2, <3>3, <3>4
  <2> QED  BY <2>1 DEF FromZero, PositionNodes, MinRank, Compounds
<1>7. CASE ExtractSelfEdges \/ Search \/ EndSearch \/ CompoundFeedback \/ MakeSpace \/ FrameCompounds
           \/ Rank \/ (Unframe /\ stage = "rank")
  <2>1. stage' \notin {"titles", "climbing", "chains", "parents", "order"}
    <3>1. CASE ExtractSelfEdges \/ Search \/ EndSearch \/ CompoundFeedback \/ MakeSpace \/ FrameCompounds
      BY <3>1 DEF ExtractSelfEdges, Search, EndSearch, CompoundFeedback, MakeSpace, FrameCompounds
    <3>2. CASE Rank \/ (Unframe /\ stage = "rank")
      BY <3>2 DEF Rank, Unframe
    <3> QED  BY <1>7, <3>1, <3>2
  <2> QED  BY <2>1 DEF FromZero
<1>8. Unframe => stage \in {"rank", "clean_up", "titles", "climbing"}
  BY DEF Unframe
<1> QED  BY <1>1, <1>2, <1>3, <1>4, <1>5, <1>6, <1>7, <1>8 DEF LayeringNext

\* and there are none to begin with.
LEMMA InitIsFromZero == LayeringInit => FromZero
  BY DEF LayeringInit, FromZero

\* Both ends of every link stand on a rank.
EndsPlaced ==
  \A i \in DOMAIN graph.links : /\ graph.rank[graph.links[i].from] \in DOMAIN layers
                                /\ graph.rank[graph.links[i].to] \in DOMAIN layers

\* Hence links end on ranks that have a layer.
LEMMA EndsAdded ==
  ASSUME OrderGround, \A v \in PositionNodes : rank[v] >= 0, \A c \in Compounds : MinRank(c) >= 0, AddSegments
  PROVE  EndsPlaced'
<1>1. PICK g : g = graph'
  OBVIOUS
<1>2. g.rank = AllRanks /\ g.links = AllLinks
  BY <1>1, GraphAdded
<1>3. /\ IsFiniteSet(AllNodes) /\ AllRanks \in [AllNodes -> Int] /\ AllPlaced \in SUBSET AllNodes
  BY AllNodesAre
<1>4. ASSUME NEW v \in AllPlaced PROVE AllRanks[v] \in Int /\ AllRanks[v] >= 0
  <2>1. AllRanks[v] \in Int
    BY <1>3
  <2>2. CASE v \in nodes
    <3>1. AllRanks[v] = rank[v]
      BY <2>2, AllNodesAre
    <3>2. v \notin SideNodes
      BY <2>2, SideNodesAre
    <3>3. v \in PositionNodes
      BY <3>2 DEF AllPlaced
    <3> QED  BY <2>1, <3>1, <3>3
  <2>3. CASE v \notin nodes
    <3>1. v \in SideNodes
      BY <2>3 DEF AllPlaced, PositionNodes
    <3>2. PICK p \in Spots : p = SpotOf(v)
      BY <3>1, SideNodesAre
    <3>3. AllRanks[v] = p[2]
      BY <2>3, <3>1, <3>2 DEF AllRanks, AllNodes
    <3>4. p[1] \in Compounds /\ p[2] \in MinRank(p[1])..MaxRank(p[1])
      BY SideNodesAre
    <3>5. MinRank(p[1]) \in Int /\ MinRank(p[1]) >= 0
      BY <3>4 DEF OrderGround
    <3> QED  BY <3>3, <3>4, <3>5
  <2> QED  BY <2>2, <2>3
<1> DEFINE f == [v \in AllPlaced |-> AllRanks[v]]
           S == {f[v] : v \in AllPlaced}
<1>5. S = {AllRanks[v] : v \in AllPlaced} /\ S \in SUBSET Int /\ \A v \in AllPlaced : AllRanks[v] \in S
  BY <1>4
<1>6. IsFiniteSet(S)
  <2>1. IsFiniteSet(AllPlaced)
    BY <1>3, FS_Subset
  <2>2. DOMAIN f = AllPlaced
    OBVIOUS
  <2> HIDE DEF f
  <2> QED  BY <2>1, <2>2, FiniteImage
<1> HIDE DEF S
<1>7. PICK T : T = {0} \union S
  OBVIOUS
<1>8. IsFiniteSet(T) /\ T \in SUBSET Int /\ T # {} /\ S \subseteq T
  <2>1. T = S \union {0}
    BY <1>7
  <2>2. IsFiniteSet(T)
    BY <1>6, <2>1, FS_AddElement
  <2> QED  BY <1>5, <2>1, <2>2
<1>9. PICK n \in Int : n = Max(T) /\ \A y \in T : n >= y
  BY <1>8, GreatestInteger
<1>10. DOMAIN layers' = 0..n
  <2>1. {0} \union {AllRanks[v] : v \in AllPlaced} = T
    BY <1>5, <1>7
  <2> QED  BY <1>9, <2>1, GraphAdded
<1>11. \A v \in AllPlaced : AllRanks[v] \in 0..n
  BY <1>4, <1>5, <1>8, <1>9
<1>12. ASSUME NEW i \in DOMAIN AllLinks PROVE AllLinks[i].from \in AllPlaced /\ AllLinks[i].to \in AllPlaced
  <2> DEFINE M == LowLinks \union SideSteps
  <2>1. PICK l \in M : l = AllLinks[i]
    <3>1. AllLinks \in Seq(M)
      BY AllLinksAre
    <3> HIDE DEF M
    <3> QED  BY <3>1, EntryOf
  <2> QED  BY <2>1 DEF LowLinks, SideSteps, AllPlaced
<1>13. \A i \in DOMAIN g.links : g.rank[g.links[i].from] \in 0..n /\ g.rank[g.links[i].to] \in 0..n
  BY <1>2, <1>11, <1>12
<1> QED  BY <1>1, <1>10, <1>13 DEF EndsPlaced
-----------------------------------------------------------------------------
(* All of it together.                                                     *)

\* The links of the graph that crossing reduction works on lead down one rank at most, and from and to
\* ranks that it orders.
LinksHeld == step \in {"init", "sweep", "judge", "switch"} => LinksLow /\ EndsPlaced

\* The invariant of the ordering phase.
OrderingIInv == OrderHeld /\ LinksHeld

\* Steps that leave the ordering alone keep it,
LEMMA HeldSteady ==
  ASSUME OrderHeld, Steady,
         UNCHANGED <<step, turn, constraints, order, at, slot, row, best, sinceBest>>
  PROVE  OrderHeld'
<1>1. GraphShape' = GraphShape /\ LayersOK' = LayersOK /\ TwoAbreast' = TwoAbreast /\ LastRank' = LastRank
      /\ Inner' = Inner
  BY SteadyShape
<1>2. SweptRanks' = SweptRanks /\ layers' = layers /\ Downward' = Downward
  BY <1>1 DEF SweptRanks, Steady, Downward
<1>3. ASSUME TwoAbreast, Sweeping PROVE SweepHeld'
  <2>1. SweepHeld
    BY <1>3 DEF OrderHeld
  <2>2. PICK o : o = order
    OBVIOUS
  <2>3. PICK p : p = best.order
    OBVIOUS
  <2>4. PICK Q : Q = constraints
    OBVIOUS
  <2>5. PICK S : S = SweptRanks
    OBVIOUS
  <2>6. PlacesOK(o) /\ SweptOK(o, Q, S) /\ order' = o /\ constraints' = Q /\ SweptRanks' = S /\ best'.order = p
    BY <1>2, <2>1, <2>2, <2>3, <2>4, <2>5 DEF SweepHeld
  <2>7. PlacesOK(order)' /\ SweptOK(order, constraints, SweptRanks)'
    BY <2>6, SteadyPlaces, SteadySwept
  <2>8. turn > 0 => PlacesOK(p) /\ \A r \in Inner : CompactOn(p, r)
    BY <2>1, <2>3 DEF SweepHeld
  <2>9. turn > 0 => PlacesOK(best.order)' /\ (\A r \in Inner : CompactOn(best.order, r))'
    BY <2>6, <2>8, SteadyPlaces, SteadyCompact
  <2> QED  BY <1>1, <1>2, <2>1, <2>7, <2>9 DEF SweepHeld
<1>4. ASSUME TwoAbreast, step = "switch" PROVE SwitchHeld'
  <2>1. SwitchHeld
    BY <1>4 DEF OrderHeld
  <2>2. PICK o : o = order
    OBVIOUS
  <2>3. PICK w : w = row
    OBVIOUS
  <2>4. PICK r : r = at
    OBVIOUS
  <2>5. PlacesOK(o) /\ (\A q \in Inner : CompactOn(o, q)) /\ RowOK(w, r, o) /\ order' = o /\ at' = r /\ row' = w
    BY <2>1, <2>2, <2>3, <2>4 DEF SwitchHeld
  <2>6. PlacesOK(order)' /\ (\A q \in Inner : CompactOn(order, q))' /\ RowOK(row, at, order)'
    BY <2>5, SteadyPlaces, SteadyCompact, SteadyRow
  <2> QED  BY <1>2, <2>1, <2>6 DEF SwitchHeld
<1> QED  BY <1>1, <1>3, <1>4 DEF OrderHeld, Sweeping

\* and what is said of the links.
LEMMA LinksSteady ==
  ASSUME LinksHeld, graph' = graph, DOMAIN layers' = DOMAIN layers, step' \in {"init", "sweep", "judge", "switch"} =>
                                      step \in {"init", "sweep", "judge", "switch"}
  PROVE  LinksHeld'
<1>1. LinksLow' = LinksLow
  BY DEF LinksLow
<1>2. EndsPlaced' = EndsPlaced
  BY DEF EndsPlaced
<1> QED  BY <1>1, <1>2 DEF LinksHeld

\* Every step of the ordering keeps it,
LEMMA OrderingStepHolds ==
  ASSUME OrderingIInv, OrderingNext
  PROVE  OrderingIInv'
<1>1. CASE InitOrder
  <2>1. OrderHeld'
    BY <1>1, InitOrdered DEF OrderingIInv
  <2>2. LinksHeld'
    BY <1>1, LinksSteady DEF OrderingIInv, InitOrder
  <2> QED  BY <2>1, <2>2 DEF OrderingIInv
<1>2. CASE SortRank
  <2>1. OrderHeld'
    BY <1>2, RankSorted DEF OrderingIInv
  <2>2. LinksHeld'
    BY <1>2, LinksSteady DEF OrderingIInv, SortRank
  <2> QED  BY <2>1, <2>2 DEF OrderingIInv
<1>3. CASE Judge
  <2>1. OrderHeld'
    BY <1>3, Judged DEF OrderingIInv
  <2>2. LinksHeld'
    BY <1>3, LinksSteady DEF OrderingIInv, Judge
  <2> QED  BY <2>1, <2>2 DEF OrderingIInv
<1>4. CASE Switch
  <2>1. OrderHeld'
    BY <1>4, Switched DEF OrderingIInv
  <2>2. LinksHeld'
    BY <1>4, LinksSteady DEF OrderingIInv, Switch
  <2> QED  BY <2>1, <2>2 DEF OrderingIInv
<1>5. CASE InsertLoop
  <2>1. step' = "loops"
    BY <1>5 DEF InsertLoop
  <2> QED  BY <2>1 DEF OrderingIInv, OrderHeld, LinksHeld, Sweeping
<1> QED  BY <1>1, <1>2, <1>3, <1>4, <1>5 DEF OrderingNext

\* A step of the whole pipeline, with what the phases before hold.
LEMMA OrderingInductive ==
  FramesIInv /\ LinksRead /\ FromZero /\ OrderingIInv /\ [LayoutNext \/ LayoutDone]_layoutVars => OrderingIInv'
<1> SUFFICES ASSUME FramesIInv, LinksRead, FromZero, OrderingIInv, [LayoutNext \/ LayoutDone]_layoutVars
             PROVE  OrderingIInv'
  OBVIOUS
<1>1. ASSUME graph' = graph, UNCHANGED <<step, layers, order, at, passVars, sweepVars>> PROVE OrderingIInv'
  <2>1. Steady /\ UNCHANGED <<step, turn, constraints, order, at, slot, row, best, sinceBest>>
    BY <1>1 DEF Steady, passVars, sweepVars
  <2>2. OrderHeld'
    BY <2>1, HeldSteady DEF OrderingIInv
  <2>3. LinksHeld'
    BY <1>1, LinksSteady DEF OrderingIInv
  <2> QED  BY <2>2, <2>3 DEF OrderingIInv
<1>2. CASE Prepare
  BY <1>1, <1>2 DEF Prepare
<1>3. CASE AddSegments
  <2>1. OrderGround
    BY <1>3, GroundIs DEF AddSegments
  <2>2. GraphShape' /\ LinksLow' /\ LayersOK'
    BY <1>3, <2>1, ShapeAdded, LayersAdded
  <2>4. EndsPlaced'
    <3>1. stage = "order"
      BY <1>3 DEF AddSegments
    <3>2. DOMAIN borders = Compounds
      BY <3>1 DEF FramesIInv, AfterRanking
    <3>3. (\A v \in PositionNodes : rank[v] >= 0) /\ \A c \in Compounds : MinRank(c) >= 0
      BY <3>1, <3>2 DEF FromZero
    <3> QED  BY <1>3, <2>1, <3>3, EndsAdded
  <2>3. step' = "init" /\ turn' = turn /\ constraints' = constraints /\ turn = 0 /\ constraints = <<>>
    BY <1>3 DEF AddSegments, sweepVars, OrderingIInv, OrderHeld
  <2> QED  BY <2>2, <2>3, <2>4 DEF OrderingIInv, OrderHeld, LinksHeld, Sweeping
<1>4. CASE Order
  BY <1>4, OrderingStepHolds DEF Order
<1>5. CASE UNCHANGED layoutVars
  BY <1>1, <1>5 DEF layoutVars, orderingVars
<1> QED  BY <1>2, <1>3, <1>4, <1>5 DEF LayoutNext, LayoutDone

\* and it holds when nothing is ordered yet.
LEMMA InitIsOrdered == LayoutInit => OrderingIInv
  BY DEF LayoutInit, OrderingStart, OrderingIInv, OrderHeld, LinksHeld, Sweeping

\* For the phases before the ordering, a step of the pipeline is one of theirs or none.
LEMMA LayoutStepLayers == [LayoutNext \/ LayoutDone]_layoutVars => [LayeringNext \/ LayeringDone]_layeringVars
<1> SUFFICES ASSUME [LayoutNext \/ LayoutDone]_layoutVars PROVE LayeringNext \/ UNCHANGED layeringVars
  OBVIOUS
<1>1. CASE Prepare
  BY <1>1 DEF Prepare
<1>2. CASE AddSegments
  BY <1>2 DEF AddSegments
<1>3. CASE Order
  BY <1>3 DEF Order
<1>4. CASE UNCHANGED layoutVars
  BY <1>4 DEF layoutVars
<1> QED  BY <1>1, <1>2, <1>3, <1>4 DEF LayoutNext, LayoutDone

\* All that the pipeline keeps.
LayoutIInv == RankingIInv /\ ChainsIInv /\ FramesIInv /\ LinksRead /\ FromZero /\ OrderingIInv

\* Every step keeps it,
LEMMA LayoutInductive == LayoutIInv /\ [LayoutNext \/ LayoutDone]_layoutVars => LayoutIInv'
<1> SUFFICES ASSUME LayoutIInv, [LayoutNext \/ LayoutDone]_layoutVars PROVE LayoutIInv'
  OBVIOUS
<1>1. [LayeringNext \/ LayeringDone]_layeringVars
  BY LayoutStepLayers
<1>2. RankingIInv /\ ChainsIInv /\ FramesIInv /\ LinksRead /\ FromZero /\ OrderingIInv
  BY DEF LayoutIInv
<1>3. RankingIInv'
  BY <1>1, <1>2, RankingInductive
<1>4. ChainsIInv'
  BY <1>1, <1>2, <1>3, ChainsInductive
<1>5. FramesIInv'
  BY <1>1, <1>2, <1>3, <1>4, FramesInductive
<1>6. LinksRead'
  BY <1>1, <1>2, LinksReadInductive
<1>7. FromZero'
  BY <1>1, <1>2, FromZeroInductive
<1>8. OrderingIInv'
  BY <1>2, OrderingInductive
<1> QED  BY <1>3, <1>4, <1>5, <1>6, <1>7, <1>8 DEF LayoutIInv

\* It holds to begin with,
LEMMA InitIsLayout == LayoutInit => LayoutIInv
  BY InitIsRanked, InitIsShaped, InitIsApart, InitIsRead, InitIsFromZero, InitIsOrdered DEF LayoutInit, LayoutIInv

\* and so it always holds.
LEMMA LayoutHolds == LayoutSpec => []LayoutIInv
  BY InitIsLayout, LayoutInductive, PTL DEF LayoutSpec

\* A node that is no stray is one that sort_subgraph gets to.
LEMMA NoStray ==
  ASSUME LayersOK, NEW r \in DOMAIN layers, NEW v \in ToSet(layers[r]), v \in DOMAIN order, v \notin Strays
  PROVE  \A d \in Ups(v) : Spans(d, r)
<1>1. graph.rank[v] = r
  BY DEF LayersOK
<1>2. ~\E k \in DOMAIN PathUp(v) : ~Spans(PathUp(v)[k], graph.rank[v])
  BY DEF Strays
<1> QED  BY <1>1, <1>2 DEF Ups, ToSet

\* The ordering's invariant gives the order of every rank.
LEMMA OrderHeldRanks == OrderHeld => RanksAreOrdered
<1> SUFFICES ASSUME OrderHeld, Sweeping \/ step = "switch", TwoAbreast,
                    NEW r \in DOMAIN layers, ToSet(layers[r]) \intersect Strays = {}
             PROVE  {order[v] : v \in ToSet(layers[r])} = 0..(Cardinality(ToSet(layers[r])) - 1)
  BY DEF RanksAreOrdered
<1>1. LayersOK
  BY DEF OrderHeld, Sweeping
<1>2. PlacesOK(order)
  BY DEF OrderHeld, SweepHeld, SwitchHeld
<1>3. Under(0, r) = ToSet(layers[r])
  <2>1. \A v \in ToSet(layers[r]) : v \in DOMAIN order /\ v \notin Strays
    BY <1>2 DEF PlacesOK
  <2>2. \A v \in ToSet(layers[r]) : \A d \in Ups(v) : Spans(d, r)
    BY <1>1, <2>1, NoStray
  <2> QED  BY <2>2 DEF Under
<1> QED  BY <1>2, <1>3 DEF PlacesOK

\* Crossing reduction numbers the nodes of a rank without gaps: sort_subgraph gives back every
\* node that it is given, once, however entries swallow each other.
THEOREM RanksOrdered == LayoutSpec => []RanksAreOrdered
<1>1. LayoutIInv => RanksAreOrdered
  BY OrderHeldRanks DEF LayoutIInv, OrderingIInv
<1> QED  BY <1>1, LayoutHolds, PTL

\* Without strays a compound's nodes on a rank are those that sort_subgraph finds in it.
LEMMA FrameReached ==
  ASSUME GraphShape, LayersOK, PlacesOK(order), Strays = {}, NEW c \in CompoundsOf(graph),
         NEW r \in DOMAIN graph.sides[c] \intersect Inner
  PROVE  /\ r \in DOMAIN layers /\ Reached(c, r) /\ Within(c, r) = Under(c, r)
         /\ graph.sides[c][r][1] \in Under(c, r) /\ graph.sides[c][r][2] \in Under(c, r)
         /\ \A v \in Under(c, r) : order[v] \in Nat
<1>1. LastRank \in Nat /\ DOMAIN layers = 0..LastRank
  BY LastRankIs
<1>2. r \in 1..(LastRank - 1)
  BY DEF Inner
<1>3. r \in DOMAIN layers
  BY <1>1, <1>2
<1>4. \A v \in ToSet(layers[r]) : v \in DOMAIN order /\ order[v] \in Nat
  BY <1>3 DEF PlacesOK
<1>5. \A v \in ToSet(layers[r]) : \A d \in Ups(v) : Spans(d, r)
  BY <1>3, <1>4, NoStray
<1>6. PICK a, b \in NodesOf(graph) \ CompoundsOf(graph) :
        graph.sides[c][r] = <<a, b>> /\ graph.parents[a] = c /\ graph.parents[b] = c
  BY DEF GraphShape
<1>7. a \in ToSet(layers[r]) /\ b \in ToSet(layers[r])
  <2>1. ToSet(graph.sides[c][r]) \subseteq ToSet(layers[r])
    BY <1>3 DEF LayersOK
  <2>2. ToSet(graph.sides[c][r]) = {a, b}
    BY <1>6 DEF ToSet
  <2> QED  BY <2>1, <2>2
<1>8. ForestOK /\ c # 0
  BY DEF GraphShape, ForestOK
<1>9. Ups(a) = {c} \union Ups(c) /\ Ups(b) = {c} \union Ups(c)
  BY <1>6, <1>8, UpsAre
<1>10. Reached(c, r)
  BY <1>5, <1>7, <1>8, <1>9 DEF Reached
<1>11. Within(c, r) = Under(c, r)
  BY <1>5, <1>8 DEF Within, Under, Ups
<1>12. a \in Under(c, r) /\ b \in Under(c, r)
  BY <1>5, <1>7, <1>9 DEF Under
<1>13. \A v \in Under(c, r) : order[v] \in Nat
  BY <1>4 DEF Under
<1> QED  BY <1>3, <1>6, <1>10, <1>11, <1>12, <1>13

\* Hence the ordering's invariant gives the frames that stand together.
LEMMA OrderHeldFrames == OrderHeld => FramesStandTogether
<1> SUFFICES ASSUME OrderHeld, step \in {"judge", "switch"}, Strays = {}, TwoAbreast,
                    NEW c \in CompoundsOf(graph)
             PROVE
      /\ \A r \in DOMAIN graph.sides[c] \intersect Inner :
           LET places == {order[v] : v \in Within(c, r)}
           IN  /\ Max(places) - Min(places) = Cardinality(places) - 1
               /\ step = "judge" =>
                    /\ order[graph.sides[c][r][1]] = Min(places)
                    /\ order[graph.sides[c][r][2]] = Max(places)
      /\ step = "judge" =>
           \A d \in CompoundsOf(graph) \ {c} :
             graph.parents[d] = graph.parents[c] =>
               \A r, q \in DOMAIN graph.sides[c] \intersect DOMAIN graph.sides[d] \intersect Inner :
                 LeftOf(c, d, r) = LeftOf(c, d, q)
  BY DEF FramesStandTogether
<1>1. GraphShape /\ LayersOK /\ PlacesOK(order)
  BY DEF OrderHeld, SweepHeld, SwitchHeld, Sweeping
<1>2. step = "judge" => SweptOK(order, constraints, SweptRanks) /\ Inner \subseteq SweptRanks
  <2> SUFFICES ASSUME step = "judge" PROVE SweptOK(order, constraints, SweptRanks) /\ Inner \subseteq SweptRanks
    OBVIOUS
  <2>1. SweepHeld
    BY DEF OrderHeld, Sweeping
  <2>2. LastRank \in Nat /\ DOMAIN layers = 0..LastRank
    BY <1>1, LastRankIs
  <2>3. Inner \subseteq SweptRanks
    BY <2>2 DEF Inner, SweptRanks
  <2> QED  BY <2>1, <2>3 DEF SweepHeld
<1>3. step = "switch" => \A r \in Inner : CompactOn(order, r)
  BY DEF OrderHeld, SwitchHeld
<1>4. ASSUME NEW r \in DOMAIN graph.sides[c] \intersect Inner
      PROVE  /\ Max({order[v] : v \in Within(c, r)}) - Min({order[v] : v \in Within(c, r)})
                  = Cardinality({order[v] : v \in Within(c, r)}) - 1
             /\ step = "judge" => /\ order[graph.sides[c][r][1]] = Min({order[v] : v \in Within(c, r)})
                                  /\ order[graph.sides[c][r][2]] = Max({order[v] : v \in Within(c, r)})
  <2>1. Reached(c, r) /\ Within(c, r) = Under(c, r)
    BY <1>1, FrameReached
  <2>2. PICK P : P = {order[v] : v \in Within(c, r)}
    OBVIOUS
  <2>3. PICK b, e \in Nat : /\ b < e /\ P = b..e
                            /\ step = "judge" => order[graph.sides[c][r][1]] = b /\ order[graph.sides[c][r][2]] = e
    <3>1. CASE step = "judge"
      <4>1. PICK b, e : FrameOn(order, c, r, b, e)
        BY <1>2, <2>1, <3>1 DEF SweptOK, TogetherOn
      <4> QED  BY <2>1, <2>2, <4>1 DEF FrameOn
    <3>2. CASE step = "switch"
      BY <1>3, <2>1, <2>2, <3>2 DEF CompactOn
    <3> QED  BY <3>1, <3>2
  <2>4. Min(P) = b /\ Max(P) = e /\ Max(P) - Min(P) = Cardinality(P) - 1
    <3>1. b \in Int /\ e \in Int /\ b <= e
      BY <2>3
    <3>2. P = b..e
      BY <2>3
    <3> QED  BY <3>1, <3>2, IntervalEnds
  <2> QED  BY <2>2, <2>3, <2>4
<1>5. ASSUME step = "judge", NEW d \in CompoundsOf(graph) \ {c}, graph.parents[d] = graph.parents[c],
             NEW r \in DOMAIN graph.sides[c] \intersect DOMAIN graph.sides[d] \intersect Inner,
             NEW q \in DOMAIN graph.sides[c] \intersect DOMAIN graph.sides[d] \intersect Inner
      PROVE  LeftOf(c, d, r) = LeftOf(c, d, q)
  <2>1. Mates(c, d)
    BY <1>5 DEF Mates
  <2>2. r \in Inner /\ q \in Inner /\ r \in SweptRanks /\ q \in SweptRanks /\ SweptOK(order, constraints, SweptRanks)
    BY <1>2, <1>5
  <2>3. \A s \in {r, q} : /\ s \in SweptRanks /\ Reached(c, s) /\ Reached(d, s)
                          /\ graph.sides[c][s][1] \in Under(c, s) /\ graph.sides[c][s][2] \in Under(c, s)
                          /\ graph.sides[d][s][1] \in Under(d, s) /\ graph.sides[d][s][2] \in Under(d, s)
                          /\ order[graph.sides[c][s][1]] \in Nat /\ order[graph.sides[c][s][2]] \in Nat
                          /\ order[graph.sides[d][s][1]] \in Nat /\ order[graph.sides[d][s][2]] \in Nat
    <3> TAKE s \in {r, q}
    <3>1. s \in DOMAIN graph.sides[c] \intersect Inner /\ s \in DOMAIN graph.sides[d] \intersect Inner
      OBVIOUS
    <3>2. d \in CompoundsOf(graph)
      OBVIOUS
    <3>3. /\ Reached(c, s) /\ graph.sides[c][s][1] \in Under(c, s) /\ graph.sides[c][s][2] \in Under(c, s)
          /\ \A v \in Under(c, s) : order[v] \in Nat
      BY <1>1, <3>1, FrameReached
    <3>4. /\ Reached(d, s) /\ graph.sides[d][s][1] \in Under(d, s) /\ graph.sides[d][s][2] \in Under(d, s)
          /\ \A v \in Under(d, s) : order[v] \in Nat
      BY <1>1, <3>1, <3>2, FrameReached
    <3> QED  BY <2>2, <3>3, <3>4
  <2>4. <<c, d>> \in ToSet(constraints) \/ <<d, c>> \in ToSet(constraints)
    BY <2>1, <2>2, <2>3 DEF SweptOK
  <2>5. ASSUME <<c, d>> \in ToSet(constraints), NEW s \in {r, q} PROVE LeftOf(c, d, s)
    <3>1. LeftHand(order, c, d, s)
      BY <2>2, <2>3, <2>5 DEF SweptOK
    <3> QED  BY <2>3, <3>1 DEF LeftHand, LeftOf
  <2>6. ASSUME <<d, c>> \in ToSet(constraints), NEW s \in {r, q} PROVE ~LeftOf(c, d, s)
    <3>1. LeftHand(order, d, c, s)
      BY <2>2, <2>3, <2>6 DEF SweptOK
    <3>2. order[graph.sides[d][s][1]] < order[graph.sides[c][s][2]]
      BY <2>3, <3>1 DEF LeftHand
    <3>3. order[graph.sides[d][s][1]] \in Nat /\ order[graph.sides[c][s][2]] \in Nat
      BY <2>3
    <3> QED  BY <3>2, <3>3 DEF LeftOf
  <2>7. LeftOf(c, d, r) \in BOOLEAN /\ LeftOf(c, d, q) \in BOOLEAN
    BY DEF LeftOf
  <2> QED  BY <2>4, <2>5, <2>6, <2>7
<1> QED  BY <1>4, <1>5

\* Frames stand together on every inner rank and keep their sides of each other, however deep the
\* compounds nest and whatever greedy_switch exchanges afterwards.
THEOREM FramesTogether == LayoutSpec => []FramesStandTogether
<1>1. LayoutIInv => FramesStandTogether
  BY OrderHeldFrames DEF LayoutIInv, OrderingIInv
<1> QED  BY <1>1, LayoutHolds, PTL
-----------------------------------------------------------------------------
(* greedy_switch counts the crossings that a switch changes.               *)

\* The upper and the lower ends of the links between consecutive ranks.
HighEnds == [i \in Indexed |-> graph.links[i].from]
LowEnds == [i \in Indexed |-> graph.links[i].to]

\* They are on consecutive ranks, each listed in its layer.
LEMMA IndexedAre ==
  ASSUME GraphShape, LayersOK, LinksLow, EndsPlaced
  PROVE  /\ IsFiniteSet(Indexed)
         /\ \A i \in Indexed : /\ Upper(i) = HighEnds[i] /\ Lower(i) = LowEnds[i]
                               /\ graph.rank[HighEnds[i]] \in Int
                               /\ graph.rank[LowEnds[i]] = graph.rank[HighEnds[i]] + 1
         /\ \A v \in Ends(Indexed, HighEnds, LowEnds) :
              graph.rank[v] \in DOMAIN layers /\ v \in ToSet(layers[graph.rank[v]])
<1>1. IsFiniteSet(DOMAIN graph.links)
  <2>1. DOMAIN graph.links = 1..Len(graph.links) /\ Len(graph.links) \in Nat
    BY ListMembers DEF GraphShape
  <2> QED  BY <2>1, FS_Interval
<1>2. Indexed \in SUBSET DOMAIN graph.links
  BY DEF Indexed
<1>3. IsFiniteSet(Indexed)
  BY <1>1, <1>2, FS_Subset
<1>4. ASSUME NEW i \in Indexed
      PROVE  /\ Upper(i) = HighEnds[i] /\ Lower(i) = LowEnds[i]
             /\ graph.rank[HighEnds[i]] \in Int
             /\ graph.rank[LowEnds[i]] = graph.rank[HighEnds[i]] + 1
  <2>1. HighEnds[i] = graph.links[i].from /\ LowEnds[i] = graph.links[i].to
    BY DEF HighEnds, LowEnds
  <2>2. i \in DOMAIN graph.links /\ Downwards(i)
    BY DEF Indexed
  <2>3. PICK x, y : x = graph.rank[graph.links[i].from] /\ y = graph.rank[graph.links[i].to]
    OBVIOUS
  <2> DEFINE M == [from : NodesOf(graph) \ CompoundsOf(graph), to : NodesOf(graph) \ CompoundsOf(graph)]
  <2>8. graph.links \in Seq(M) /\ graph.rank \in [NodesOf(graph) -> Int]
    BY DEF GraphShape
  <2> HIDE DEF M
  <2>4. graph.links[i] \in M
    BY <2>2, <2>8, EntryOf
  <2> USE DEF M
  <2>9. graph.links[i].from \in NodesOf(graph) /\ graph.links[i].to \in NodesOf(graph)
    BY <2>4
  <2>5. x \in Int /\ y \in Int
    BY <2>3, <2>8, <2>9
  <2>6. x < y /\ y <= x + 1
    BY <2>2, <2>3 DEF Downwards, LinksLow
  <2>7. y = x + 1
    BY <2>5, <2>6
  <2> QED  BY <2>1, <2>2, <2>3, <2>5, <2>7 DEF Upper, Lower
<1>5. ASSUME NEW v \in Ends(Indexed, HighEnds, LowEnds)
      PROVE  graph.rank[v] \in DOMAIN layers /\ v \in ToSet(layers[graph.rank[v]])
  <2>1. PICK i \in DOMAIN graph.links : v = graph.links[i].from \/ v = graph.links[i].to
    BY <1>2 DEF Ends, HighEnds, LowEnds
  <2>2. graph.rank[v] \in DOMAIN layers
    BY <2>1 DEF EndsPlaced
  <2> QED  BY <2>1, <2>2 DEF LayersOK
<1> QED  BY <1>3, <1>4, <1>5

\* Hence the crossings the pass counts,
LEMMA CrossingsAre ==
  ASSUME GraphShape, LayersOK, LinksLow, EndsPlaced, NEW o
  PROVE  CrossingsAmong(Indexed, o) = Cardinality(Wrong(Indexed, HighEnds, LowEnds, graph.rank, o))
<1> DEFINE I == Indexed
           high == [i \in I |-> Upper(i)]
           low == [i \in I |-> Lower(i)]
           joined == {i \in I : graph.rank[low[i]] = graph.rank[high[i]] + 1}
           X == {x \in joined \X joined :
                   /\ graph.rank[high[x[1]]] = graph.rank[high[x[2]]]
                   /\ o[high[x[1]]] < o[high[x[2]]]
                   /\ o[low[x[1]]] > o[low[x[2]]]}
<1>1. CrossingsAmong(I, o) = Cardinality(X)
  BY DEF CrossingsAmong
<1>2. \A i \in I : high[i] = HighEnds[i] /\ low[i] = LowEnds[i]
  BY IndexedAre
<1> HIDE DEF high, low
<1>3. joined = I
  BY <1>2, IndexedAre
<1>4. X = Wrong(I, HighEnds, LowEnds, graph.rank, o)
  BY <1>2, <1>3 DEF Wrong
<1> QED  BY <1>1, <1>4

\* and those of two nodes,
LEMMA PairCrossingsAre ==
  ASSUME GraphShape, LayersOK, LinksLow, EndsPlaced, NEW a, NEW b
  PROVE  PairCrossings(a, b) = Cardinality(WrongOf(Indexed, HighEnds, LowEnds, order, a, b))
                             + Cardinality(WrongOf(Indexed, LowEnds, HighEnds, order, a, b))
<1> DEFINE below(v) == {i \in Indexed : graph.links[i].from = v}
           above(v) == {i \in Indexed : graph.links[i].to = v}
           B == {x \in below(a) \X below(b) : order[Lower(x[1])] > order[Lower(x[2])]}
           A == {x \in above(a) \X above(b) : order[Upper(x[1])] > order[Upper(x[2])]}
<1>1. PairCrossings(a, b) = Cardinality(B) + Cardinality(A)
  BY DEF PairCrossings
<1>2. \A i \in Indexed : /\ Upper(i) = HighEnds[i] /\ Lower(i) = LowEnds[i]
                         /\ HighEnds[i] = graph.links[i].from /\ LowEnds[i] = graph.links[i].to
  BY IndexedAre DEF HighEnds, LowEnds
<1>3. B = WrongOf(Indexed, HighEnds, LowEnds, order, a, b)
  BY <1>2 DEF WrongOf
<1>4. A = WrongOf(Indexed, LowEnds, HighEnds, order, a, b)
  BY <1>2 DEF WrongOf
<1> QED  BY <1>1, <1>3, <1>4

\* On a rank without strays the neighbours in a row have neighbouring places.
LEMMA RowNeighbours ==
  ASSUME NEW r \in DOMAIN layers, NEW p, PlacesOK(p), Under(0, r) = ToSet(layers[r]), NEW w, RowOK(w, r, p),
         NEW k \in Nat, 1 <= k, k + 1 <= Len(w)
  PROVE  /\ w[k] \in ToSet(layers[r]) /\ w[k + 1] \in ToSet(layers[r]) /\ w[k] # w[k + 1]
         /\ p[w[k + 1]] = p[w[k]] + 1
<1>1. PICK n \in Nat : n = Len(w)
  BY DEF RowOK, Lists
<1>2. k \in 1..n /\ k + 1 \in 1..n
  BY <1>1
<1>3. PICK S : S = ToSet(layers[r])
  OBVIOUS
<1>4. PICK z : z = Cardinality(S)
  OBVIOUS
<1>5. {p[v] : v \in S} = 0..(z - 1) /\ (\A u, v \in S : p[u] = p[v] => u = v) /\ \A v \in S : p[v] \in Nat
  BY <1>3, <1>4 DEF PlacesOK
<1>6. /\ \A j \in 1..n : w[j] \in S
      /\ \A i, j \in 1..n : w[i] = w[j] => i = j
      /\ \A v \in S : \E j \in 1..n : w[j] = v
      /\ \A i, j \in 1..n : i < j => p[w[i]] <= p[w[j]]
  BY <1>1, <1>3 DEF RowOK, Lists, IsInjective
<1>7. PICK a, b : a = w[k] /\ b = w[k + 1]
  OBVIOUS
<1>8. a \in S /\ b \in S /\ a # b
  <2>1. k # k + 1
    OBVIOUS
  <2> QED  BY <1>2, <1>6, <1>7, <2>1
<1>9. PICK x \in Nat, y \in Nat : x = p[a] /\ y = p[b]
  BY <1>5, <1>8
<1>10. x < y
  <2>1. x <= y
    <3>1. k < k + 1
      OBVIOUS
    <3> QED  BY <1>2, <1>6, <1>7, <1>9, <3>1
  <2>2. x # y
    BY <1>5, <1>8, <1>9
  <2> QED  BY <2>1, <2>2
<1>11. x + 1 \in {p[v] : v \in S}
  <2>1. x \in 0..(z - 1) /\ y \in 0..(z - 1)
    BY <1>5, <1>8, <1>9
  <2>2. z - 1 \in Int \/ ~(z - 1 \in Int)
    OBVIOUS
  <2>3. z \in Nat
    <3>1. Lists(w, S)
      BY <1>3 DEF RowOK
    <3> QED  BY <1>1, <1>4, <3>1, ListLength
  <2>4. x + 1 \in 0..(z - 1)
    BY <1>10, <2>1, <2>3
  <2> QED  BY <1>5, <2>4
<1>12. y = x + 1
  <2> SUFFICES ASSUME x + 1 < y PROVE FALSE
    BY <1>10
  <2>1. PICK v \in S : p[v] = x + 1
    BY <1>11
  <2>2. PICK j \in 1..n : w[j] = v
    BY <1>6
  <2>3. j # k /\ j # k + 1
    BY <1>7, <1>9, <2>1, <2>2
  <2>4. j < k \/ k + 1 < j
    BY <2>3
  <2>5. CASE j < k
    <3>1. p[v] <= x
      BY <1>2, <1>6, <1>7, <1>9, <2>2, <2>5
    <3> QED  BY <2>1, <3>1
  <2>6. CASE k + 1 < j
    <3>1. y <= p[v]
      BY <1>2, <1>6, <1>7, <1>9, <2>2, <2>6
    <3> QED  BY <2>1, <3>1
  <2> QED  BY <2>4, <2>5, <2>6
<1> QED  BY <1>3, <1>7, <1>8, <1>9, <1>12

\* A switch that changes anything has fewer crossings between the pair, hence fewer in all.
LEMMA SwitchHelps ==
  ASSUME OrderingIInv, Switch, order' # order, Strays = {}, TwoAbreast
  PROVE  CrossingsAmong(Indexed, order') < CrossingsAmong(Indexed, order)
<1>1. step = "switch"
  BY DEF Switch
<1>2. GraphShape /\ LayersOK /\ LinksLow /\ EndsPlaced /\ SwitchHeld
  BY <1>1 DEF OrderingIInv, OrderHeld, LinksHeld
<1>3. PICK p : p = order
  OBVIOUS
<1>4. PICK o : o = order'
  OBVIOUS
<1>5. PICK w : w = row
  OBVIOUS
<1>6. PICK k : k = slot
  OBVIOUS
<1>7. PICK r : r = at
  OBVIOUS
<1>8. /\ PlacesOK(p) /\ r \in DOMAIN layers /\ RowOK(w, r, p) /\ k \in Nat /\ 1 <= k /\ k + 1 <= Len(w)
  BY <1>2, <1>3, <1>5, <1>6, <1>7 DEF SwitchHeld
<1>9. Under(0, r) = ToSet(layers[r])
  <2>1. \A v \in ToSet(layers[r]) : v \in DOMAIN order
    BY <1>3, <1>8 DEF PlacesOK
  <2>2. \A v \in ToSet(layers[r]) : \A d \in Ups(v) : Spans(d, r)
    BY <1>2, <1>8, <2>1, NoStray
  <2> QED  BY <2>2 DEF Under
<1>10. PICK a, b : a = w[k] /\ b = w[k + 1]
  OBVIOUS
<1>11. a \in ToSet(layers[r]) /\ b \in ToSet(layers[r]) /\ a # b /\ p[b] = p[a] + 1
  BY <1>8, <1>9, <1>10, RowNeighbours
<1>12. MaySwitch(a, b) /\ o = [p EXCEPT ![a] = p[b], ![b] = p[a]]
  BY <1>3, <1>4, <1>5, <1>6, <1>10 DEF Switch
<1>13. \A q \in DOMAIN layers : \A v \in ToSet(layers[q]) : v \in DOMAIN p /\ p[v] \in Nat
  BY <1>8 DEF PlacesOK
<1>14. Exchanged(o, p, a, b)
  BY <1>8, <1>11, <1>12, <1>13, ExchangedIs
<1> DEFINE I == Indexed
           F == HighEnds
           T == LowEnds
           R == graph.rank
<1>15. Neighboured(I, F, T, R, p, o, a, b)
  <2>1. R[a] = r /\ R[b] = r
    BY <1>2, <1>8, <1>11 DEF LayersOK
  <2>2. \A i \in I : R[F[i]] \in Int /\ R[T[i]] = R[F[i]] + 1
    BY <1>2, IndexedAre
  <2>3. \A v \in Ends(I, F, T) : R[v] \in DOMAIN layers /\ v \in ToSet(layers[R[v]])
    BY <1>2, IndexedAre
  <2> HIDE DEF I, F, T, R
  <2>4. \A v \in Ends(I, F, T) : v \in DOMAIN p /\ p[v] \in Nat
    BY <1>13, <2>3
  <2>5. \A v \in Ends(I, F, T) : o[v] = IF v = a THEN p[b] ELSE IF v = b THEN p[a] ELSE p[v]
    BY <1>14, <2>4 DEF Exchanged
  <2>6. \A u, v \in ToSet(layers[r]) : p[u] = p[v] => u = v
    BY <1>8, <1>9 DEF PlacesOK
  <2>7. \A v \in Ends(I, F, T) : R[v] = R[a] /\ v \notin {a, b} => p[v] # p[a] /\ p[v] # p[b]
    BY <1>11, <2>1, <2>3, <2>6
  <2>8. p[a] \in Int
    BY <1>8, <1>11, <1>13
  <2> QED  BY <1>11, <2>1, <2>2, <2>4, <2>5, <2>7, <2>8 DEF Neighboured
<1>16. PairCrossings(b, a) < PairCrossings(a, b)
  BY <1>12 DEF MaySwitch
<1>17. /\ PairCrossings(a, b) = Cardinality(WrongOf(I, F, T, p, a, b)) + Cardinality(WrongOf(I, T, F, p, a, b))
       /\ PairCrossings(b, a) = Cardinality(WrongOf(I, F, T, p, b, a)) + Cardinality(WrongOf(I, T, F, p, b, a))
  BY <1>2, <1>3, PairCrossingsAre
<1>18. IsFiniteSet(I)
  BY <1>2, IndexedAre
<1>19. /\ CrossingsAmong(Indexed, o) = Cardinality(Wrong(I, F, T, R, o))
       /\ CrossingsAmong(Indexed, p) = Cardinality(Wrong(I, F, T, R, p))
  BY <1>2, CrossingsAre
<1> HIDE DEF I, F, T, R
<1>20. Cardinality(Wrong(I, F, T, R, o)) < Cardinality(Wrong(I, F, T, R, p))
  <2>1. Cardinality(WrongOf(I, F, T, p, b, a)) + Cardinality(WrongOf(I, T, F, p, b, a))
          < Cardinality(WrongOf(I, F, T, p, a, b)) + Cardinality(WrongOf(I, T, F, p, a, b))
    BY <1>16, <1>17
  <2> QED  BY <1>15, <1>18, <2>1, SwapCounts
<1> QED  BY <1>3, <1>4, <1>19, <1>20

\* Every exchange of greedy_switch takes crossings away from the whole drawing: two neighbours
\* that change places leave the sides of all others as they are.
THEOREM SwitchingHelps == LayoutSpec => SwitchingOnlyHelps
<1>1. LayoutIInv /\ [LayoutNext \/ LayoutDone]_layoutVars =>
        [step = "switch" /\ order' # order /\ Strays = {} /\ TwoAbreast =>
           CrossingsAmong(Indexed, order') < CrossingsAmong(Indexed, order)]_orderingVars
  <2> SUFFICES ASSUME LayoutIInv, [LayoutNext \/ LayoutDone]_layoutVars,
                      step = "switch", order' # order, Strays = {}, TwoAbreast
               PROVE  CrossingsAmong(Indexed, order') < CrossingsAmong(Indexed, order)
    OBVIOUS
  <2>1. Switch
    <3>1. ~Prepare /\ ~AddSegments /\ ~LayoutDone /\ ~UNCHANGED layoutVars
      BY DEF Prepare, AddSegments, LayoutDone, layoutVars, orderingVars
    <3>2. OrderingNext
      BY <3>1 DEF LayoutNext, Order
    <3> QED  BY <3>2 DEF OrderingNext, InitOrder, SortRank, Judge, InsertLoop
  <2> QED  BY <2>1, SwitchHelps DEF LayoutIInv
<1> QED  BY <1>1, LayoutHolds, PTL DEF LayoutSpec, SwitchingOnlyHelps

=============================================================================
