----------------------------- MODULE FitProofs -----------------------------
(***************************************************************************)
(* That the range of widths reported with a fit is exact, for every ladder *)
(* and every drawing of its rungs.                                         *)
(***************************************************************************)
EXTENDS Fit, WellFoundedInduction, NaturalsInduction, TLAPS

\* What is known of the drawings themselves, in whatever search they were made.
ValidAt(i) == regressions_against(drawn[i].audit, drawn[1].audit) = {}

ValidBefore(n) == {i \in 1..(n - 1) : ValidAt(i)}

WidthAt(i) == drawn[i].width

WidthsAt(S) == {WidthAt(i) : i \in S}

Narrowest(S) ==
  {i \in S : \A j \in S : \/ WidthAt(i) < WidthAt(j)
                          \/ WidthAt(i) = WidthAt(j) /\ i <= j}

First(S) == CHOOSE i \in S : TRUE

\* No rung in S fits this width.
NoneFits(width, S) == \A i \in S : width < WidthAt(i)

Candidates == [drawing : Drawings, valid : BOOLEAN]

Typed ==
  /\ request.fit \in FitOptions
  /\ request.drawings \subseteq Drawings
  /\ request = [kind |-> request.kind, text |-> request.text, fit |-> request.fit,
                graph |-> request.graph, drawings |-> request.drawings]
  /\ Len(rungs) \in Nat /\ Len(rungs) > 0
  /\ drawn \in Seq(Drawings) /\ Len(drawn) <= Len(rungs)
  /\ candidates \in Seq(Candidates) /\ Len(candidates) <= Len(drawn)

\* A search draws the first rungs as they were drawn before, and only the last
\* of them may fit.
SearchInv ==
  /\ \A i \in 1..Len(candidates) :
       /\ candidates[i].drawing = drawn[i]
       /\ candidates[i].valid = ValidAt(i)
       /\ Fits(i) => i = Len(candidates)
  /\ status \in {"searching", "done"} => request.fit.max_width # 0
  /\ status = "ready" => candidates = <<>>

\* What a report says, in terms of the drawings alone.
Tells(rep, n) ==
  \/ /\ rep.outcome # "BestAttempt"
     /\ rep.pick = n /\ n \in 1..Len(drawn) /\ ValidAt(n)
     /\ rep.stable_for.min_width = WidthAt(n)
     /\ rep.stable_for.max_width = IF ValidBefore(n) = {} THEN None
          ELSE JustBelow(Min(WidthsAt(ValidBefore(n))))
  \/ /\ rep.outcome = "BestAttempt"
     /\ n = Len(rungs) /\ n = Len(drawn)
     /\ rep.pick = First(Narrowest(ValidBefore(n + 1)))
     /\ rep.stable_for.min_width = 1
     /\ rep.stable_for.max_width = JustBelow(Min(WidthsAt(ValidBefore(n + 1))))

ReportInv ==
  request.fit.max_height = None =>
    /\ before # None =>
         /\ request.fit.max_width # None
         /\ \E n \in Nat : Tells(before, n)
    /\ status = "done" =>
         /\ Found \/ Len(candidates) = Len(rungs)
         /\ report.outcome # "BestAttempt" <=> Found
         /\ Tells(report, Len(candidates))

FitIInv == Typed /\ SearchInv /\ ReportInv
----------------------------------------------------------------------------
\* A set of widths has a smallest one.
LEMMA SmallestWidth ==
  ASSUME NEW S \in SUBSET Nat, S # {}
  PROVE  Min(S) \in S /\ \A n \in S : Min(S) <= n
<1>1. IsWellFoundedOn({p \in Nat \X Nat : p[1] < p[2]}, Nat)
  BY NatLessThanWellFounded DEF OpToRel
<1>2. \E x \in S : \A y \in S : <<y, x>> \notin {p \in Nat \X Nat : p[1] < p[2]}
  BY <1>1, WFMin, Zenon
<1>3. PICK x \in S : \A y \in S : <<y, x>> \notin {p \in Nat \X Nat : p[1] < p[2]}
  BY <1>2
<1>4. ASSUME NEW y \in S PROVE x <= y
  <2>1. <<y, x>> \in Nat \X Nat /\ <<y, x>>[1] = y /\ <<y, x>>[2] = x
    OBVIOUS
  <2> QED  BY <1>3, <2>1
<1> QED  BY <1>4 DEF Min

\* A width is under the reported bound exactly when no valid rung before fits it.
LEMMA BelowTheNarrowest ==
  ASSUME Typed, NEW n \in Nat, n <= Len(drawn) + 1, ValidBefore(n) # {},
         NEW w \in Nat, w # 0
  PROVE  w <= JustBelow(Min(WidthsAt(ValidBefore(n)))) <=> NoneFits(w, ValidBefore(n))
<1> DEFINE S == WidthsAt(ValidBefore(n))
<1> USE DEF WidthsAt
<1>1. ASSUME NEW i \in ValidBefore(n) PROVE WidthAt(i) \in Nat
  <2>1. i \in 1..Len(drawn)
    BY DEF Typed, ValidBefore
  <2>2. drawn[i] \in Drawings
    BY <2>1 DEF Typed
  <2> QED  BY <2>2 DEF WidthAt, Drawings
<1>2. S \in SUBSET Nat /\ S # {}
  BY <1>1
<1>3. Min(S) \in S /\ \A m \in S : Min(S) <= m
  BY <1>2, SmallestWidth
<1>4. Min(S) \in Nat
  BY <1>2, <1>3
<1>5. w <= JustBelow(Min(S)) <=> w < Min(S)
  BY <1>4 DEF JustBelow
<1>6. w < Min(S) => NoneFits(w, ValidBefore(n))
  <2>1. ASSUME w < Min(S), NEW i \in ValidBefore(n) PROVE w < WidthAt(i)
    <3>1. WidthAt(i) \in S /\ WidthAt(i) \in Nat
      BY <1>1, <2>1
    <3> HIDE DEF S
    <3> QED  BY <1>3, <1>4, <2>1, <3>1
  <2> QED  BY <2>1 DEF NoneFits
<1>7. NoneFits(w, ValidBefore(n)) => w < Min(S)
  BY <1>3 DEF NoneFits
<1> QED  BY <1>5, <1>6, <1>7

----------------------------------------------------------------------------
(* The ladder.                                                             *)

\* FitSettings, as the levers change them.
Settings ==
  [flip : BOOLEAN, strip_horizontal_subgraph_overrides : BOOLEAN,
   label_aware_spacing : BOOLEAN, grid_gaps : {<<>>, <<2, 1>>, <<2, 2>>},
   edge_label_wrap : Nat, node_label_wrap : Nat, member_wrap : Nat, truncate : Nat,
   member_keep : Nat]

Rungs == [settings : Settings, reuses_solve_of : Nat \union {None}]

\* They make the same graph: they differ in the spacing of the drawing alone.
SameTransforms(s, t) ==
  /\ s.flip = t.flip
  /\ s.strip_horizontal_subgraph_overrides = t.strip_horizontal_subgraph_overrides
  /\ s.truncate = t.truncate /\ s.member_keep = t.member_keep
  /\ s.member_wrap = t.member_wrap /\ s.node_label_wrap = t.node_label_wrap
  /\ s.edge_label_wrap = t.edge_label_wrap

SameGraph(graph, s, t) == apply_graph_transforms(graph, s) = apply_graph_transforms(graph, t)

\* A rung that reuses a solve comes after it, and would solve the same graph.
ReusesSolve(graph, ladder, i, b) ==
  /\ b \in 1..i /\ ladder[b].reuses_solve_of = None
  /\ SameGraph(graph, ladder[b].settings, ladder[i].settings)

SoundLadder(graph, ladder) ==
  /\ ladder \in Seq(Rungs)
  /\ \A i \in 1..Len(ladder) :
       ladder[i].reuses_solve_of # None =>
         ReusesSolve(graph, ladder, i, ladder[i].reuses_solve_of)

StepsIn(V, N, step) == step \in [(1..N) \X V -> V]

FoldExists(V, base, N, step) ==
  \E f \in [0..N -> V] : f[0] = base /\ \A n \in 1..N : f[n] = step[<<n, f[n - 1]>>]

\* A recursive function over 0..N has values wherever its step has.
LEMMA RecursiveFold ==
  ASSUME NEW V, NEW base \in V, NEW N \in Nat, NEW step, StepsIn(V, N, step)
  PROVE  FoldExists(V, base, N, step)
<1> USE DEF StepsIn, FoldExists
<1> DEFINE Folds(f, m) == /\ f \in [0..m -> V]
                          /\ f[0] = base
                          /\ \A n \in 1..m : f[n] = step[<<n, f[n - 1]>>]
           bad == {m \in 0..N : ~\E f : Folds(f, m)}
<1>1. ASSUME bad # {} PROVE FALSE
  <2>1. bad \in SUBSET Nat
    OBVIOUS
  <2>2. Min(bad) \in bad /\ \A n \in bad : Min(bad) <= n
    <3> HIDE DEF bad
    <3> QED  BY <1>1, <2>1, SmallestWidth
  <2>3. PICK m \in bad : \A n \in bad : m <= n
    BY <2>2
  <2>4. m # 0
    <3>1. Folds([n \in 0..0 |-> base], 0)
      OBVIOUS
    <3> QED  BY <3>1
  <2>5. m \in 1..N /\ m - 1 \in 0..N /\ m - 1 \notin bad
    BY <2>3, <2>4
  <2>6. PICK f : Folds(f, m - 1)
    BY <2>5
  <2> DEFINE next == step[<<m, f[m - 1]>>]
             g == [n \in 0..m |-> IF n = m THEN next ELSE f[n]]
  <2>7. f[m - 1] \in V
    BY <2>5, <2>6
  <2>8. next \in V
    BY <2>5, <2>7
  <2>9. g \in [0..m -> V] /\ g[0] = base /\ g[m] = next
    <3> HIDE DEF next
    <3> QED  BY <2>4, <2>5, <2>6, <2>8
  <2>10. ASSUME NEW n \in 1..m PROVE g[n] = step[<<n, g[n - 1]>>]
    <3>1. CASE n = m
      <4>1. g[n - 1] = f[m - 1]
        BY <2>5, <3>1
      <4> QED  BY <2>9, <3>1, <4>1
    <3>2. CASE n # m
      <4>1. n \in 1..(m - 1) /\ n - 1 \in 0..m /\ n - 1 # m /\ n \in 0..m
        BY <2>5, <3>2
      <4>2. g[n] = f[n] /\ g[n - 1] = f[n - 1]
        BY <3>2, <4>1
      <4> QED  BY <2>6, <4>1, <4>2
    <3> QED  BY <3>1, <3>2
  <2>11. Folds(g, m)
    <3> HIDE DEF g
    <3> QED  BY <2>9, <2>10
  <2> QED  BY <2>3, <2>11
<1>2. N \in 0..N
  OBVIOUS
<1>3. \E f : Folds(f, N)
  BY <1>1, <1>2
<1> QED  BY <1>3

\* The nine steps: the spacing of the drawing comes first, the solves after it.
LEMMA StepFacts ==
  /\ Len(unflipped_steps) = 9
  /\ \A n \in 1..3 : /\ ~unflipped_steps[n].solve
                     /\ unflipped_steps[n].field \in {"label_aware_spacing", "grid_gaps"}
  /\ \A n \in 4..9 : unflipped_steps[n].solve
BY DEF unflipped_steps, Solve, RenderOnly

\* A lever is set to a value of its kind.
LEMMA LeverTyped ==
  ASSUME NEW s \in Settings, NEW n \in 1..9
  PROVE  [s EXCEPT ![unflipped_steps[n].field] = unflipped_steps[n].value] \in Settings
<1>1. \/ unflipped_steps[n].field = "label_aware_spacing" /\ unflipped_steps[n].value = TRUE
      \/ unflipped_steps[n].field = "grid_gaps" /\ unflipped_steps[n].value \in {<<2, 1>>, <<2, 2>>}
      \/ unflipped_steps[n].field = "edge_label_wrap" /\ unflipped_steps[n].value \in Nat
      \/ unflipped_steps[n].field = "node_label_wrap" /\ unflipped_steps[n].value \in Nat
      \/ unflipped_steps[n].field = "member_wrap" /\ unflipped_steps[n].value \in Nat
  BY DEF unflipped_steps, Solve, RenderOnly
<1>2. ASSUME NEW v \in BOOLEAN PROVE [s EXCEPT !["label_aware_spacing"] = v] \in Settings
  BY DEF Settings
<1>3. ASSUME NEW v \in {<<2, 1>>, <<2, 2>>} PROVE [s EXCEPT !["grid_gaps"] = v] \in Settings
  BY DEF Settings
<1>4. ASSUME NEW v \in Nat
      PROVE  /\ [s EXCEPT !["edge_label_wrap"] = v] \in Settings
             /\ [s EXCEPT !["node_label_wrap"] = v] \in Settings
             /\ [s EXCEPT !["member_wrap"] = v] \in Settings
  BY DEF Settings
<1> QED  BY <1>1, <1>2, <1>3, <1>4

\* The spacing of a drawing is no matter of its graph.
LEMMA SpacingKeepsTransforms ==
  ASSUME NEW s \in Settings, NEW field \in {"label_aware_spacing", "grid_gaps"}, NEW v
  PROVE  SameTransforms([s EXCEPT ![field] = v], s)
BY DEF Settings, SameTransforms

LEMMA SameTransformsSameGraph ==
  ASSUME NEW graph, NEW s, NEW t, SameTransforms(s, t)
  PROVE  SameGraph(graph, s, t)
BY DEF SameTransforms, SameGraph, apply_graph_transforms

\* What Append does to a ladder.
LEMMA RungAppended ==
  ASSUME NEW ladder \in Seq(Rungs), NEW rung \in Rungs
  PROVE  /\ Append(ladder, rung) \in Seq(Rungs)
         /\ Len(ladder) \in Nat /\ Len(Append(ladder, rung)) = Len(ladder) + 1
         /\ \A i \in 1..Len(ladder) : Append(ladder, rung)[i] = ladder[i]
         /\ Append(ladder, rung)[Len(ladder) + 1] = rung
OBVIOUS

\* A ladder stays sound when a rung of its own solve is pushed, or one that reuses
\* an earlier solve of the same graph.
LEMMA PushKeepsSound ==
  ASSUME NEW graph, NEW ladder, SoundLadder(graph, ladder), NEW s \in Settings,
         NEW b \in Nat \union {None},
         b # None => /\ b \in 1..Len(ladder) /\ ladder[b].reuses_solve_of = None
                     /\ SameGraph(graph, ladder[b].settings, s)
  PROVE  SoundLadder(graph, Append(ladder, Rung(s, b)))
<1> DEFINE longer == Append(ladder, Rung(s, b))
<1>1. Rung(s, b) \in Rungs /\ Rung(s, b).settings = s /\ Rung(s, b).reuses_solve_of = b
  BY DEF Rung, Rungs
<1>2. /\ longer \in Seq(Rungs) /\ Len(ladder) \in Nat /\ Len(longer) = Len(ladder) + 1
      /\ \A i \in 1..Len(ladder) : longer[i] = ladder[i]
      /\ longer[Len(ladder) + 1] = Rung(s, b)
  BY <1>1, RungAppended DEF SoundLadder
<1> HIDE DEF longer
<1>3. ASSUME NEW i \in 1..Len(longer), longer[i].reuses_solve_of # None
      PROVE  ReusesSolve(graph, longer, i, longer[i].reuses_solve_of)
  <2>1. CASE i \in 1..Len(ladder)
    <3>1. longer[i] = ladder[i]
      BY <1>2, <2>1
    <3>2. ReusesSolve(graph, ladder, i, ladder[i].reuses_solve_of)
      BY <1>3, <2>1, <3>1 DEF SoundLadder
    <3>3. ladder[i].reuses_solve_of \in 1..Len(ladder)
      BY <1>2, <2>1, <3>2 DEF ReusesSolve
    <3> QED  BY <1>2, <3>1, <3>2, <3>3 DEF ReusesSolve
  <2>2. CASE i = Len(ladder) + 1
    <3>1. longer[i].reuses_solve_of = b /\ longer[i].settings = s /\ b # None
      BY <1>1, <1>2, <1>3, <2>2
    <3>2. b \in 1..Len(ladder) /\ longer[b] = ladder[b] /\ b \in 1..i
      BY <1>2, <2>2, <3>1
    <3> QED  BY <3>1, <3>2 DEF ReusesSolve
  <2> QED  BY <1>2, <2>1, <2>2
<1> QED  BY <1>2, <1>3 DEF SoundLadder, longer

LEMMA PushSolveSound ==
  ASSUME NEW graph, NEW ladder, SoundLadder(graph, ladder), NEW s \in Settings, NEW base
  PROVE  /\ SoundLadder(graph, PushSolve(ladder, graph, s, base))
         /\ Len(PushSolve(ladder, graph, s, base)) >= Len(ladder)
<1>1. SoundLadder(graph, Append(ladder, Rung(s, None)))
  BY PushKeepsSound
<1>2. Len(Append(ladder, Rung(s, None))) = Len(ladder) + 1 /\ Len(ladder) \in Nat
  BY DEF SoundLadder
<1> QED  BY <1>1, <1>2 DEF PushSolve

\* One step of a sequence: what is built stays a sound ladder on top of base, and
\* until the first solve its settings still make the base's graph.
Sequenced(built, graph, base, start, n) ==
  /\ built = [ladder |-> built.ladder, settings |-> built.settings]
  /\ built.settings \in Settings
  /\ SoundLadder(graph, built.ladder)
  /\ base <= Len(built.ladder) /\ built.ladder[base] = Rung(start, None)
  /\ n <= 3 => SameTransforms(built.settings, start)

LEMMA StepSequences ==
  ASSUME NEW graph, NEW start \in Settings, NEW base \in Nat \ {0}, NEW built, NEW n \in 1..9,
         Sequenced(built, graph, base, start, n - 1)
  PROVE  Sequenced(PushStep(built, unflipped_steps[n], graph, base), graph, base, start, n)
<1> DEFINE s == built.settings
           l == built.ladder
           t == [s EXCEPT ![unflipped_steps[n].field] = unflipped_steps[n].value]
<1>1. s \in Settings /\ SoundLadder(graph, l) /\ base <= Len(l) /\ l[base] = Rung(start, None)
  BY DEF Sequenced
<1>2. t \in Settings
  BY <1>1, LeverTyped
<1>3. l \in Seq(Rungs) /\ Len(l) \in Nat /\ base \in 1..Len(l)
  BY <1>1 DEF SoundLadder
<1>4. ASSUME NEW b \in Nat \union {None}
      PROVE  /\ Len(Append(l, Rung(t, b))) = Len(l) + 1
             /\ base <= Len(Append(l, Rung(t, b)))
             /\ Append(l, Rung(t, b))[base] = Rung(start, None)
  <2>1. Rung(t, b) \in Rungs
    BY <1>2 DEF Rung, Rungs
  <2> HIDE DEF t, l
  <2>2. /\ Len(Append(l, Rung(t, b))) = Len(l) + 1
        /\ \A i \in 1..Len(l) : Append(l, Rung(t, b))[i] = l[i]
    BY <1>3, <2>1, RungAppended
  <2> QED  BY <1>1, <1>3, <2>2
<1>5. CASE n \in 1..3
  <2>1. ~unflipped_steps[n].solve /\ unflipped_steps[n].field \in {"label_aware_spacing", "grid_gaps"}
    BY <1>5, StepFacts
  <2>2. PushStep(built, unflipped_steps[n], graph, base)
          = [ladder |-> Append(l, Rung(t, base)), settings |-> t]
    BY <2>1 DEF PushStep
  <2>3. SameTransforms(s, start)
    BY <1>5 DEF Sequenced
  <2>4. SameTransforms(t, s)
    <3> HIDE DEF s
    <3> QED  BY <1>1, <2>1, SpacingKeepsTransforms
  <2>5. SameTransforms(t, start)
    <3> HIDE DEF s, t
    <3> QED  BY <2>3, <2>4 DEF SameTransforms
  <2>6. SameGraph(graph, l[base].settings, t)
    <3> HIDE DEF t
    <3>1. SameGraph(graph, t, start)
      BY <2>5, SameTransformsSameGraph
    <3> QED  BY <1>1, <3>1 DEF SameGraph, Rung
  <2>7. SoundLadder(graph, Append(l, Rung(t, base)))
    <3>1. l[base].reuses_solve_of = None
      BY <1>1 DEF Rung
    <3> HIDE DEF l, t
    <3> QED  BY <1>1, <1>2, <1>3, <2>6, <3>1, PushKeepsSound
  <2> HIDE DEF l, t
  <2>8. base \in Nat \union {None}
    OBVIOUS
  <2> QED  BY <1>2, <1>4, <2>2, <2>5, <2>7, <2>8 DEF Sequenced
<1>6. CASE n \in 4..9
  <2>1. unflipped_steps[n].solve /\ ~(n <= 3)
    BY <1>6, StepFacts
  <2>2. CASE ChangesGraph(graph, t, s)
    <3>1. PushStep(built, unflipped_steps[n], graph, base)
            = [ladder |-> Append(l, Rung(t, None)), settings |-> t]
      BY <2>1, <2>2 DEF PushStep
    <3> HIDE DEF l, t
    <3>2. SoundLadder(graph, Append(l, Rung(t, None)))
      BY <1>1, <1>2, PushKeepsSound
    <3> QED  BY <1>2, <1>4, <2>1, <3>1, <3>2 DEF Sequenced
  <2>3. CASE ~ChangesGraph(graph, t, s)
    <3>1. PushStep(built, unflipped_steps[n], graph, base) = built
      BY <2>1, <2>3 DEF PushStep
    <3> QED  BY <2>1, <3>1 DEF Sequenced
  <2> QED  BY <2>2, <2>3
<1> QED  BY <1>5, <1>6

\* push_sequence extends a sound ladder by a sequence of rungs.
LEMMA SequenceSound ==
  ASSUME NEW graph, NEW ladder, SoundLadder(graph, ladder), NEW start \in Settings
  PROVE  LET u == push_sequence(ladder, graph, start)
         IN  /\ SoundLadder(graph, u.ladder) /\ Len(u.ladder) > 0
             /\ u.settings \in Settings
<1> DEFINE base == Len(ladder) + 1
           first == [ladder |-> Append(ladder, Rung(start, None)), settings |-> start]
           V == [ladder : Seq(Rungs), settings : Settings]
           Built(f) == f = [n \in 0..Len(unflipped_steps) |->
                              IF n = 0 THEN first
                              ELSE PushStep(f[n - 1], unflipped_steps[n], graph, base)]
           built == CHOOSE f : Built(f)
<1>1. push_sequence(ladder, graph, start) = built[9]
  BY StepFacts DEF push_sequence
<1>2. Len(ladder) \in Nat /\ base \in Nat \ {0}
  BY DEF SoundLadder
<1>3. first \in V /\ Sequenced(first, graph, base, start, 0)
  <2>1. Rung(start, None) \in Rungs
    BY DEF Rung, Rungs
  <2>2. /\ Append(ladder, Rung(start, None)) \in Seq(Rungs)
        /\ Len(Append(ladder, Rung(start, None))) = base
        /\ Append(ladder, Rung(start, None))[base] = Rung(start, None)
    BY <2>1, RungAppended DEF SoundLadder
  <2>3. SoundLadder(graph, Append(ladder, Rung(start, None)))
    BY PushKeepsSound
  <2>4. SameTransforms(start, start)
    BY DEF SameTransforms
  <2> HIDE DEF base
  <2> QED  BY <1>2, <2>2, <2>3, <2>4 DEF Sequenced
<1> DEFINE step == [p \in (1..9) \X V |-> PushStep(p[2], unflipped_steps[p[1]], graph, base)]
<1>4. step \in [(1..9) \X V -> V]
  <2>1. ASSUME NEW n \in 1..9, NEW v \in V
        PROVE  PushStep(v, unflipped_steps[n], graph, base) \in V
    <3> DEFINE t == [v.settings EXCEPT ![unflipped_steps[n].field] = unflipped_steps[n].value]
    <3>1. v.settings \in Settings /\ v.ladder \in Seq(Rungs)
      OBVIOUS
    <3>2. t \in Settings
      BY <3>1, LeverTyped
    <3>3. Rung(t, None) \in Rungs /\ Rung(t, base) \in Rungs
      <4> HIDE DEF t, base
      <4> QED  BY <1>2, <3>2 DEF Rung, Rungs
    <3>4. Append(v.ladder, Rung(t, None)) \in Seq(Rungs) /\ Append(v.ladder, Rung(t, base)) \in Seq(Rungs)
      <4> HIDE DEF t, base
      <4> QED  BY <3>1, <3>3, RungAppended
    <3> HIDE DEF base
    <3> QED  BY <3>2, <3>4 DEF PushStep
  <2> HIDE DEF V, base
  <2> QED  BY <2>1
<1>5. PICK f \in [0..9 -> V] : f[0] = first /\ \A n \in 1..9 : f[n] = step[<<n, f[n - 1]>>]
  <2> HIDE DEF V, step, first
  <2>1. StepsIn(V, 9, step)
    BY <1>4 DEF StepsIn
  <2>2. FoldExists(V, first, 9, step)
    BY <1>3, <2>1, RecursiveFold
  <2> QED  BY <2>2 DEF FoldExists
<1>6. Built(f)
  <2>1. ASSUME NEW n \in 1..9
        PROVE  f[n] = PushStep(f[n - 1], unflipped_steps[n], graph, base)
    <3>1. n - 1 \in 0..9
      OBVIOUS
    <3>2. <<n, f[n - 1]>> \in (1..9) \X V
      <4> HIDE DEF V
      <4> QED  BY <3>1
    <3>3. step[<<n, f[n - 1]>>] = PushStep(f[n - 1], unflipped_steps[n], graph, base)
      <4> HIDE DEF V, base
      <4> QED  BY <3>2
    <3> QED  BY <1>5, <3>3
  <2>2. ASSUME NEW n \in 0..9
        PROVE  f[n] = IF n = 0 THEN first
                      ELSE PushStep(f[n - 1], unflipped_steps[n], graph, base)
    <3> HIDE DEF first, base
    <3> QED  BY <1>5, <2>1
  <2>3. f = [n \in 0..9 |-> f[n]]
    <3> HIDE DEF V
    <3> QED  OBVIOUS
  <2> HIDE DEF first, base
  <2> QED  BY <2>2, <2>3, StepFacts
<1>7. Built(built)
  <2> HIDE DEF Built
  <2> QED  BY <1>6
<1>8. built[0] = first /\ \A n \in 1..9 : built[n] = PushStep(built[n - 1], unflipped_steps[n], graph, base)
  <2> HIDE DEF built, first, base
  <2>1. built = [n \in 0..9 |-> IF n = 0 THEN first
                                ELSE PushStep(built[n - 1], unflipped_steps[n], graph, base)]
    BY <1>7, StepFacts
  <2> QED  BY <2>1
<1> HIDE DEF built, first, base
<1>9. ASSUME NEW n \in 1..9, Sequenced(built[n - 1], graph, base, start, n - 1)
      PROVE  Sequenced(built[n], graph, base, start, n)
  <2> PICK prior : prior = built[n - 1]
    OBVIOUS
  <2>1. Sequenced(prior, graph, base, start, n - 1)
    BY <1>9
  <2>2. Sequenced(PushStep(prior, unflipped_steps[n], graph, base), graph, base, start, n)
    BY <1>2, <2>1, StepSequences
  <2> QED  BY <1>8, <2>2
<1>10. Sequenced(built[9], graph, base, start, 9)
  <2>1. Sequenced(built[0], graph, base, start, 0)
    BY <1>3, <1>8
  <2>2. ASSUME NEW n \in 1..9 PROVE n - 1 \in 0..8
    OBVIOUS
  <2> DEFINE S(n) == Sequenced(built[n], graph, base, start, n)
  <2>3. S(0) /\ \A n \in 1..9 : S(n - 1) => S(n)
    BY <1>9, <2>1
  <2> HIDE DEF S
  <2>4. S(1) /\ (S(1) => S(2)) /\ (S(2) => S(3)) /\ (S(3) => S(4)) /\ (S(4) => S(5))
        /\ (S(5) => S(6)) /\ (S(6) => S(7)) /\ (S(7) => S(8)) /\ (S(8) => S(9))
    BY <2>3
  <2>5. S(9)
    BY <2>4
  <2> QED  BY <2>5 DEF S
<1> QED  BY <1>1, <1>2, <1>10 DEF Sequenced

Lossies == [settings : Settings, over : Settings]

\* PushAll keeps a ladder sound.
LEMMA AllPushed ==
  ASSUME NEW graph, NEW ladder, SoundLadder(graph, ladder), NEW lossy \in Seq(Lossies)
  PROVE  /\ SoundLadder(graph, PushAll(ladder, graph, lossy))
         /\ Len(PushAll(ladder, graph, lossy)) >= Len(ladder)
<1> DEFINE N == Len(lossy)
           V == {l \in Seq(Rungs) : SoundLadder(graph, l) /\ Len(l) >= Len(ladder)}
           push(l, n) == PushSolve(l, graph, lossy[n].settings, lossy[n].over)
           Pushed(f) == f = [n \in 0..Len(lossy) |-> IF n = 0 THEN ladder ELSE push(f[n - 1], n)]
           pushed == CHOOSE f : Pushed(f)
           step == [p \in (1..N) \X V |-> push(p[2], p[1])]
<1>1. PushAll(ladder, graph, lossy) = pushed[N]
  BY DEF PushAll
<1>2. N \in Nat /\ ladder \in V /\ Len(ladder) \in Nat
  BY DEF SoundLadder
<1>3. ASSUME NEW n \in 1..N, NEW l \in V PROVE push(l, n) \in V
  <2>1. lossy[n].settings \in Settings
    <3> HIDE DEF V, push
    <3>1. lossy[n] \in Lossies
      BY <1>2
    <3> QED  BY <3>1 DEF Lossies
  <2>2. SoundLadder(graph, push(l, n)) /\ Len(push(l, n)) >= Len(l)
    BY <2>1, PushSolveSound
  <2>3. push(l, n) \in Seq(Rungs) /\ Len(l) >= Len(ladder) /\ Len(l) \in Nat
    BY <2>2 DEF SoundLadder
  <2>4. Len(push(l, n)) \in Nat
    BY <2>3
  <2> HIDE DEF push
  <2> QED  BY <1>2, <2>2, <2>3, <2>4
<1>4. step \in [(1..N) \X V -> V]
  <2> HIDE DEF V, N, push
  <2> QED  BY <1>3
<1> HIDE DEF V, push
<1>5. PICK f \in [0..N -> V] : f[0] = ladder /\ \A n \in 1..N : f[n] = step[<<n, f[n - 1]>>]
  <2> HIDE DEF step, N
  <2>1. StepsIn(V, N, step)
    BY <1>4 DEF StepsIn
  <2>2. FoldExists(V, ladder, N, step)
    BY <1>2, <2>1, RecursiveFold
  <2> QED  BY <2>2 DEF FoldExists
<1>6. Pushed(f)
  <2> HIDE DEF N
  <2>1. ASSUME NEW n \in 1..N PROVE f[n] = push(f[n - 1], n)
    <3>1. n - 1 \in 0..N
      BY <1>2
    <3>2. <<n, f[n - 1]>> \in (1..N) \X V
      BY <3>1
    <3>3. step[<<n, f[n - 1]>>] = push(f[n - 1], n)
      BY <3>2
    <3> QED  BY <1>5, <3>3
  <2>2. ASSUME NEW n \in 0..N PROVE f[n] = IF n = 0 THEN ladder ELSE push(f[n - 1], n)
    BY <1>2, <1>5, <2>1
  <2>3. f = [n \in 0..N |-> f[n]]
    OBVIOUS
  <2> QED  BY <2>2, <2>3 DEF N
<1>7. Pushed(pushed)
  <2> HIDE DEF Pushed
  <2> QED  BY <1>6
<1> HIDE DEF pushed
<1>8. pushed[0] = ladder /\ \A n \in 1..N : pushed[n] = push(pushed[n - 1], n)
  <2>1. pushed = [n \in 0..N |-> IF n = 0 THEN ladder ELSE push(pushed[n - 1], n)]
    BY <1>7
  <2> QED  BY <1>2, <2>1
<1> HIDE DEF N
<1>9. \A n \in 0..N : pushed[n] \in V
  <2> DEFINE bad == {n \in 0..N : pushed[n] \notin V}
  <2>1. ASSUME bad # {} PROVE FALSE
    <3>1. bad \in SUBSET Nat
      BY <1>2
    <3>2. Min(bad) \in bad /\ \A n \in bad : Min(bad) <= n
      <4> HIDE DEF bad
      <4> QED  BY <2>1, <3>1, SmallestWidth
    <3>3. PICK m \in bad : \A n \in bad : m <= n
      BY <3>2
    <3>4. m # 0
      BY <1>2, <1>8
    <3>5. m \in 1..N /\ m - 1 \in 0..N /\ m - 1 \notin bad
      BY <1>2, <3>3, <3>4
    <3>6. pushed[m - 1] \in V
      BY <3>5
    <3> QED  BY <1>3, <1>8, <3>3, <3>5, <3>6
  <2> QED  BY <2>1
<1>10. pushed[N] \in V
  BY <1>2, <1>9
<1> QED  BY <1>1, <1>10 DEF V

\* The lossy rungs change a sound ladder into a sound one.
LEMMA TruncationsSound ==
  ASSUME NEW graph, NEW ladder, SoundLadder(graph, ladder), NEW bases \in Seq(Settings)
  PROVE  /\ SoundLadder(graph, PushTruncations(ladder, graph, bases))
         /\ Len(PushTruncations(ladder, graph, bases)) >= Len(ladder)
<1> DEFINE cut(base, cells) == [base EXCEPT !.truncate = cells]
           last(base) == IF ChangesGraph(graph, cut(base, 8), base) THEN cut(base, 8) ELSE base
           shorten(cells) == [b \in 1..Len(bases) |-> Lossy(cut(bases[b], cells), bases[b])]
           elide == [b \in 1..Len(bases) |->
                       Lossy([last(bases[b]) EXCEPT !.member_keep = 3], last(bases[b]))]
<1>1. Len(bases) \in Nat /\ \A b \in 1..Len(bases) : bases[b] \in Settings
  OBVIOUS
<1>2. ASSUME NEW base \in Settings, NEW cells \in Nat
      PROVE  cut(base, cells) \in Settings /\ [base EXCEPT !.member_keep = 3] \in Settings
  BY DEF Settings
<1>3. ASSUME NEW base \in Settings PROVE last(base) \in Settings
  BY <1>2
<1>4. ASSUME NEW cells \in Nat PROVE shorten(cells) \in Seq(Lossies)
  <2>1. ASSUME NEW b \in 1..Len(bases) PROVE Lossy(cut(bases[b], cells), bases[b]) \in Lossies
    <3> HIDE DEF cut
    <3> QED  BY <1>1, <1>2 DEF Lossy, Lossies
  <2> HIDE DEF cut
  <2> QED  BY <1>1, <2>1
<1>5. elide \in Seq(Lossies)
  <2>1. ASSUME NEW b \in 1..Len(bases)
        PROVE  Lossy([last(bases[b]) EXCEPT !.member_keep = 3], last(bases[b])) \in Lossies
    <3>1. last(bases[b]) \in Settings
      BY <1>1, <1>3
    <3> HIDE DEF last
    <3>2. [last(bases[b]) EXCEPT !.member_keep = 3] \in Settings
      BY <1>2, <3>1
    <3> QED  BY <3>1, <3>2 DEF Lossy, Lossies
  <2> HIDE DEF last
  <2> QED  BY <1>1, <2>1
<1> HIDE DEF shorten, elide
<1>6. shorten(20) \o shorten(12) \o shorten(8) \o elide \in Seq(Lossies)
  BY <1>4, <1>5
<1>7. PushTruncations(ladder, graph, bases)
        = PushAll(ladder, graph, shorten(20) \o shorten(12) \o shorten(8) \o elide)
  BY DEF PushTruncations, shorten, elide
<1> QED  BY <1>6, <1>7, AllPushed

\* The ladder of a graph, with or without the flipped and the lossy rungs.
LEMMA GraphLadderSound ==
  ASSUME NEW graph, NEW fit \in FitOptions
  PROVE  /\ SoundLadder(graph, build_graph_ladder(graph, fit))
         /\ Len(build_graph_ladder(graph, fit)) > 0
<1> DEFINE lever == Solve("strip_horizontal_subgraph_overrides", TRUE)
           strip(built) == IF fit.flip THEN PushStep(built, lever, graph, None) ELSE built
           u9 == push_sequence(<<>>, graph, AsAuthored)
           u == strip(u9)
           f == push_sequence(u.ladder, graph, [AsAuthored EXCEPT !.flip = TRUE])
           ladder == IF fit.flip THEN f.ladder ELSE u.ladder
           bases == IF fit.flip THEN <<u.settings, f.settings>> ELSE <<u.settings>>
<1>1. AsAuthored \in Settings /\ [AsAuthored EXCEPT !.flip = TRUE] \in Settings
  BY DEF AsAuthored, Settings
<1>2. SoundLadder(graph, <<>>)
  BY DEF SoundLadder
<1>3. SoundLadder(graph, u9.ladder) /\ Len(u9.ladder) > 0 /\ u9.settings \in Settings
  <2> HIDE DEF u9
  <2> QED  BY <1>1, <1>2, SequenceSound DEF u9
<1> HIDE DEF u9
<1>4. SoundLadder(graph, u.ladder) /\ Len(u.ladder) > 0 /\ u.settings \in Settings
  <2> DEFINE stripped == [u9.settings EXCEPT !["strip_horizontal_subgraph_overrides"] = TRUE]
  <2>1. stripped \in Settings
    BY <1>3 DEF Settings
  <2> HIDE DEF stripped
  <2>2. /\ SoundLadder(graph, Append(u9.ladder, Rung(stripped, None)))
        /\ Len(Append(u9.ladder, Rung(stripped, None))) > 0
    <3>1. SoundLadder(graph, Append(u9.ladder, Rung(stripped, None)))
      BY <1>3, <2>1, PushKeepsSound
    <3>2. Len(Append(u9.ladder, Rung(stripped, None))) = Len(u9.ladder) + 1 /\ Len(u9.ladder) \in Nat
      BY <1>3 DEF SoundLadder
    <3> QED  BY <3>1, <3>2
  <2>3. PushStep(u9, lever, graph, None)
          = IF ChangesGraph(graph, stripped, u9.settings)
            THEN [ladder |-> Append(u9.ladder, Rung(stripped, None)), settings |-> stripped]
            ELSE u9
    BY DEF PushStep, Solve, stripped
  <2>4. u = u9 \/ u = [ladder |-> Append(u9.ladder, Rung(stripped, None)), settings |-> stripped]
    BY <2>3
  <2> HIDE DEF u, stripped
  <2>5. CASE u = u9
    BY <1>3, <2>5
  <2>6. CASE u = [ladder |-> Append(u9.ladder, Rung(stripped, None)), settings |-> stripped]
    <3>1. u.ladder = Append(u9.ladder, Rung(stripped, None)) /\ u.settings = stripped
      BY <2>6
    <3> QED  BY <2>1, <2>2, <3>1
  <2> QED  BY <2>4, <2>5, <2>6
<1> HIDE DEF u
<1>7. SoundLadder(graph, f.ladder) /\ Len(f.ladder) > 0 /\ f.settings \in Settings
  BY <1>1, <1>4, SequenceSound
<1> HIDE DEF f
<1>8. SoundLadder(graph, ladder) /\ Len(ladder) > 0 /\ bases \in Seq(Settings)
  BY <1>4, <1>7
<1> HIDE DEF ladder, bases
<1>9. /\ SoundLadder(graph, PushTruncations(ladder, graph, bases))
      /\ Len(PushTruncations(ladder, graph, bases)) > 0
  <2>1. SoundLadder(graph, PushTruncations(ladder, graph, bases))
        /\ Len(PushTruncations(ladder, graph, bases)) >= Len(ladder)
    BY <1>8, TruncationsSound
  <2>2. Len(ladder) \in Nat /\ Len(PushTruncations(ladder, graph, bases)) \in Nat
    BY <1>8, <2>1 DEF SoundLadder
  <2> QED  BY <1>8, <2>1, <2>2
<1>10. build_graph_ladder(graph, fit)
         = IF fit.truncation THEN PushTruncations(ladder, graph, bases) ELSE ladder
  BY DEF build_graph_ladder, ladder, bases, f, u, u9
<1> QED  BY <1>8, <1>9, <1>10

\* Every ladder has a rung, and that of a graph is sound.
LEMMA LaddersSound ==
  ASSUME NEW r \in Requests
  PROVE  /\ Len(LadderOf(r)) \in Nat /\ Len(LadderOf(r)) > 0
         /\ r.kind = "graph" => SoundLadder(r.graph, LadderOf(r))
<1>1. r.kind \in {"graph", "document", "sequence"} /\ r.fit \in FitOptions
  BY RequestsAreWellFormed
<1>2. CASE r.kind = "graph"
  <2>1. LadderOf(r) = build_graph_ladder(r.graph, r.fit)
    BY <1>2 DEF LadderOf
  <2>2. SoundLadder(r.graph, LadderOf(r)) /\ Len(LadderOf(r)) > 0
    BY <1>1, <2>1, GraphLadderSound
  <2> QED  BY <2>2 DEF SoundLadder
<1>3. CASE r.kind = "document"
  <2> DEFINE Free(n) == /\ \A i \in 1..n : ~unflipped_steps[i].solve
                        /\ n < Len(unflipped_steps) => unflipped_steps[n + 1].solve
             steps == CHOOSE n \in 0..Len(unflipped_steps) : Free(n)
  <2>1. 3 \in 0..Len(unflipped_steps) /\ Free(3)
    BY StepFacts
  <2>2. steps \in 0..Len(unflipped_steps)
    <3> HIDE DEF Free
    <3> QED  BY <2>1
  <2>3. steps \in Nat
    BY <2>2, StepFacts
  <2>4. LadderOf(r) = build_replay_ladder
    BY <1>3 DEF LadderOf
  <2>5. \E s : build_replay_ladder = [n \in 1..(steps + 1) |-> s[n]]
    <3> DEFINE settings(n) == FoldLeft(LAMBDA s, step : [s EXCEPT ![step.field] = step.value],
                                       AsAuthored, SubSeq(unflipped_steps, 1, n))
               rung(n) == Rung(settings(n - 1), IF n = 1 THEN None ELSE 1)
               s == [n \in 1..(steps + 1) |-> rung(n)]
    <3>1. build_replay_ladder = s
      BY DEF build_replay_ladder
    <3> HIDE DEF rung, steps
    <3>2. s = [n \in 1..(steps + 1) |-> s[n]]
      OBVIOUS
    <3> QED  BY <3>1, <3>2
  <2> HIDE DEF steps
  <2>6. Len(build_replay_ladder) = steps + 1
    BY <2>3, <2>5
  <2> QED  BY <1>3, <2>3, <2>4, <2>6
<1>4. CASE r.kind = "sequence"
  BY <1>4 DEF LadderOf
<1> QED  BY <1>1, <1>2, <1>3, <1>4

----------------------------------------------------------------------------
(* The search.                                                             *)

\* A fit starts with nothing drawn.
LEMMA FitInitially == ASSUME FitInit PROVE FitIInv
<1>1. PICK r \in Requests : Start(r)
  BY DEF FitInit
<1>2. r.fit \in FitOptions /\ r.drawings \subseteq Drawings
  BY RequestsAreWellFormed
<1>3. Len(LadderOf(r)) \in Nat /\ Len(LadderOf(r)) > 0
  BY LaddersSound
<1>4. Typed
  BY <1>1, <1>2, <1>3, RequestsAreWellFormed DEF Start, Typed
<1>5. SearchInv
  BY <1>1 DEF Start, SearchInv
<1>6. ReportInv
  BY <1>1 DEF Start, ReportInv
<1> QED  BY <1>4, <1>5, <1>6 DEF FitIInv

\* Drawing one more rung, or none, takes nothing from what a report tells.
LEMMA TellsStays ==
  ASSUME Typed, drawn' \in Seq(Drawings), Len(drawn) <= Len(drawn'),
         \A i \in 1..Len(drawn) : drawn'[i] = drawn[i],
         Len(drawn) = Len(rungs) => drawn' = drawn,
         rungs' = rungs, before' = before,
         NEW n \in Nat, Tells(before, n)
  PROVE  Tells(before, n)'
<1>1. ASSUME NEW i \in 1..Len(drawn) PROVE (ValidAt(i)' <=> ValidAt(i)) /\ WidthAt(i)' = WidthAt(i)
  <2>1. 1 \in 1..Len(drawn)
    BY DEF Typed
  <2> QED  BY <2>1 DEF ValidAt, WidthAt
<1>2. CASE before.outcome # "BestAttempt"
  <2>1. n \in 1..Len(drawn) /\ n \in 1..Len(drawn')
    BY <1>2 DEF Tells, Typed
  <2>2. ValidBefore(n)' = ValidBefore(n) /\ \A i \in ValidBefore(n) : WidthAt(i)' = WidthAt(i)
    BY <1>1, <2>1 DEF ValidBefore, Typed
  <2>3. WidthsAt(ValidBefore(n))' = WidthsAt(ValidBefore(n))
    BY <2>2 DEF WidthsAt
  <2> QED  BY <1>1, <1>2, <2>1, <2>2, <2>3 DEF Tells
<1>3. CASE before.outcome = "BestAttempt"
  <2>1. drawn' = drawn
    BY <1>3 DEF Tells
  <2> QED  BY <1>3, <2>1 DEF Tells, ValidBefore, ValidAt, WidthAt, WidthsAt, Narrowest, First
<1> QED  BY <1>2, <1>3

\* What is said about the drawings does not change while no rung is drawn.
LEMMA DrawingsStay ==
  ASSUME drawn' = drawn, NEW n \in Nat
  PROVE  /\ WidthAt(n)' = WidthAt(n) /\ (ValidAt(n)' <=> ValidAt(n))
         /\ ValidBefore(n)' = ValidBefore(n) /\ ValidBefore(n + 1)' = ValidBefore(n + 1)
         /\ WidthsAt(ValidBefore(n))' = WidthsAt(ValidBefore(n))
         /\ WidthsAt(ValidBefore(n + 1))' = WidthsAt(ValidBefore(n + 1))
         /\ Narrowest(ValidBefore(n + 1))' = Narrowest(ValidBefore(n + 1))
         /\ First(Narrowest(ValidBefore(n + 1)))' = First(Narrowest(ValidBefore(n + 1)))
BY DEF WidthAt, ValidAt, ValidBefore, WidthsAt, Narrowest, First

LEMMA ReportStays ==
  ASSUME Typed, ReportInv, request' = request, rungs' = rungs, drawn' = drawn,
         before' = before, status' # "done"
  PROVE  ReportInv'
<1>1. ASSUME NEW n \in Nat, Tells(before, n) PROVE Tells(before, n)'
  BY <1>1, TellsStays DEF Typed
<1> QED  BY <1>1 DEF ReportInv

LEMMA ValidatedKeeps == ASSUME FitIInv, Validated PROVE FitIInv'
<1> USE DEF FitIInv, Validated
<1>1. Typed'
  BY DEF Typed
<1>2. SearchInv'
  BY DEF SearchInv, Fits, ValidAt
<1>3. ReportInv'
  BY ReportStays
<1> QED  BY <1>1, <1>2, <1>3

LEMMA SolveFailsKeeps == ASSUME FitIInv, SolveFails PROVE FitIInv'
<1> USE DEF FitIInv, SolveFails
<1>1. Typed'
  BY DEF Typed
<1>2. SearchInv'
  BY DEF SearchInv, Fits, ValidAt
<1>3. ReportInv'
  BY ReportStays
<1> QED  BY <1>1, <1>2, <1>3

LEMMA EvaluateKeeps == ASSUME FitIInv, Evaluate PROVE FitIInv'
<1> DEFINE index == Len(candidates) + 1
<1> USE DEF FitIInv
<1>1. PICK drawing \in IF index \in DOMAIN drawn THEN {drawn[index]} ELSE request.drawings :
        LET reference == IF index = 1 THEN drawing ELSE candidates[1].drawing
        IN  /\ candidates' = Append(candidates, Candidate(drawing, reference))
            /\ solved' = SolvedWith(index)
            /\ drawn' = IF index \in DOMAIN drawn THEN drawn ELSE Append(drawn, drawing)
  BY DEF Evaluate
<1>2. drawing \in Drawings /\ Len(candidates) \in Nat /\ Len(drawn) \in Nat
  BY <1>1 DEF Typed
<1>3. /\ request' = request /\ rungs' = rungs /\ status' = status /\ before' = before
      /\ status = "searching" /\ ~Found /\ Len(candidates) < Len(rungs)
  BY DEF Evaluate, SearchGoesOn
<1>4. /\ drawn' \in Seq(Drawings) /\ Len(drawn) <= Len(drawn') /\ Len(drawn') <= Len(rungs)
      /\ index <= Len(drawn') /\ drawn'[index] = drawing
      /\ \A i \in 1..Len(drawn) : drawn'[i] = drawn[i]
      /\ Len(drawn) = Len(rungs) => drawn' = drawn
  BY <1>1, <1>2, <1>3 DEF Typed
<1>5. PICK reference \in Drawings :
        /\ candidates' = Append(candidates, Candidate(drawing, reference))
        /\ reference = drawn'[1]
  <2>1. CASE index = 1
    BY <1>1, <1>2, <1>4, <2>1
  <2>2. CASE index # 1
    <3>1. 1 \in 1..Len(candidates) /\ 1 \in 1..Len(drawn)
      BY <1>2, <2>2 DEF Typed
    <3>2. candidates[1].drawing = drawn[1] /\ drawn[1] \in Drawings /\ drawn'[1] = drawn[1]
      BY <1>4, <3>1 DEF SearchInv, Typed
    <3> QED  BY <1>1, <2>2, <3>2
  <2> QED  BY <2>1, <2>2
<1>6. Candidate(drawing, reference) \in Candidates
  BY <1>2 DEF Candidate, Candidates
<1>7. /\ candidates' \in Seq(Candidates) /\ Len(candidates') = index
      /\ candidates'[index] = Candidate(drawing, reference)
      /\ \A i \in 1..Len(candidates) : candidates'[i] = candidates[i]
  BY <1>2, <1>5, <1>6 DEF Typed
<1>8. Typed'
  BY <1>2, <1>3, <1>4, <1>7 DEF Typed
<1>9. SearchInv'
  <2>1. ASSUME NEW i \in 1..index
        PROVE  /\ candidates'[i].drawing = drawn'[i]
               /\ candidates'[i].valid = ValidAt(i)'
               /\ Fits(i)' => i = Len(candidates')
    <3>1. CASE i = index
      <4>1. candidates'[i].drawing = drawing /\ drawn'[i] = drawing
        BY <1>4, <1>7, <3>1 DEF Candidate
      <4>2. candidates'[i].valid = (regressions_against(drawing.audit, drawn'[1].audit) = {})
        BY <1>5, <1>7, <3>1 DEF Candidate
      <4> QED  BY <1>7, <3>1, <4>1, <4>2 DEF ValidAt
    <3>2. CASE i # index
      <4>1. i \in 1..Len(candidates) /\ i \in 1..Len(drawn) /\ 1 \in 1..Len(drawn)
        BY <1>2, <3>2 DEF Typed
      <4>2. candidates'[i] = candidates[i] /\ drawn'[i] = drawn[i] /\ drawn'[1] = drawn[1]
        BY <1>4, <1>7, <4>1
      <4>3. ValidAt(i)' <=> ValidAt(i)
        BY <4>2 DEF ValidAt
      <4>4. ~Fits(i)
        BY <1>3, <4>1 DEF SearchInv, Found
      <4>5. ~Fits(i)'
        BY <1>3, <4>2, <4>4 DEF Fits
      <4> QED  BY <4>1, <4>2, <4>3, <4>5 DEF SearchInv, ValidAt
    <3> QED  BY <3>1, <3>2
  <2> QED  BY <1>3, <1>7, <2>1 DEF SearchInv
<1>10. ReportInv'
  <2>1. ASSUME request.fit.max_height = None, before # None
        PROVE  request'.fit.max_width # None /\ \E n \in Nat : Tells(before, n)'
    <3>1. PICK n \in Nat : Tells(before, n)
      BY <2>1 DEF ReportInv
    <3>2. Tells(before, n)'
      BY <1>3, <1>4, <3>1, TellsStays
    <3> QED  BY <1>3, <2>1, <3>2 DEF ReportInv
  <2> QED  BY <1>3, <2>1 DEF ReportInv
<1> QED  BY <1>8, <1>9, <1>10

\* With no height asked for, overflow only compares widths.
LEMMA LeadersAreNarrowest ==
  ASSUME Typed, SearchInv, request.fit.max_height = None, ~Found,
         Len(candidates) = Len(rungs)
  PROVE  /\ Len(drawn) = Len(candidates)
         /\ Valid = ValidBefore(Len(candidates) + 1)
         /\ request.fit.max_width # None
         /\ NoneFits(request.fit.max_width, Valid)
         /\ Leaders = Narrowest(Valid)
<1> DEFINE n == Len(candidates)
<1>1. Len(drawn) = n /\ n \in Nat /\ n > 0 /\ DOMAIN candidates = 1..n
  BY DEF Typed
<1>2. Valid = ValidBefore(n + 1)
  BY <1>1 DEF Valid, ValidBefore, SearchInv, Typed
<1>3. ASSUME NEW i \in 1..n
      PROVE  /\ candidates[i].drawing = drawn[i] /\ drawn[i] \in Drawings
             /\ WidthAt(i) \in Nat /\ candidates[i].drawing.width = WidthAt(i)
             /\ ~Fits(i)
  <2>1. drawn[i] \in Drawings
    BY <1>1 DEF Typed
  <2>2. candidates[i].drawing = drawn[i]
    BY <1>1 DEF SearchInv
  <2>3. candidates # <<>>
    BY <1>1
  <2>4. ~Fits(i)
    BY <1>1, <2>3 DEF SearchInv, Found
  <2> QED  BY <2>1, <2>2, <2>4 DEF WidthAt, Drawings
<1>4. ASSUME NEW i \in Valid
      PROVE  request.fit.max_width # None /\ request.fit.max_width < WidthAt(i)
  <2>1. i \in 1..n /\ candidates[i].valid
    BY <1>1 DEF Valid
  <2>2. ~fits_budget(candidates[i].drawing, request.fit)
    BY <1>3, <2>1 DEF Fits
  <2>3. request.fit.max_width # None /\ ~(WidthAt(i) <= request.fit.max_width)
    BY <1>3, <2>1, <2>2 DEF fits_budget
  <2>4. request.fit.max_width \in Nat
    BY <2>3 DEF Typed, FitOptions
  <2> QED  BY <1>3, <2>1, <2>3, <2>4
<1>5. 1 \in Valid
  <2>1. 1 \in 1..n
    BY <1>1
  <2>2. drawn[1].audit.broken \ drawn[1].audit.broken = {} /\ ~(drawn[1].audit.arrows < drawn[1].audit.arrows)
    BY <1>3, <2>1 DEF Drawings
  <2>3. ValidAt(1)
    BY <2>2 DEF ValidAt, regressions_against
  <2> QED  BY <1>1, <2>1, <2>3 DEF Valid, SearchInv
<1>6. ASSUME NEW i \in Valid, NEW j \in Valid
      PROVE  Ahead(i, j) <=> \/ WidthAt(i) < WidthAt(j)
                             \/ WidthAt(i) = WidthAt(j) /\ i <= j
  <2> DEFINE W == request.fit.max_width
  <2>1. ASSUME NEW k \in Valid
        PROVE  overflow(candidates[k].drawing, request.fit) = <<WidthAt(k) - W, 0>>
    <3>1. k \in 1..n
      BY <1>1 DEF Valid
    <3>2. WidthAt(k) \in Nat /\ candidates[k].drawing.width = WidthAt(k)
      BY <1>3, <3>1
    <3>3. W \in Nat /\ W < WidthAt(k)
      BY <1>4 DEF Typed, FitOptions
    <3> QED  BY <1>4, <3>2, <3>3 DEF overflow
  <2>2. WidthAt(i) \in Nat /\ WidthAt(j) \in Nat /\ W \in Nat
    BY <1>1, <1>3, <1>4 DEF Valid, Typed, FitOptions
  <2>3. Ahead(i, j) <=> \/ WidthAt(i) - W < WidthAt(j) - W
                        \/ WidthAt(i) - W = WidthAt(j) - W /\ i <= j
    BY <2>1, <2>2 DEF Ahead
  <2> QED  BY <2>2, <2>3
<1>7. Leaders = Narrowest(Valid)
  BY <1>6 DEF Leaders, Narrowest
<1> QED  BY <1>1, <1>2, <1>4, <1>5, <1>7 DEF NoneFits

LEMMA ConcludeKeeps == ASSUME FitIInv, Conclude PROVE FitIInv'
<1> USE DEF FitIInv
<1> PICK n \in Nat : n = Len(candidates)
  BY DEF Typed
<1>1. /\ UNCHANGED <<request, rungs, candidates, drawn, before>>
      /\ status = "searching" /\ status' = "done"
      /\ Found \/ n = Len(rungs)
  BY DEF Conclude
<1>2. Typed'
  BY <1>1 DEF Typed
<1>3. SearchInv'
  BY <1>1 DEF SearchInv, Fits, ValidAt
<1>4. ASSUME request.fit.max_height = None
      PROVE  (report'.outcome # "BestAttempt" <=> Found) /\ Tells(report, n)'
  <2>1. ValidBefore(n)' = ValidBefore(n) /\ ValidBefore(n + 1)' = ValidBefore(n + 1)
        /\ Len(drawn)' = Len(drawn) /\ Len(rungs)' = Len(rungs)
        /\ Narrowest(ValidBefore(n + 1))' = Narrowest(ValidBefore(n + 1))
    BY <1>1 DEF ValidBefore, ValidAt, Narrowest, WidthAt
  <2>2. CASE Found
    <3>1. n \in 1..n /\ n \in 1..Len(drawn) /\ Fits(n) /\ DOMAIN candidates = 1..n
      BY <2>2 DEF Typed, Found
    <3>2. /\ report'.pick = n /\ report'.outcome # "BestAttempt"
          /\ report'.stable_for =
               [min_width |-> candidates[n].drawing.width,
                max_width |-> IF Earlier(n) = {} THEN None
                              ELSE JustBelow(Min(WidthsOf(Earlier(n))))]
      BY <1>4, <2>2 DEF Conclude, stable_for
    <3>3. ValidAt(n) /\ candidates[n].drawing.width = WidthAt(n)
      BY <3>1 DEF SearchInv, Fits, WidthAt
    <3>4. Earlier(n) = ValidBefore(n)
      <4>1. ASSUME NEW i PROVE i \in Earlier(n) <=> i \in ValidBefore(n)
        BY <3>1 DEF Earlier, Valid, ValidBefore, SearchInv
      <4> QED  BY <4>1
    <3>5. WidthsOf(ValidBefore(n)) = WidthsAt(ValidBefore(n))
      <4>1. \A i \in ValidBefore(n) : candidates[i].drawing.width = WidthAt(i)
        <5>1. ASSUME NEW i \in ValidBefore(n) PROVE i \in 1..n
          BY <3>1, <5>1 DEF ValidBefore
        <5> QED  BY <5>1 DEF SearchInv, WidthAt
      <4> QED  BY <4>1 DEF WidthsOf, WidthsAt
    <3>6. /\ report'.stable_for.min_width = WidthAt(n)
          /\ report'.stable_for.max_width = IF ValidBefore(n) = {} THEN None
               ELSE JustBelow(Min(WidthsAt(ValidBefore(n))))
      BY <3>2, <3>3, <3>4, <3>5
    <3>7. ValidAt(n)' /\ WidthAt(n)' = WidthAt(n)
          /\ WidthsAt(ValidBefore(n))' = WidthsAt(ValidBefore(n))
      BY <1>1, <2>1, <3>3 DEF ValidAt, WidthAt, WidthsAt
    <3> QED  BY <2>1, <2>2, <3>1, <3>2, <3>6, <3>7 DEF Tells
  <2>3. CASE ~Found
    <3>1. /\ Len(drawn) = n /\ n = Len(rungs) /\ Valid = ValidBefore(n + 1)
          /\ Leaders = Narrowest(ValidBefore(n + 1))
      BY <1>1, <1>4, <2>3, LeadersAreNarrowest
    <3>2. /\ report'.outcome = "BestAttempt" /\ report'.pick = BestAttempt
          /\ report'.stable_for = [min_width |-> 1, max_width |-> JustBelow(Min(WidthsOf(Valid)))]
      BY <1>4, <2>3 DEF Conclude, stable_for
    <3>3. WidthsOf(Valid) = WidthsAt(ValidBefore(n + 1))
      <4>1. \A i \in ValidBefore(n + 1) : candidates[i].drawing.width = WidthAt(i)
        <5>1. ASSUME NEW i \in ValidBefore(n + 1) PROVE i \in 1..n
          BY <5>1 DEF ValidBefore, Typed
        <5> QED  BY <5>1 DEF SearchInv, WidthAt
      <4> QED  BY <3>1, <4>1 DEF WidthsOf, WidthsAt
    <3>4. /\ report'.stable_for.min_width = 1
          /\ report'.stable_for.max_width = JustBelow(Min(WidthsAt(ValidBefore(n + 1))))
          /\ report'.pick = First(Narrowest(ValidBefore(n + 1)))
      BY <3>1, <3>2, <3>3 DEF BestAttempt, First
    <3>5. WidthsAt(ValidBefore(n + 1))' = WidthsAt(ValidBefore(n + 1))
      BY <1>1, <2>1 DEF WidthAt, WidthsAt
    <3> QED  BY <2>1, <2>3, <3>1, <3>2, <3>4, <3>5 DEF Tells
  <2> QED  BY <2>2, <2>3
<1>5. ASSUME request.fit.max_height = None, NEW m \in Nat, Tells(before, m) PROVE Tells(before, m)'
  BY <1>1, <1>5, TellsStays DEF Typed
<1>6. ReportInv'
  BY <1>1, <1>4, <1>5 DEF ReportInv, Found, Fits
<1> QED  BY <1>2, <1>3, <1>6

LEMMA ResizeKeeps == ASSUME FitIInv, Resize PROVE FitIInv'
<1> USE DEF FitIInv
<1>1. /\ UNCHANGED <<rungs, drawn>> /\ candidates' = <<>>
      /\ status = "done" /\ status' = "ready" /\ before' = report
  BY DEF Resize
<1>2. PICK w \in Widths : request' = [request EXCEPT !.fit.max_width = w]
  BY DEF Resize
<1>3. w \in Nat /\ w # None
  BY RequestsAreWellFormed
<1>4. /\ request'.fit \in FitOptions
      /\ request'.fit.max_width # None
      /\ request'.fit.max_height = request.fit.max_height
      /\ request'.drawings = request.drawings
      /\ request' = [kind |-> request'.kind, text |-> request'.text, fit |-> request'.fit,
                     graph |-> request'.graph, drawings |-> request'.drawings]
  BY <1>2, <1>3 DEF Typed, FitOptions
<1>5. Typed'
  BY <1>1, <1>4 DEF Typed
<1>6. SearchInv'
  BY <1>1 DEF SearchInv
<1>7. ASSUME request.fit.max_height = None
      PROVE  \E n \in Nat : Tells(before, n)'
  <2> PICK n \in Nat : n = Len(candidates)
    BY DEF Typed
  <2>1. Tells(report, n)
    BY <1>1, <1>7 DEF ReportInv
  <2>2. Tells(before, n)'
    BY <1>1, <2>1, DrawingsStay DEF Tells
  <2> QED  BY <2>2
<1>8. ReportInv'
  BY <1>1, <1>4, <1>7 DEF ReportInv
<1> QED  BY <1>5, <1>6, <1>8

THEOREM FitInvariant == FitSpec => []FitIInv
<1>1. FitInit => FitIInv
  BY FitInitially
<1>2. FitIInv /\ [FitNext]_fitVars => FitIInv'
  <2> SUFFICES ASSUME FitIInv, [FitNext]_fitVars PROVE FitIInv'
    OBVIOUS
  <2>1. CASE Validated
    BY <2>1, ValidatedKeeps
  <2>2. CASE Evaluate
    BY <2>2, EvaluateKeeps
  <2>3. CASE SolveFails
    BY <2>3, SolveFailsKeeps
  <2>4. CASE Conclude
    BY <2>4, ConcludeKeeps
  <2>5. CASE Resize
    BY <2>5, ResizeKeeps
  <2>6. CASE UNCHANGED fitVars
    <3> USE <2>6 DEF fitVars, FitIInv
    <3>1. Typed'
      BY DEF Typed
    <3>2. SearchInv'
      BY DEF SearchInv, Fits, ValidAt
    <3>3. ASSUME NEW n \in Nat PROVE /\ Tells(before, n)' <=> Tells(before, n)
                                     /\ Tells(report, n)' <=> Tells(report, n)
      BY DrawingsStay DEF Tells
    <3>4. PICK m \in Nat : m = Len(candidates)
      BY DEF Typed
    <3>5. status = "done" /\ request.fit.max_height = None => Tells(report, m)'
      BY <3>3, <3>4 DEF ReportInv
    <3>6. ReportInv'
      BY <3>3, <3>4, <3>5 DEF ReportInv, Found, Fits
    <3> QED  BY <3>1, <3>2, <3>6
  <2> QED  BY <2>1, <2>2, <2>3, <2>4, <2>5, <2>6 DEF FitNext
<1> QED  BY <1>1, <1>2, PTL DEF FitSpec

\* The invariant makes the range exact: a rung picked because it fits is picked
\* for just the widths that it fits and no valid rung before it does, and the
\* best attempt for just the widths that no valid rung fits.
LEMMA RangeFromInvariant == ASSUME FitIInv PROVE StableRangeIsExact
<1> SUFFICES ASSUME status = "done", before # None, request.fit.max_height = None
             PROVE  InRange(request.fit.max_width, before.stable_for)
                      <=> /\ report.pick = before.pick
                          /\ (report.outcome = "BestAttempt") = (before.outcome = "BestAttempt")
  BY DEF StableRangeIsExact
<1> USE DEF FitIInv
<1> PICK m \in Nat : m = Len(candidates)
  BY DEF Typed
<1> PICK n \in Nat : Tells(before, n)
  BY DEF ReportInv
<1> PICK W \in Nat : W = request.fit.max_width /\ W # 0
  BY DEF ReportInv, SearchInv, Typed, FitOptions
<1>1. /\ report.outcome # "BestAttempt" <=> Found
      /\ Found \/ m = Len(rungs)
      /\ Tells(report, m)
  BY DEF ReportInv
<1>2. /\ Len(drawn) \in Nat /\ Len(rungs) \in Nat /\ m <= Len(drawn) /\ Len(drawn) <= Len(rungs)
      /\ DOMAIN candidates = 1..m
  BY DEF Typed
<1>3. ASSUME NEW i \in 1..Len(drawn) PROVE WidthAt(i) \in Nat
  <2>1. drawn[i] \in Drawings
    BY DEF Typed
  <2> QED  BY <2>1 DEF WidthAt, Drawings
\* Which candidates of the second search fit its width.
<1>4. ASSUME NEW i \in 1..m PROVE (ValidAt(i) /\ WidthAt(i) <= W) <=> (Found /\ i = m)
  <2>1. Fits(i) <=> ValidAt(i) /\ WidthAt(i) <= W
    <3>1. candidates[i].drawing = drawn[i] /\ (candidates[i].valid <=> ValidAt(i))
      BY DEF SearchInv
    <3>2. request.fit.max_width # None
      BY RequestsAreWellFormed
    <3> QED  BY <3>1, <3>2 DEF Fits, fits_budget, WidthAt
  <2>2. Fits(i) => i = m
    BY DEF SearchInv
  <2>3. Found <=> Fits(m)
    BY <1>2 DEF Found
  <2> QED  BY <2>1, <2>2, <2>3
<1>5. CASE before.outcome # "BestAttempt"
  <2>1. /\ before.pick = n /\ n \in 1..Len(drawn) /\ ValidAt(n)
        /\ before.stable_for.min_width = WidthAt(n)
        /\ before.stable_for.max_width = IF ValidBefore(n) = {} THEN None
             ELSE JustBelow(Min(WidthsAt(ValidBefore(n))))
    BY <1>5 DEF Tells
  <2>2. InRange(W, before.stable_for) <=> WidthAt(n) <= W /\ NoneFits(W, ValidBefore(n))
    <3>1. CASE ValidBefore(n) = {}
      BY <2>1, <3>1 DEF InRange, NoneFits
    <3>2. CASE ValidBefore(n) # {}
      <4>1. W <= JustBelow(Min(WidthsAt(ValidBefore(n)))) <=> NoneFits(W, ValidBefore(n))
        BY <1>2, <2>1, <3>2, BelowTheNarrowest
      <4>2. JustBelow(Min(WidthsAt(ValidBefore(n)))) # None
        <5>1. WidthsAt(ValidBefore(n)) \in SUBSET Nat /\ WidthsAt(ValidBefore(n)) # {}
          BY <1>2, <1>3, <2>1, <3>2 DEF WidthsAt, ValidBefore
        <5>2. Min(WidthsAt(ValidBefore(n))) \in Nat
          BY <5>1, SmallestWidth
        <5> QED  BY <5>2, RequestsAreWellFormed DEF JustBelow
      <4> QED  BY <2>1, <3>2, <4>1, <4>2 DEF InRange
    <3> QED  BY <3>1, <3>2
  <2>3. Found => report.pick = m /\ m \in 1..m
    BY <1>1, <1>2 DEF Tells, Found
  <2>4. ASSUME WidthAt(n) <= W, NoneFits(W, ValidBefore(n)) PROVE Found /\ m = n
    <3>1. n <= m
      <4>1. CASE Found
        <5>1. m \in 1..m /\ ValidAt(m) /\ WidthAt(m) <= W
          BY <1>4, <2>3, <4>1
        <5>2. m \notin ValidBefore(n)
          BY <1>2, <1>3, <2>4, <5>1 DEF NoneFits
        <5> QED  BY <2>1, <5>1, <5>2 DEF ValidBefore
      <4>2. CASE ~Found
        BY <1>1, <1>2, <2>1, <4>2
      <4> QED  BY <4>1, <4>2
    <3>2. n \in 1..m
      BY <1>2, <2>1, <3>1
    <3> QED  BY <1>4, <2>1, <2>4, <3>2
  <2>5. ASSUME Found, m = n PROVE WidthAt(n) <= W /\ NoneFits(W, ValidBefore(n))
    <3>1. n \in 1..m /\ WidthAt(n) <= W
      BY <1>4, <2>3, <2>5
    <3>2. ASSUME NEW i \in ValidBefore(n) PROVE W < WidthAt(i)
      <4>1. i \in 1..m /\ i # m /\ ValidAt(i) /\ i \in 1..Len(drawn)
        BY <1>2, <2>5, <3>2 DEF ValidBefore
      <4> QED  BY <1>3, <1>4, <4>1
    <3> QED  BY <3>1, <3>2 DEF NoneFits
  <2>6. report.pick = before.pick /\ report.outcome # "BestAttempt" <=> Found /\ m = n
    BY <1>1, <2>1, <2>3
  <2> QED  BY <1>5, <2>2, <2>4, <2>5, <2>6
<1>6. CASE before.outcome = "BestAttempt"
  <2>1. /\ n = Len(rungs) /\ n = Len(drawn) /\ n # 0
        /\ before.pick = First(Narrowest(ValidBefore(n + 1)))
        /\ before.stable_for.min_width = 1
        /\ before.stable_for.max_width = JustBelow(Min(WidthsAt(ValidBefore(n + 1))))
    BY <1>6 DEF Tells, Typed
  <2>2. 1 \in ValidBefore(n + 1)
    <3>1. 1 \in 1..Len(drawn) /\ drawn[1] \in Drawings
      BY <1>2, <2>1 DEF Typed
    <3>2. drawn[1].audit.broken \ drawn[1].audit.broken = {}
          /\ ~(drawn[1].audit.arrows < drawn[1].audit.arrows)
      BY <3>1 DEF Drawings
    <3>3. ValidAt(1)
      BY <3>2 DEF ValidAt, regressions_against
    <3> QED  BY <2>1, <3>1, <3>3 DEF ValidBefore
  <2>3. InRange(W, before.stable_for) <=> NoneFits(W, ValidBefore(n + 1))
    <3>1. W <= JustBelow(Min(WidthsAt(ValidBefore(n + 1)))) <=> NoneFits(W, ValidBefore(n + 1))
      BY <1>2, <2>1, <2>2, BelowTheNarrowest
    <3>2. JustBelow(Min(WidthsAt(ValidBefore(n + 1)))) # None
      <4>1. WidthsAt(ValidBefore(n + 1)) \in SUBSET Nat /\ WidthsAt(ValidBefore(n + 1)) # {}
        BY <1>2, <1>3, <2>1, <2>2 DEF WidthsAt, ValidBefore
      <4>2. Min(WidthsAt(ValidBefore(n + 1))) \in Nat
        BY <4>1, SmallestWidth
      <4> QED  BY <4>2, RequestsAreWellFormed DEF JustBelow
    <3> QED  BY <2>1, <3>1, <3>2 DEF InRange
  <2>4. ASSUME ~Found PROVE NoneFits(W, ValidBefore(n + 1)) /\ report.pick = before.pick
    <3>1. m = Len(rungs) /\ m = n
      BY <1>1, <2>1, <2>4
    <3>2. report.pick = First(Narrowest(ValidBefore(m + 1)))
      BY <1>1, <2>4 DEF Tells
    <3>3. ASSUME NEW i \in ValidBefore(n + 1) PROVE W < WidthAt(i)
      <4>1. i \in 1..m /\ ValidAt(i) /\ i \in 1..Len(drawn)
        BY <1>2, <3>1, <3>3 DEF ValidBefore
      <4> QED  BY <1>3, <1>4, <2>4, <4>1
    <3> QED  BY <2>1, <3>1, <3>2, <3>3 DEF NoneFits
  <2>5. ASSUME Found PROVE ~NoneFits(W, ValidBefore(n + 1))
    <3>1. m \in 1..m /\ ValidAt(m) /\ WidthAt(m) <= W /\ m \in 1..Len(drawn)
      BY <1>1, <1>2, <1>4, <2>5 DEF Tells
    <3>2. m \in ValidBefore(n + 1) /\ WidthAt(m) \in Nat
      BY <1>3, <2>1, <3>1 DEF ValidBefore
    <3> QED  BY <3>1, <3>2 DEF NoneFits
  <2> QED  BY <1>1, <1>6, <2>3, <2>4, <2>5
<1> QED  BY <1>5, <1>6

(***************************************************************************)
(* For every ladder and every drawing of its rungs, a caller that keeps a  *)
(* drawing while the terminal's width stays in stable_for keeps what a new *)
(* search would draw, and outside of it a new search ends differently.     *)
(***************************************************************************)
THEOREM StableRangeCorrect == FitSpec => []StableRangeIsExact
<1>1. FitIInv => StableRangeIsExact
  BY RangeFromInvariant
<1> QED  BY <1>1, FitInvariant, PTL
----------------------------------------------------------------------------
(* The answer is the one it should be.                                     *)

\* What the report of a finished search says of the candidates.
AnswerInv ==
  status = "done" =>
    /\ Found \/ Len(candidates) = Len(rungs)
    /\ report.pick = IF Found THEN Len(candidates) ELSE BestAttempt
    /\ report.outcome = "BestAttempt" <=> ~Found

\* Of the candidates in a set, one is the least by any measure.
LEMMA LeastBy ==
  ASSUME NEW S, S # {}, NEW f, \A i \in S : f[i] \in Nat
  PROVE  \E i \in S : \A j \in S : f[i] <= f[j]
<1> DEFINE V == {f[i] : i \in S}
<1>1. V \in SUBSET Nat /\ V # {}
  OBVIOUS
<1>2. \A i \in S : f[i] \in V
  OBVIOUS
<1>3. Min(V) \in V /\ \A n \in V : Min(V) <= n
  <2> HIDE DEF V
  <2> QED  BY <1>1, SmallestWidth
<1>4. PICK i \in S : f[i] = Min(V)
  BY <1>3
<1>5. \A j \in S : Min(V) <= f[j]
  <2> HIDE DEF V
  <2> QED  BY <1>2, <1>3
<1> QED  BY <1>4, <1>5

\* The drawing as authored is audited against itself.
LEMMA AsAuthoredIsValid ==
  ASSUME Typed, SearchInv, Len(candidates) = Len(rungs)
  PROVE  1 \in Valid
<1>1. 1 \in 1..Len(candidates) /\ DOMAIN candidates = 1..Len(candidates) /\ 1 \in 1..Len(drawn)
  BY DEF Typed
<1>2. drawn[1] \in Drawings
  BY <1>1 DEF Typed
<1>3. drawn[1].audit.broken \ drawn[1].audit.broken = {}
      /\ ~(drawn[1].audit.arrows < drawn[1].audit.arrows)
  BY <1>2 DEF Drawings
<1>4. ValidAt(1)
  BY <1>3 DEF ValidAt, regressions_against
<1> QED  BY <1>1, <1>4 DEF Valid, SearchInv

\* When nothing fits, some valid candidate is ahead of every other.
LEMMA SomeLeader ==
  ASSUME Typed, SearchInv, Len(candidates) = Len(rungs)
  PROVE  BestAttempt \in Leaders
<1> DEFINE over(i) == overflow(candidates[i].drawing, request.fit)
           wide == [i \in Valid |-> over(i)[1]]
           high == [i \in Valid |-> over(i)[2]]
           place == [i \in Valid |-> i]
           A == {i \in Valid : \A j \in Valid : wide[i] <= wide[j]}
           B == {i \in A : \A j \in A : high[i] <= high[j]}
<1>1. ASSUME NEW i \in Valid PROVE i \in Nat /\ over(i)[1] \in Nat /\ over(i)[2] \in Nat
  <2>1. i \in 1..Len(candidates) /\ Len(candidates) \in Nat
    BY DEF Valid, Typed
  <2>2. candidates[i] \in Candidates
    BY <2>1 DEF Typed
  <2>3. candidates[i].drawing.width \in Nat /\ candidates[i].drawing.height \in Nat
    BY <2>2 DEF Candidates, Drawings
  <2>4. request.fit.max_width \in Nat \union {None} /\ request.fit.max_height \in Nat \union {None}
    BY DEF Typed, FitOptions
  <2> QED  BY <2>1, <2>3, <2>4 DEF overflow
<1>2. \A i \in Valid : wide[i] \in Nat /\ high[i] \in Nat /\ place[i] \in Nat
  BY <1>1
<1>3. A # {}
  <2>1. Valid # {}
    BY AsAuthoredIsValid
  <2> HIDE DEF wide
  <2>2. \E i \in Valid : \A j \in Valid : wide[i] <= wide[j]
    BY <1>2, <2>1, LeastBy
  <2> QED  BY <2>2
<1>4. B # {}
  <2> HIDE DEF high, wide
  <2>1. A \subseteq Valid
    OBVIOUS
  <2> HIDE DEF A
  <2>2. \E i \in A : \A j \in A : high[i] <= high[j]
    BY <1>2, <1>3, <2>1, LeastBy
  <2> QED  BY <2>2
<1>5. PICK i \in B : \A j \in B : i <= j
  <2>1. B \subseteq Valid
    OBVIOUS
  <2>2. \A i \in Valid : place[i] = i
    OBVIOUS
  <2> HIDE DEF B, place
  <2>3. \E i \in B : \A j \in B : place[i] <= place[j]
    BY <1>2, <1>4, <2>1, LeastBy
  <2> QED  BY <2>1, <2>2, <2>3
<1>6. i \in Valid
  OBVIOUS
<1>7. ASSUME NEW j \in Valid PROVE Ahead(i, j)
  <2>1. over(i)[1] <= over(j)[1]
    BY <1>6
  <2>2. ASSUME over(i)[1] = over(j)[1] PROVE over(i)[2] <= over(j)[2]
    <3>1. \A k \in Valid : over(i)[1] <= over(k)[1]
      BY <1>6
    <3>2. j \in A
      BY <1>6, <2>2, <3>1
    <3> QED  BY <3>2
  <2>3. ASSUME over(i)[1] = over(j)[1], over(i)[2] = over(j)[2] PROVE i <= j
    <3>1. \A k \in Valid : over(i)[1] <= over(k)[1]
      BY <1>6
    <3>2. j \in A
      BY <2>3, <3>1
    <3>3. \A k \in A : over(i)[2] <= over(k)[2]
      BY <1>6
    <3>4. j \in B
      BY <2>3, <3>2, <3>3
    <3> QED  BY <1>5, <3>4
  <2>4. over(i) = <<over(i)[1], over(i)[2]>> /\ over(j) = <<over(j)[1], over(j)[2]>>
    BY DEF overflow
  <2>5. over(i)[1] = over(j)[1] /\ over(i)[2] = over(j)[2] => over(i) = over(j)
    BY <2>4
  <2>6. /\ over(i)[1] \in Nat /\ over(j)[1] \in Nat /\ over(i)[2] \in Nat /\ over(j)[2] \in Nat
    BY <1>1, <1>6
  <2>7. \/ over(i)[1] < over(j)[1]
        \/ over(i)[1] = over(j)[1] /\ over(i)[2] < over(j)[2]
        \/ over(i) = over(j) /\ i <= j
    <3> HIDE DEF over
    <3> QED  BY <2>1, <2>2, <2>3, <2>5, <2>6
  <2> QED  BY <2>7 DEF Ahead
<1>8. i \in Leaders
  BY <1>6, <1>7 DEF Leaders
<1> QED  BY <1>8 DEF BestAttempt

LEMMA AnswerFromInvariant == ASSUME FitIInv, AnswerInv PROVE AnswerIsValidAndNarrowest
<1> SUFFICES ASSUME status = "done"
             PROVE  /\ regressions_against(candidates[report.pick].drawing.audit,
                                           candidates[1].drawing.audit) = {}
                    /\ report.outcome # "BestAttempt" =>
                         fits_budget(candidates[report.pick].drawing, request.fit)
                    /\ report.outcome = "BestAttempt" =>
                         /\ Len(candidates) = Len(rungs)
                         /\ \A i \in Valid : ~fits_budget(candidates[i].drawing, request.fit)
                         /\ request.fit.max_height = None =>
                              \A i \in Valid : candidates[report.pick].drawing.width
                                                <= candidates[i].drawing.width
  BY DEF AnswerIsValidAndNarrowest
<1> USE DEF FitIInv
<1> PICK n \in Nat : n = Len(candidates) /\ DOMAIN candidates = 1..n
  BY DEF Typed
<1>1. ASSUME NEW i \in Valid
      PROVE  /\ i \in 1..n
             /\ regressions_against(candidates[i].drawing.audit, candidates[1].drawing.audit) = {}
  <2>1. i \in 1..n /\ candidates[i].valid
    BY DEF Valid
  <2>2. 1 \in 1..n
    BY <2>1
  <2>3. candidates[i].drawing = drawn[i] /\ candidates[1].drawing = drawn[1] /\ ValidAt(i)
    BY <2>1, <2>2 DEF SearchInv
  <2> QED  BY <2>1, <2>3 DEF ValidAt
<1>2. CASE Found
  <2>1. report.pick = n /\ report.outcome # "BestAttempt" /\ Fits(n)
    BY <1>2 DEF AnswerInv, Found
  <2>2. n \in 1..n
    BY <1>2 DEF Found, Typed
  <2>3. n \in Valid /\ fits_budget(candidates[n].drawing, request.fit)
    BY <2>1, <2>2 DEF Fits, Valid
  <2> QED  BY <1>1, <2>1, <2>3
<1>3. CASE ~Found
  <2>1. report.pick = BestAttempt /\ report.outcome = "BestAttempt" /\ n = Len(rungs)
    BY <1>3 DEF AnswerInv
  <2>2. report.pick \in Leaders
    BY <2>1, SomeLeader
  <2>3. report.pick \in Valid
    BY <2>2 DEF Leaders
  <2>4. ASSUME NEW i \in Valid PROVE ~fits_budget(candidates[i].drawing, request.fit)
    <3>1. i \in 1..n /\ candidates[i].valid
      BY DEF Valid
    <3>2. ~Fits(i)
      BY <1>3, <3>1 DEF SearchInv, Found
    <3> QED  BY <3>1, <3>2 DEF Fits
  <2>5. ASSUME request.fit.max_height = None, NEW i \in Valid
        PROVE  candidates[report.pick].drawing.width <= candidates[i].drawing.width
    <3>1. Leaders = Narrowest(Valid)
      BY <1>3, <2>1, <2>5, LeadersAreNarrowest
    <3>2. \/ WidthAt(report.pick) < WidthAt(i)
          \/ WidthAt(report.pick) = WidthAt(i) /\ report.pick <= i
      BY <2>2, <3>1 DEF Narrowest
    <3>3. ASSUME NEW k \in Valid
          PROVE  candidates[k].drawing.width = WidthAt(k) /\ WidthAt(k) \in Nat
      <4>1. k \in 1..n /\ k \in 1..Len(drawn)
        BY DEF Valid, Typed
      <4>2. drawn[k] \in Drawings
        BY <4>1 DEF Typed
      <4>3. candidates[k].drawing = drawn[k]
        BY <4>1 DEF SearchInv
      <4> QED  BY <4>2, <4>3 DEF WidthAt, Drawings
    <3> QED  BY <2>3, <3>2, <3>3
  <2> QED  BY <1>1, <2>1, <2>3, <2>4, <2>5
<1> QED  BY <1>2, <1>3

\* A report is written from the candidates of its search.
LEMMA AnswerInvariant == FitSpec => []AnswerInv
<1>1. FitInit => AnswerInv
  BY DEF FitInit, Start, AnswerInv
<1>2. AnswerInv /\ [FitNext]_fitVars => AnswerInv'
  <2> SUFFICES ASSUME AnswerInv, [FitNext]_fitVars, status' = "done" PROVE AnswerInv'
    BY DEF AnswerInv
  <2>1. CASE Conclude
    <3>1. /\ UNCHANGED <<request, rungs, candidates>>
          /\ Found \/ Len(candidates) = Len(rungs)
          /\ report'.pick = IF Found THEN Len(candidates) ELSE BestAttempt
          /\ report'.outcome = IF ~Found THEN "BestAttempt"
               ELSE IF report'.pick = 1 THEN "AsAuthored" ELSE "Fitted"
      BY <2>1 DEF Conclude
    <3>2. (Found <=> Found') /\ BestAttempt' = BestAttempt
      BY <3>1 DEF Found, Fits, BestAttempt, Leaders, Valid, Ahead
    <3> QED  BY <3>1, <3>2 DEF AnswerInv
  <2>2. CASE UNCHANGED fitVars
    <3>1. (Found <=> Found') /\ BestAttempt' = BestAttempt
      BY <2>2 DEF fitVars, Found, Fits, BestAttempt, Leaders, Valid, Ahead
    <3> QED  BY <2>2, <3>1 DEF fitVars, AnswerInv
  <2>3. Validated => FALSE
    BY DEF Validated
  <2>4. Evaluate \/ SolveFails \/ Resize => FALSE
    BY DEF Evaluate, SearchGoesOn, SolveFails, Resize
  <2> QED  BY <2>1, <2>2, <2>3, <2>4 DEF FitNext
<1> QED  BY <1>1, <1>2, PTL DEF FitSpec

(***************************************************************************)
(* For every ladder, every way its rungs may be drawn and every budget:    *)
(* the answer keeps what the drawing as authored shows, fits when it is    *)
(* said to, and is the narrowest valid drawing when nothing fits.          *)
(***************************************************************************)
THEOREM AnswerCorrect == FitSpec => []AnswerIsValidAndNarrowest
<1>1. FitIInv /\ AnswerInv => AnswerIsValidAndNarrowest
  BY AnswerFromInvariant
<1> QED  BY <1>1, AnswerInvariant, FitInvariant, PTL
----------------------------------------------------------------------------
(* The chosen settings.                                                    *)

\* Every rung drawn in this search that solves left the graph of its settings.
SolvesKept ==
  request.kind = "graph" =>
    /\ SoundLadder(request.graph, rungs)
    /\ \A i \in 1..Len(candidates) :
         rungs[i].reuses_solve_of = None =>
           /\ i \in DOMAIN solved
           /\ solved[i] = apply_graph_transforms(request.graph, rungs[i].settings)

ChosenInv == status = "done" => report.chosen = rungs[report.pick].settings

ReplayInv == SolvesKept /\ ChosenInv

\* The rung whose solve a rung draws.
SolveOf(index) ==
  IF rungs[index].reuses_solve_of = None THEN index ELSE rungs[index].reuses_solve_of

(***************************************************************************)
(* "A reused solve precedes its render-only rungs" (fit.rs, the expect in  *)
(* fit_graph): whatever rung was drawn, the solve it draws from is there.  *)
(***************************************************************************)
ReusedSolvesExist ==
  request.kind = "graph" => \A i \in 1..Len(candidates) : SolveOf(i) \in DOMAIN solved

\* A rung drawn has a solve, and it is that of the rung's own settings.
LEMMA DrawnFromOwnSettings ==
  ASSUME SolvesKept, request.kind = "graph", NEW i \in 1..Len(candidates), Len(candidates) \in Nat,
         Len(candidates) <= Len(rungs)
  PROVE  /\ SolveOf(i) \in DOMAIN solved
         /\ GraphDrawn(i) = apply_graph_transforms(request.graph, rungs[i].settings)
<1>1. i \in 1..Len(rungs)
  BY DEF SolvesKept, SoundLadder
<1>2. CASE rungs[i].reuses_solve_of = None
  BY <1>2 DEF SolvesKept, SolveOf, GraphDrawn
<1>3. CASE rungs[i].reuses_solve_of # None
  <2> PICK b : b = rungs[i].reuses_solve_of
    OBVIOUS
  <2>1. ReusesSolve(request.graph, rungs, i, b)
    BY <1>1, <1>3 DEF SolvesKept, SoundLadder
  <2>2. b \in 1..Len(candidates) /\ rungs[b].reuses_solve_of = None
    BY <2>1 DEF ReusesSolve
  <2>3. b \in DOMAIN solved
        /\ solved[b] = apply_graph_transforms(request.graph, rungs[b].settings)
    BY <2>2 DEF SolvesKept
  <2> QED  BY <1>3, <2>1, <2>3 DEF ReusesSolve, SameGraph, SolveOf, GraphDrawn
<1> QED  BY <1>2, <1>3

\* One more turn of the loop solves its rung or leaves the solves as they are.
LEMMA EvaluateKeepsSolves ==
  ASSUME FitIInv, SolvesKept, Evaluate PROVE SolvesKept'
<1> DEFINE index == Len(candidates) + 1
<1>1. /\ request' = request /\ rungs' = rungs
      /\ solved' = SolvedWith(index)
      /\ \E c : candidates' = Append(candidates, c)
  BY DEF Evaluate
<1>2. Len(candidates) \in Nat /\ Len(candidates') = index
  BY <1>1 DEF FitIInv, Typed
<1> SUFFICES ASSUME request.kind = "graph", NEW i \in 1..index, rungs[i].reuses_solve_of = None
             PROVE  /\ i \in DOMAIN solved'
                    /\ solved'[i] = apply_graph_transforms(request.graph, rungs[i].settings)
  BY <1>1, <1>2 DEF SolvesKept
<1>3. CASE i = index
  BY <1>1, <1>3 DEF SolvedWith
<1>4. CASE i # index
  <2>1. i \in 1..Len(candidates)
    BY <1>2, <1>4
  <2>2. /\ i \in DOMAIN solved
        /\ solved[i] = apply_graph_transforms(request.graph, rungs[i].settings)
    BY <2>1 DEF SolvesKept
  <2> QED  BY <1>1, <1>4, <2>2 DEF SolvedWith
<1> QED  BY <1>3, <1>4

LEMMA ReplayKept == FitIInv /\ ReplayInv /\ [FitNext]_fitVars => ReplayInv'
<1> SUFFICES ASSUME FitIInv, ReplayInv, [FitNext]_fitVars PROVE ReplayInv'
  OBVIOUS
<1>1. ASSUME UNCHANGED <<request, rungs, candidates, solved>> PROVE SolvesKept'
  BY <1>1 DEF ReplayInv, SolvesKept
<1>2. CASE Validated
  BY <1>1, <1>2 DEF Validated, ReplayInv, ChosenInv
<1>3. CASE Evaluate
  BY <1>3, EvaluateKeepsSolves DEF Evaluate, SearchGoesOn, ReplayInv, ChosenInv
<1>4. CASE SolveFails
  BY <1>1, <1>4 DEF SolveFails, ReplayInv, ChosenInv
<1>5. CASE Conclude
  <2>1. UNCHANGED <<request, rungs, candidates, solved>>
    BY <1>5 DEF Conclude
  <2>2. report'.chosen = rungs[report'.pick].settings
    BY <1>5 DEF Conclude
  <2> QED  BY <1>1, <2>1, <2>2 DEF ReplayInv, ChosenInv
<1>6. CASE Resize
  <2>1. candidates' = <<>> /\ rungs' = rungs /\ status' = "ready"
    BY <1>6 DEF Resize
  <2>2. request'.kind = request.kind /\ request'.graph = request.graph
    BY <1>6 DEF Resize, FitIInv, Typed
  <2> QED  BY <2>1, <2>2 DEF ReplayInv, SolvesKept, ChosenInv
<1>7. CASE UNCHANGED fitVars
  BY <1>1, <1>7 DEF fitVars, ReplayInv, ChosenInv
<1> QED  BY <1>2, <1>3, <1>4, <1>5, <1>6, <1>7 DEF FitNext

LEMMA ReplayInitially == ASSUME FitInit PROVE ReplayInv
<1>1. PICK r \in Requests : Start(r)
  BY DEF FitInit
<1>2. r.kind = "graph" => SoundLadder(r.graph, LadderOf(r))
  BY LaddersSound
<1> QED  BY <1>1, <1>2 DEF Start, ReplayInv, SolvesKept, ChosenInv

(***************************************************************************)
(* For every graph, every combination of levers and every way the rungs    *)
(* may be drawn: the drawing returned is one of the graph that the         *)
(* reported settings make, whichever rung's solve it was drawn from.       *)
(***************************************************************************)
THEOREM ReplayCorrect == FitSpec => []ChosenSettingsReplay
<1>1. FitIInv /\ AnswerInv /\ ReplayInv => ChosenSettingsReplay
  <2> SUFFICES ASSUME FitIInv, AnswerInv, ReplayInv, status = "done", request.kind = "graph"
               PROVE  GraphDrawn(report.pick)
                        = apply_graph_transforms(request.graph, report.chosen)
    BY DEF ChosenSettingsReplay
  <2>1. Len(candidates) \in Nat /\ Len(candidates) <= Len(rungs)
        /\ DOMAIN candidates = 1..Len(candidates)
    BY DEF FitIInv, Typed
  <2>2. report.pick \in 1..Len(candidates)
    <3>1. CASE Found
      BY <2>1, <3>1 DEF AnswerInv, Found, FitIInv, Typed
    <3>2. CASE ~Found
      <4>1. report.pick \in Leaders
        BY <3>2, SomeLeader DEF AnswerInv, FitIInv
      <4> QED  BY <2>1, <4>1 DEF Leaders, Valid
    <3> QED  BY <3>1, <3>2
  <2>3. GraphDrawn(report.pick) = apply_graph_transforms(request.graph, rungs[report.pick].settings)
    BY <2>1, <2>2, DrawnFromOwnSettings DEF ReplayInv
  <2> QED  BY <2>3 DEF ReplayInv, ChosenInv
<1>2. FitInit => ReplayInv
  BY ReplayInitially
<1>3. FitSpec => []ReplayInv
  BY <1>2, ReplayKept, FitInvariant, PTL DEF FitSpec
<1> QED  BY <1>1, <1>3, AnswerInvariant, FitInvariant, PTL

\* No rung is drawn from a solve that was never made (the expect in fit_graph).
THEOREM ReusedSolvesPrecede == FitSpec => []ReusedSolvesExist
<1>1. FitIInv /\ ReplayInv => ReusedSolvesExist
  <2> SUFFICES ASSUME FitIInv, ReplayInv, request.kind = "graph", NEW i \in 1..Len(candidates)
               PROVE  SolveOf(i) \in DOMAIN solved
    BY DEF ReusedSolvesExist
  <2>1. Len(candidates) \in Nat /\ Len(candidates) <= Len(rungs)
    BY DEF FitIInv, Typed
  <2> QED  BY <2>1, DrawnFromOwnSettings DEF ReplayInv
<1>2. FitInit => ReplayInv
  BY ReplayInitially
<1> QED  BY <1>1, <1>2, ReplayKept, FitInvariant, PTL DEF FitSpec
=============================================================================
