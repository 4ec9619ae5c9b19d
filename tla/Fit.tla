-------------------------------- MODULE Fit --------------------------------
(***************************************************************************)
(* Fitting text output to a width budget: the levers that rewrite a graph  *)
(* (fit_levers.rs), the ladder of their combinations and the search that   *)
(* draws one rung after the other until a drawing fits (runtime/fit.rs).   *)
(*                                                                         *)
(* A line of a label is the sequence of the widths of its words, split at  *)
(* every space: between two words that are k + 1 spaces apart there are k  *)
(* words of width 0.  A drawing is its size and its audit: what the *)
(* engine and the renderer make of a graph is left open, but the same for  *)
(* the same rung.                                                          *)
(***************************************************************************)
EXTENDS Integers, Sequences, SequencesExt, FiniteSets, FiniteSetsExt, TLC

CONSTANTS
  None,       \* an absent budget, direction or bound
  Separator,  \* Node::SEPARATOR, the line between a class and its members
  Requests,   \* what a caller may ask for: [kind, text, fit, graph, drawings]
  Widths,     \* the budgets a resized terminal may ask for
  MaxFits     \* bound: the fits of one run

Drawings ==
  [width : Nat, height : Nat, audit : [broken : SUBSET STRING, arrows : Nat]]

FitOptions ==
  [max_width : Nat \union {None}, max_height : Nat \union {None},
   flip : BOOLEAN, truncation : BOOLEAN]

VARIABLES
  request,     \* the call being served
  rungs,       \* the ladder
  solved,      \* the graphs of the rungs that were solved, by rung
  candidates,  \* the rungs drawn in this search
  drawn,       \* what every rung drawn so far looks like, also in searches before
  status,      \* "ready", "searching", "done", "not_applied" or "failed"
  report,      \* the part of the FitReport this model is about
  before,      \* the report of the search before this one
  fits         \* how many searches were started

fitVars == <<request, rungs, solved, candidates, drawn, status, report, before, fits>>
----------------------------------------------------------------------------
(* Lines and labels.                                                       *)

\* How many cells the first words take, each with a space after it.
Reach(line) ==
  LET reach[i \in 0..Len(line)] == IF i = 0 THEN 0 ELSE reach[i - 1] + line[i] + 1
  IN  reach

LineWidth(line) == IF line = <<>> THEN 0 ELSE Reach(line)[Len(line)] - 1

\* A word goes on the last line if it fits there, else on a line of its own.
WrapWord(lines, word, cells) ==
  IF lines # <<>> /\ LineWidth(Last(lines)) + 1 + word <= cells
  THEN Front(lines) \o <<Append(Last(lines), word)>>
  ELSE Append(lines, <<word>>)

\* A run of spaces counts for one.
wrap_words_to_cells(line, cells) ==
  LET words == SelectSeq(line, LAMBDA word : word > 0)
  IN  IF words = <<>> THEN <<words>>
      ELSE FoldLeft(LAMBDA lines, word : WrapWord(lines, word, cells), <<>>, words)

\* Of a line that is too wide, the first cells - 1 characters and an ellipsis,
\* which ends the word it follows, or stands alone after a space.
truncate_to_cells(line, cells) ==
  LET room(i) == cells - 1 - Reach(line)[i - 1]
      kept == Cardinality({i \in DOMAIN line : room(i) >= 0})
  IN  IF LineWidth(line) <= cells THEN line
      ELSE [i \in 1..kept |-> IF room(i) > line[i] THEN line[i] ELSE room(i) + 1]

Ellipsis == <<1>>

SeparatorsOf(label) == {i \in DOMAIN label : label[i] = Separator}

\* The lines after the first separator are the members of a class.
IsMember(label, i) == \E s \in SeparatorsOf(label) : s < i

truncate_labels(graph, cells) ==
  LET short(line) == IF line = Separator THEN line ELSE truncate_to_cells(line, cells)
      shortened(label) == [i \in DOMAIN label |-> short(label[i])]
      relabelled(edge) == [edge EXCEPT !.label = shortened(@)]
  IN  [graph EXCEPT !.nodes = [n \in DOMAIN @ |-> shortened(@[n])],
                    !.edges = [e \in DOMAIN @ |-> relabelled(@[e])]]

\* Of each member section the first lines, then an ellipsis for the others.
elide_class_members(graph, keep) ==
  LET place(label, i) == i - Max({s \in SeparatorsOf(label) : s < i})
      lines(label, i) ==
        IF label[i] = Separator \/ ~IsMember(label, i) \/ place(label, i) <= keep
        THEN <<label[i]>>
        ELSE IF place(label, i) = keep + 1 THEN <<Ellipsis>> ELSE <<>>
  IN  [graph EXCEPT !.nodes =
         [n \in DOMAIN @ |-> FlattenSeq([i \in DOMAIN @[n] |-> lines(@[n], i)])]]

\* Two spaces before a line that continues another.
Indented(lines) == [i \in DOMAIN lines |-> IF i = 1 THEN lines[i] ELSE <<0, 0>> \o lines[i]]

wrap_class_members(graph, cells) ==
  LET lines(label, i) ==
        IF label[i] = Separator \/ ~IsMember(label, i) THEN <<label[i]>>
        ELSE Indented(wrap_words_to_cells(label[i], cells))
  IN  [graph EXCEPT !.nodes =
         [n \in DOMAIN @ |-> FlattenSeq([i \in DOMAIN @[n] |-> lines(@[n], i)])]]

\* Nodes with members are left to wrap_class_members.
wrap_node_labels(graph, cells) ==
  LET wrapped(label) ==
        IF SeparatorsOf(label) # {} THEN label
        ELSE FlattenSeq([i \in DOMAIN label |->
               IF LineWidth(label[i]) > cells THEN wrap_words_to_cells(label[i], cells)
               ELSE <<label[i]>>])
  IN  [graph EXCEPT !.nodes = [n \in DOMAIN @ |-> wrapped(@[n])]]

\* Only edges with a line that is too wide get lines of their own; for the
\* others wrapped_label_lines stays empty.
wrap_edge_labels(graph, cells) ==
  LET wrapped(edge) ==
        IF \E i \in DOMAIN edge.label : LineWidth(edge.label[i]) > cells
        THEN [edge EXCEPT !.wrapped_label_lines =
                FlattenSeq([i \in DOMAIN edge.label |-> wrap_words_to_cells(edge.label[i], cells)])]
        ELSE edge
  IN  [graph EXCEPT !.edges = [e \in DOMAIN @ |-> wrapped(@[e])]]
----------------------------------------------------------------------------
(* Directions.                                                             *)

transpose_direction(dir) ==
  CASE dir = "TD" -> "LR" [] dir = "LR" -> "TD" [] dir = "BT" -> "RL" [] dir = "RL" -> "BT"

is_vertical(dir) == dir \in {"TD", "BT"}

\* Top-down, an override that says what holds anyway is cleared.  Clearing it
\* changes the direction of no subgraph, so the order does not matter.
clear_redundant_subgraph_directions(graph) ==
  LET subs == graph.subgraphs
      effective[s \in DOMAIN subs \union {None}] ==
        IF s = None THEN graph.direction
        ELSE IF subs[s].dir = None THEN effective[subs[s].parent]
        ELSE subs[s].dir
  IN  [graph EXCEPT !.subgraphs =
         [s \in DOMAIN subs |->
            IF subs[s].dir = effective[subs[s].parent] THEN [subs[s] EXCEPT !.dir = None]
            ELSE subs[s]]]

flip_graph_direction(graph) ==
  LET flipped(dir) == IF dir = None THEN None ELSE transpose_direction(dir)
  IN  clear_redundant_subgraph_directions(
        [graph EXCEPT
           !.direction = transpose_direction(@),
           !.subgraphs = [s \in DOMAIN @ |-> [@[s] EXCEPT !.dir = flipped(@)]]])

strip_horizontal_subgraph_overrides(graph) ==
  LET stripped(dir) == IF dir # None /\ ~is_vertical(dir) THEN None ELSE dir
  IN  IF ~is_vertical(graph.direction) THEN graph
      ELSE clear_redundant_subgraph_directions(
             [graph EXCEPT !.subgraphs =
                [s \in DOMAIN @ |-> [@[s] EXCEPT !.dir = stripped(@)]]])
----------------------------------------------------------------------------
(* The ladder.                                                             *)

\* FitSettings::default().
AsAuthored ==
  [flip |-> FALSE, strip_horizontal_subgraph_overrides |-> FALSE,
   label_aware_spacing |-> FALSE, grid_gaps |-> <<>>, edge_label_wrap |-> 0,
   node_label_wrap |-> 0, member_wrap |-> 0, truncate |-> 0, member_keep |-> 0]

\* Every transform works on what the one before it left.
apply_graph_transforms(graph, settings) ==
  LET flip(g) == IF settings.flip THEN flip_graph_direction(g) ELSE g
      strip(g) == IF settings.strip_horizontal_subgraph_overrides
                  THEN strip_horizontal_subgraph_overrides(g) ELSE g
      cut(g) == IF settings.truncate > 0 THEN truncate_labels(g, settings.truncate) ELSE g
      elide(g) == IF settings.member_keep > 0 THEN elide_class_members(g, settings.member_keep) ELSE g
      members(g) == IF settings.member_wrap > 0 THEN wrap_class_members(g, settings.member_wrap) ELSE g
      nodes(g) == IF settings.node_label_wrap > 0 THEN wrap_node_labels(g, settings.node_label_wrap) ELSE g
      edges(g) == IF settings.edge_label_wrap > 0 THEN wrap_edge_labels(g, settings.edge_label_wrap) ELSE g
  IN  edges(nodes(members(elide(cut(strip(flip(graph)))))))

RenderOnly(field, value) == [solve |-> FALSE, field |-> field, value |-> value]
Solve(field, value) == [solve |-> TRUE, field |-> field, value |-> value]

\* Mutant: the narrower gaps come after the first wrap, over the first solve.
GapsAfterTheWrap ==
  <<RenderOnly("label_aware_spacing", TRUE), RenderOnly("grid_gaps", <<2, 2>>),
    Solve("edge_label_wrap", 16), RenderOnly("grid_gaps", <<2, 1>>),
    Solve("edge_label_wrap", 10), Solve("node_label_wrap", 24),
    Solve("node_label_wrap", 16), Solve("node_label_wrap", 10), Solve("member_wrap", 16)>>

unflipped_steps ==
  <<RenderOnly("label_aware_spacing", TRUE),
    RenderOnly("grid_gaps", <<2, 2>>),
    RenderOnly("grid_gaps", <<2, 1>>),
    Solve("edge_label_wrap", 16),
    Solve("edge_label_wrap", 10),
    Solve("node_label_wrap", 24),
    Solve("node_label_wrap", 16),
    Solve("node_label_wrap", 10),
    Solve("member_wrap", 16)>>

Rung(settings, base) == [settings |-> settings, reuses_solve_of |-> base]

\* Mutant: compared with the graph as authored.
ChangesPristine(graph, settings, base) ==
  apply_graph_transforms(graph, settings) # graph

\* graph_signature tells whether a rung changes what the rung it extends draws.
ChangesGraph(graph, settings, base) ==
  apply_graph_transforms(graph, settings) # apply_graph_transforms(graph, base)

\* push_solve.
PushSolve(ladder, graph, settings, base) ==
  IF ChangesGraph(graph, settings, base) THEN Append(ladder, Rung(settings, None)) ELSE ladder

\* One step of push_sequence: a solve rung that changes nothing is skipped, and
\* the later rungs do not carry its lever.
PushStep(built, step, graph, base) ==
  LET settings == [built.settings EXCEPT ![step.field] = step.value]
  IN  IF ~step.solve
      THEN [ladder |-> Append(built.ladder, Rung(settings, base)), settings |-> settings]
      ELSE IF ChangesGraph(graph, settings, built.settings)
      THEN [ladder |-> Append(built.ladder, Rung(settings, None)), settings |-> settings]
      ELSE built

push_sequence(ladder, graph, start) ==
  LET built[n \in 0..Len(unflipped_steps)] ==
        IF n = 0 THEN [ladder |-> Append(ladder, Rung(start, None)), settings |-> start]
        ELSE PushStep(built[n - 1], unflipped_steps[n], graph, Len(ladder) + 1)
  IN  built[Len(unflipped_steps)]

\* What a lossy rung would draw, and what it extends.
Lossy(settings, over) == [settings |-> settings, over |-> over]

PushAll(ladder, graph, lossy) ==
  LET pushed[n \in 0..Len(lossy)] ==
        IF n = 0 THEN ladder ELSE PushSolve(pushed[n - 1], graph, lossy[n].settings, lossy[n].over)
  IN  pushed[Len(lossy)]

\* The lossy rungs over the last settings of each sequence.
PushTruncations(ladder, graph, bases) ==
  LET cut(base, cells) == [base EXCEPT !.truncate = cells]
      last(base) == IF ChangesGraph(graph, cut(base, 8), base) THEN cut(base, 8) ELSE base
      shorten(cells) == [b \in 1..Len(bases) |-> Lossy(cut(bases[b], cells), bases[b])]
      elide == [b \in 1..Len(bases) |->
                  Lossy([last(bases[b]) EXCEPT !.member_keep = 3], last(bases[b]))]
  IN  PushAll(ladder, graph, shorten(20) \o shorten(12) \o shorten(8) \o elide)

build_graph_ladder(graph, fit) ==
  LET strip(built) ==
        IF fit.flip
        THEN PushStep(built, Solve("strip_horizontal_subgraph_overrides", TRUE), graph, None)
        ELSE built
      u == strip(push_sequence(<<>>, graph, AsAuthored))
      f == push_sequence(u.ladder, graph, [AsAuthored EXCEPT !.flip = TRUE])
      ladder == IF fit.flip THEN f.ladder ELSE u.ladder
      bases == IF fit.flip THEN <<u.settings, f.settings>> ELSE <<u.settings>>
  IN  IF fit.truncation THEN PushTruncations(ladder, graph, bases) ELSE ladder

\* Documents keep their geometry: only the steps before the first new solve.
build_replay_ladder ==
  LET steps == CHOOSE n \in 0..Len(unflipped_steps) :
                 /\ \A i \in 1..n : ~unflipped_steps[i].solve
                 /\ n < Len(unflipped_steps) => unflipped_steps[n + 1].solve
      settings(n) == FoldLeft(LAMBDA s, step : [s EXCEPT ![step.field] = step.value],
                              AsAuthored, SubSeq(unflipped_steps, 1, n))
  IN  [n \in 1..(steps + 1) |-> Rung(settings(n - 1), IF n = 1 THEN None ELSE 1)]

\* A sequence diagram has no levers.
LadderOf(r) ==
  CASE r.kind = "graph" -> build_graph_ladder(r.graph, r.fit)
    [] r.kind = "document" -> build_replay_ladder
    [] r.kind = "sequence" -> <<Rung(AsAuthored, None)>>
----------------------------------------------------------------------------
(* The search.                                                             *)

\* What the drawing as authored does not show may be missing in any other.
regressions_against(audit, authored) ==
  (audit.broken \ authored.broken) \union
  (IF audit.arrows < authored.arrows THEN {"arrows lost"} ELSE {})

fits_budget(drawing, fit) ==
  /\ fit.max_width # None => drawing.width <= fit.max_width
  /\ fit.max_height # None => drawing.height <= fit.max_height

\* Mutant: how much is left, not how much is too much.
OverflowEitherWay(drawing, fit) ==
  <<IF fit.max_width = None THEN 0 ELSE fit.max_width - drawing.width,
    IF fit.max_height = None THEN 0 ELSE fit.max_height - drawing.height>>

\* saturating_sub.
overflow(drawing, fit) ==
  LET over(size, max) == IF max = None \/ size < max THEN 0 ELSE size - max
  IN  <<over(drawing.width, fit.max_width), over(drawing.height, fit.max_height)>>

Valid == {i \in DOMAIN candidates : candidates[i].valid}

Fits(i) == candidates[i].valid /\ fits_budget(candidates[i].drawing, request.fit)

Found == candidates # <<>> /\ Fits(Len(candidates))

\* Of two candidates, the one of less overflow in width, then in height, then
\* the earlier one.
Ahead(i, j) ==
  LET a == overflow(candidates[i].drawing, request.fit)
      b == overflow(candidates[j].drawing, request.fit)
  IN  \/ a[1] < b[1]
      \/ a[1] = b[1] /\ a[2] < b[2]
      \/ a = b /\ i <= j

Leaders == {i \in Valid : \A j \in Valid : Ahead(i, j)}

BestAttempt == CHOOSE i \in Leaders : TRUE

Earlier(pick) == {i \in Valid : i < pick}

WidthsOf(indices) == {candidates[i].drawing.width : i \in indices}

\* saturating_sub(1).
JustBelow(n) == IF n = 0 THEN 0 ELSE n - 1

\* Mutant: every candidate before the pick, also the broken ones.
StableOverAll(pick, found) ==
  IF found
  THEN [min_width |-> candidates[pick].drawing.width,
        max_width |-> IF pick = 1 THEN None ELSE JustBelow(Min(WidthsOf(1..(pick - 1))))]
  ELSE [min_width |-> 1, max_width |-> JustBelow(Min(WidthsOf(Valid)))]

\* The width budgets that would end the search the same way.
stable_for(pick, found) ==
  IF found
  THEN [min_width |-> candidates[pick].drawing.width,
        max_width |-> IF Earlier(pick) = {} THEN None
                      ELSE JustBelow(Min(WidthsOf(Earlier(pick))))]
  ELSE [min_width |-> 1, max_width |-> JustBelow(Min(WidthsOf(Valid)))]

\* A call is a record with options.
ASSUME RequestsAreWellFormed ==
  /\ None \notin Nat /\ Widths \subseteq Nat
  /\ \A r \in Requests :
       /\ r = [kind |-> r.kind, text |-> r.text, fit |-> r.fit, graph |-> r.graph,
              drawings |-> r.drawings]
       /\ r.kind \in {"graph", "document", "sequence"}
       /\ r.fit \in FitOptions /\ r.drawings \subseteq Drawings

Start(r) ==
  /\ request = r
  /\ rungs = LadderOf(r)
  /\ solved = <<>> /\ candidates = <<>> /\ drawn = <<>>
  /\ status = "ready"
  /\ report = None /\ before = None
  /\ fits = 1

FitInit == \E r \in Requests : Start(r)

\* validate: a budget of 0 is an error, whatever the format.
Validated ==
  LET zero == 0 \in {request.fit.max_width, request.fit.max_height}
  IN  /\ status = "ready"
      /\ status' = IF zero THEN "failed" ELSE IF request.text THEN "searching" ELSE "not_applied"
      /\ UNCHANGED <<request, rungs, solved, candidates, drawn, report, before, fits>>

SearchGoesOn == status = "searching" /\ ~Found /\ Len(candidates) < Len(rungs)

SolvedWith(index) ==
  IF request.kind = "graph" /\ rungs[index].reuses_solve_of = None
  THEN [i \in DOMAIN solved \union {index} |->
          IF i = index THEN apply_graph_transforms(request.graph, rungs[i].settings) ELSE solved[i]]
  ELSE solved

Candidate(drawing, reference) ==
  [drawing |-> drawing,
   valid |-> regressions_against(drawing.audit, reference.audit) = {}]

\* One turn of the loop: solve if the rung needs it, draw, audit against the
\* first drawing.  A rung drawn before looks as it did then.
Evaluate ==
  /\ SearchGoesOn
  /\ LET index == Len(candidates) + 1
     IN  \E drawing \in IF index \in DOMAIN drawn THEN {drawn[index]} ELSE request.drawings :
           LET reference == IF index = 1 THEN drawing ELSE candidates[1].drawing
           IN  /\ candidates' = Append(candidates, Candidate(drawing, reference))
               /\ solved' = SolvedWith(index)
               /\ drawn' = IF index \in DOMAIN drawn THEN drawn ELSE Append(drawn, drawing)
  /\ UNCHANGED <<request, rungs, status, report, before, fits>>

\* An error of the engine ends the whole fit, also when an earlier rung is
\* already drawn.
SolveFails ==
  /\ SearchGoesOn
  /\ request.kind = "graph"
  /\ rungs[Len(candidates) + 1].reuses_solve_of = None
  /\ status' = "failed"
  /\ UNCHANGED <<request, rungs, solved, candidates, drawn, report, before, fits>>

\* The graph a rung draws: that of its own solve, or of the one it reuses.
GraphDrawn(index) ==
  LET base == rungs[index].reuses_solve_of
  IN  solved[IF base = None THEN index ELSE base]

Conclude ==
  /\ status = "searching"
  /\ Found \/ Len(candidates) = Len(rungs)
  /\ LET pick == IF Found THEN Len(candidates) ELSE BestAttempt
     IN  report' =
           [pick |-> pick,
            outcome |-> IF ~Found THEN "BestAttempt" ELSE IF pick = 1 THEN "AsAuthored" ELSE "Fitted",
            chosen |-> rungs[pick].settings,
            stable_for |-> IF request.fit.max_height = None THEN stable_for(pick, Found) ELSE None,
            solves |-> Cardinality(DOMAIN solved)]
  /\ status' = "done"
  /\ UNCHANGED <<request, rungs, solved, candidates, drawn, before, fits>>

\* The terminal gets another width, and the caller fits the same diagram anew.
Resize ==
  /\ status = "done"
  /\ fits < MaxFits
  /\ \E w \in Widths : request' = [request EXCEPT !.fit.max_width = w]
  /\ candidates' = <<>> /\ solved' = <<>>
  /\ status' = "ready"
  /\ before' = report /\ report' = None
  /\ fits' = fits + 1
  /\ UNCHANGED <<rungs, drawn>>

FitNext == Validated \/ Evaluate \/ SolveFails \/ Conclude \/ Resize

FitSpec == FitInit /\ [][FitNext]_fitVars
----------------------------------------------------------------------------
InRange(width, range) ==
  /\ range.min_width <= width
  /\ range.max_width = None \/ width <= range.max_width

(***************************************************************************)
(* "The range of width budgets that give this same output, so a caller can *)
(* skip re-rendering while a resized terminal stays inside it" (stable_for *)
(* in fit.rs): a width is in the range exactly when a search for it picks  *)
(* the same rung with the same outcome, although most of the rungs that    *)
(* search may meet were not drawn when the range was computed.             *)
(***************************************************************************)
StableRangeIsExact ==
  status = "done" /\ before # None /\ request.fit.max_height = None =>
    (InRange(request.fit.max_width, before.stable_for)
      <=> /\ report.pick = before.pick
          /\ (report.outcome = "BestAttempt") = (before.outcome = "BestAttempt"))

(***************************************************************************)
(* "Rendering with the chosen settings and no budget reproduces the fitted *)
(* output" (fit.rs, chosen_settings_replay_the_fitted_output): the drawing *)
(* returned, which may come from another rung's solve, is one of the graph *)
(* that its own settings make of the diagram.                              *)
(***************************************************************************)
ChosenSettingsReplay ==
  status = "done" /\ request.kind = "graph" =>
    GraphDrawn(report.pick) = apply_graph_transforms(request.graph, report.chosen)

(***************************************************************************)
(* A solve is the expensive part of a rung, and only compared with the     *)
(* rung it extends (push_solve): even so no graph is laid out twice in a   *)
(* search, however the levers that change nothing are skipped, as long as  *)
(* no text is dropped.  Two cuts that leave a word and a run of spaces     *)
(* before the ellipsis draw the same once they are wrapped.                *)
(***************************************************************************)
DropsText(settings) == settings.truncate > 0 \/ settings.member_keep > 0

NoGraphSolvedTwice ==
  \A i, j \in DOMAIN solved :
    solved[i] = solved[j] =>
      i = j \/ (DropsText(rungs[i].settings) /\ DropsText(rungs[j].settings))

(***************************************************************************)
(* The answer keeps all that the drawing as authored shows                 *)
(* (the_answer_is_never_an_invalid_candidate, tests/fit.rs), it fits when  *)
(* a drawing fits, and when none does and no height was asked for it is    *)
(* the narrowest valid drawing of the whole ladder.                        *)
(***************************************************************************)
AnswerIsValidAndNarrowest ==
  status = "done" =>
    /\ regressions_against(candidates[report.pick].drawing.audit,
                           candidates[1].drawing.audit) = {}
    /\ report.outcome # "BestAttempt" => fits_budget(candidates[report.pick].drawing, request.fit)
    /\ report.outcome = "BestAttempt" =>
         /\ Len(candidates) = Len(rungs)
         /\ \A i \in Valid : ~fits_budget(candidates[i].drawing, request.fit)
         /\ request.fit.max_height = None =>
              \A i \in Valid : candidates[report.pick].drawing.width <= candidates[i].drawing.width
============================================================================
