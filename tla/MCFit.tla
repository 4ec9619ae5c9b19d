------------------------------- MODULE MCFit -------------------------------
EXTENDS Fit

Labelled(lines) == [label |-> lines, wrapped_label_lines |-> <<>>]
Sub(dir, parent) == [dir |-> dir, parent |-> parent]
NoSubs == [s \in {} |-> Sub(None, None)]

GraphOf(direction, subs, nodes, edges) ==
  [direction |-> direction, subgraphs |-> subs, nodes |-> nodes, edges |-> edges]

\* Nothing to wrap: four rungs.
Short == GraphOf("TD", NoSubs, <<<<<<4>>>>, <<<<5, 3>>>>>>, <<Labelled(<<<<3>>>>)>>)

\* k + 1 spaces, between two words.
Spaces(k) == [i \in 1..k |-> 0]

\* Labels with runs of spaces, which wrapping collapses and cutting does not.
Spaced == {<<2>> \o Spaces(k) \o <<5, 7>> : k \in {1, 3, 19}} \union {<<3>> \o Spaces(25), <<>>}

\* Labels of every width around the wraps at 10, 16 and 24 and the cuts at 8,
\* 12 and 20, members, and overrides that a flip or a strip makes redundant.
Words == {4, 9, 17}
Lines == UNION {[1..n -> Words] : n \in 1..3}
Sections == {<<<<6>>, Separator>> \o body :
              body \in {<<<<5>>, <<4, 4>>, <<9, 9>>, <<17>>, <<3>>>>,
                        <<<<5>>, <<6, 4>>, <<4, 0, 4>>>>, <<<<5>>, Separator, <<9, 9>>, <<7>>, <<8>>, <<9>>>>}}
Nested == {[s \in {"outer", "inner"} |->
              IF s = "outer" THEN Sub(d, None) ELSE Sub(e, "outer")] :
            d \in {None, "LR", "TD"}, e \in {None, "LR", "RL", "TD", "BT"}}
Rich ==
  {GraphOf("LR", NoSubs, <<<<a>>, <<<<4>>>>>>, <<Labelled(<<b>>)>>) : a \in Lines, b \in Lines}
  \union
  {GraphOf("LR", NoSubs, <<<<a>>>>, <<Labelled(<<b>>)>>) : a \in Spaced, b \in Spaced}
  \union
  {GraphOf(dir, NoSubs, <<label>>, <<>>) : dir \in {"TD", "LR"}, label \in Sections}
  \union
  {GraphOf(dir, subs, <<<<<<9, 9>>>>>>, <<Labelled(<<<<4, 9>>>>)>>) : dir \in {"TD", "RL"}, subs \in Nested}

Drawing(w, h, broken, arrows) ==
  [width |-> w, height |-> h, audit |-> [broken |-> broken, arrows |-> arrows]]

\* Drawings on both sides of the budgets, some of them broken.
Mixed ==
  {Drawing(w, h, {}, 1) : w \in 1..4, h \in {2}}
  \union {Drawing(1, 2, {"label"}, 1), Drawing(2, 2, {}, 0), Drawing(3, 4, {}, 1)}

FitOf(w, h, flip, truncation) ==
  [max_width |-> w, max_height |-> h, flip |-> flip, truncation |-> truncation]

Request(kind, text, fit, graph, drawings) ==
  [kind |-> kind, text |-> text, fit |-> fit, graph |-> graph, drawings |-> drawings]

SmallRequests ==
  {Request(kind, TRUE, FitOf(w, h, FALSE, FALSE), Short, Mixed) :
     kind \in {"graph", "document", "sequence"}, w \in {None, 0, 1, 2, 3}, h \in {None, 3}}
  \union {Request("graph", FALSE, FitOf(2, None, FALSE, FALSE), Short, Mixed)}

LongRequests ==
  {Request("graph", TRUE, FitOf(2, None, flip, truncation), graph, {Drawing(4, 2, {}, 1)}) :
     flip \in BOOLEAN, truncation \in BOOLEAN, graph \in Rich}

\* A drawing that fits may come at any rung of a ladder with several solves.
EitherWay == {Drawing(4, 2, {}, 1), Drawing(2, 2, {}, 1)}
MiddleRequests ==
  {Request("graph", TRUE, FitOf(2, None, flip, FALSE),
           GraphOf("LR", NoSubs, <<<<a>>>>, <<Labelled(<<b>>)>>), EitherWay) :
     flip \in BOOLEAN, a \in {<<9, 9>>, <<4, 4, 17>>}, b \in {<<9, 9>>}}

AllRequests == SmallRequests \union MiddleRequests \union LongRequests
============================================================================
