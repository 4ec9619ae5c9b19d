------------------------------ MODULE Documents ------------------------------
(***************************************************************************)
(* A document under the commands of src/src/commands.rs and the views of   *)
(* src/src/views, compared with the document it was at the start.          *)
(*                                                                         *)
(* A command that relays the document out works on a copy, which replaces  *)
(* the document if it hydrates; a refused command changes nothing, so it   *)
(* is no step. Edge selectors are modelled by the edge they resolve to.    *)
(***************************************************************************)
EXTENDS DocumentDiff, DocumentView

CONSTANTS
    Produced,     \* the documents to begin with
    MaxCommands,  \* bound on the commands and views
    MaxEdges      \* bound on the edges of a document

\* The uids differ and are below the ones of edges to come.
Identified(d, next) ==
    \A i, j \in DOMAIN d.edges :
        /\ d.edges[i].uid < next
        /\ d.edges[i].uid = d.edges[j].uid => i = j

\* What the compilers produce hydrates, and lists regions that there are. New edges
\* have uids from 100 on.
ASSUME DocumentsAssumption ==
    /\ MaxCommands \in Nat
    /\ \A d \in Produced :
          /\ IsDocument(d) /\ Hydrates(d) /\ Identified(d, 100)
          /\ \A s \in DOMAIN d.subgraphs : d.subgraphs[s].regions \subseteq DOMAIN d.subgraphs

VARIABLES
    base,         \* the document at the start
    doc,          \* the document now
    event,        \* what the last command reported
    steps

vars == <<base, doc, event, steps>>

\* A relayout is what writes a document.
Init ==
    /\ base \in {Relaid(d) : d \in Produced}
    /\ doc = base
    /\ event = [kind |-> "none"]
    /\ steps = 0

\* apply_with_relayout_event: the candidate is hydrated and laid out.
Accept(candidate, reported) ==
    /\ steps < MaxCommands
    /\ Hydrates(candidate)
    /\ doc' = Relaid(candidate)
    /\ event' = reported
    /\ steps' = steps + 1
    /\ UNCHANGED base

\* The document is changed where it is.
InPlace(changed, reported) ==
    /\ steps < MaxCommands
    /\ doc' = changed
    /\ event' = reported
    /\ steps' = steps + 1
    /\ UNCHANGED base

Reports(kind) == [kind |-> kind]
ReportsEdge(kind, id) == [kind |-> kind, edge |-> id]

\* f with one more entry.
With(f, x, value) == [y \in DOMAIN f \cup {x} |-> IF y = x THEN value ELSE f[y]]

OptionalParent == Optional(DOMAIN doc.subgraphs)

(***************************************************************************)
(* The document and its nodes.                                             *)
(***************************************************************************)

SetDocument(look) == Accept([doc EXCEPT !.look = look], Reports("documentChanged"))

AddNode(n, parent) ==
    /\ n \notin DOMAIN doc.nodes
    /\ Accept([doc EXCEPT !.nodes = With(@, n, [parent |-> parent, look |-> "plain"])],
              Reports("nodeAdded"))

WithoutChild(subgraphs, n) ==
    [s \in DOMAIN subgraphs |-> [subgraphs[s] EXCEPT !.children = @ \ {n}]]

RemoveNode(n) ==
    LET apart == {i \in DOMAIN doc.edges : n \notin {doc.edges[i].source, doc.edges[i].target}} IN
    Accept([doc EXCEPT
              !.nodes = [m \in DOMAIN @ \ {n} |-> @[m]],
              !.edges = Kept(@, apart),
              !.subgraphs = WithoutChild(@, n)],
           Reports("nodeRemoved"))

ChangeNode(n, look) == Accept([doc EXCEPT !.nodes[n].look = look], Reports("nodeChanged"))

SetNodeParent(n, parent) ==
    Accept([doc EXCEPT !.nodes[n].parent = parent], Reports("nodeParentChanged"))

SetNodeStyleExtension(n) ==
    InPlace([doc EXCEPT !.styles.nodes = @ \cup {n}], Reports("nodeStyleChanged"))

\* SetExtension in the namespace of the styles: hydration reads the value back. What it
\* names need not be there.
SetExtension(nodes, edges) ==
    InPlace([doc EXCEPT !.styles = [nodes |-> nodes, edges |-> edges]],
            Reports("extensionChanged"))

(***************************************************************************)
(* Edges.                                                                  *)
(***************************************************************************)

\* mutant: numbered from one
NextEdgeId(d) == Len(d.edges) + 1

\* The number a new edge gets; an explicit id is accepted only if it is this one
\* and no edge has it.
NewEdgeId(d) == Len(d.edges)

AddEdge(source, target, from, to, label) ==
    /\ Len(doc.edges) < MaxEdges
    /\ Accept([doc EXCEPT !.edges = Append(@,
                 [id |-> NewEdgeId(doc), uid |-> 100 + steps, source |-> source,
                  target |-> target, from |-> from, to |-> to, label |-> label,
                  stroke |-> "solid"])],
              ReportsEdge("edgeAdded", NewEdgeId(doc)))

RemoveEdge(i) ==
    Accept([doc EXCEPT !.edges = Kept(@, DOMAIN @ \ {i})], ReportsEdge("edgeRemoved", doc.edges[i].id))

ReconnectEdge(i, source, target) ==
    Accept([doc EXCEPT !.edges[i].source = source, !.edges[i].target = target],
           ReportsEdge("edgeReconnected", doc.edges[i].id))

SetEdgeEndpointIntent(i, from, to) ==
    Accept([doc EXCEPT !.edges[i].from = from, !.edges[i].to = to],
           ReportsEdge("edgeIntentChanged", doc.edges[i].id))

ChangeEdgeLabel(i, label) ==
    Accept([doc EXCEPT !.edges[i].label = label],
           ReportsEdge("edgeLabelChanged", doc.edges[i].id))

ChangeEdgeStyle(i, stroke) ==
    Accept([doc EXCEPT !.edges[i].stroke = stroke],
           ReportsEdge("edgeStyleChanged", doc.edges[i].id))

(***************************************************************************)
(* Subgraphs.                                                              *)
(***************************************************************************)

\* nodes whose parent becomes s, and those of the removed that leave it
Moved(nodes, s, added, removed) ==
    [n \in DOMAIN nodes |->
        IF n \in added THEN [nodes[n] EXCEPT !.parent = s]
        ELSE IF n \in removed /\ nodes[n].parent = s THEN [nodes[n] EXCEPT !.parent = None]
        ELSE nodes[n]]

AddSubgraph(s, parent, children, regions) ==
    /\ s \notin DOMAIN doc.subgraphs
    /\ LET subgraph == [parent |-> parent, look |-> "plain", children |-> {},
                        regions |-> regions]
       IN Accept([doc EXCEPT !.nodes = Moved(@, s, children, {}),
                             !.subgraphs = With(Moved(@, s, regions, {}), s, subgraph)],
                 Reports("subgraphAdded"))

WithoutSubgraph(subgraphs, s) ==
    [t \in DOMAIN subgraphs \ {s} |-> [subgraphs[t] EXCEPT !.regions = @ \ {s}]]

\* Its nodes and subgraphs move to the top. An edge with an intent towards it is
\* left, so that the candidate does not hydrate.
RemoveSubgraph(s) ==
    Accept([doc EXCEPT
              !.nodes = Moved(@, s, {}, DOMAIN @),
              !.subgraphs = WithoutSubgraph(Moved(@, s, {}, DOMAIN @), s)],
           Reports("subgraphRemoved"))

\* SetSubgraphDirection, SetSubgraphVisibility
ChangeSubgraph(s, look) ==
    Accept([doc EXCEPT !.subgraphs[s].look = look], Reports("subgraphChanged"))

ChangeSubgraphTitle(s, look) ==
    InPlace([doc EXCEPT !.subgraphs[s].look = look], Reports("subgraphTitleChanged"))

\* The regions of the old and the new parent are not touched.
SetSubgraphParent(s, parent) ==
    Accept([doc EXCEPT !.subgraphs[s].parent = parent], Reports("subgraphParentChanged"))

WithRegions(subgraphs, s, added, removed) ==
    [subgraphs EXCEPT ![s].regions = (@ \ removed) \cup added]

ChangeSubgraphMembership(s, added, removed, addedRegions, removedRegions) ==
    Accept([doc EXCEPT
              !.nodes = Moved(@, s, added, removed),
              !.subgraphs = WithRegions(Moved(@, s, addedRegions, removedRegions), s,
                                        addedRegions, removedRegions)],
           Reports("subgraphMembershipChanged"))

\* A view is taken and worked on.
TakeView(nodes, subgraphs) == InPlace(ViewOf(doc, nodes, subgraphs), Reports("viewed"))

AtMostOne(S) == {{}} \cup {{x} : x \in S}

NodeCommand ==
    \/ \E look \in Looks : SetDocument(look)
    \/ \E n \in Nodes, parent \in OptionalParent : AddNode(n, parent)
    \/ \E n \in DOMAIN doc.nodes :
          \/ RemoveNode(n)
          \/ \E look \in Looks : ChangeNode(n, look)
          \/ \E parent \in OptionalParent : SetNodeParent(n, parent)
          \/ SetNodeStyleExtension(n)
    \/ \E nodes \in AtMostOne(Nodes), edges \in AtMostOne(0..MaxEdges) :
          SetExtension(nodes, edges)

\* A new edge has an intent at one end at most.
EdgeCommand ==
    \/ \E source, target \in DOMAIN doc.nodes, from, to \in OptionalParent, label \in Labels :
          (from = None \/ to = None) /\ AddEdge(source, target, from, to, label)
    \/ \E i \in DOMAIN doc.edges :
          \/ RemoveEdge(i)
          \/ \E source, target \in DOMAIN doc.nodes : ReconnectEdge(i, source, target)
          \/ \E from, to \in OptionalParent : SetEdgeEndpointIntent(i, from, to)
          \/ \E label \in Labels : ChangeEdgeLabel(i, label)
          \/ \E stroke \in Strokes : ChangeEdgeStyle(i, stroke)

\* Lists of nodes and regions are of at most one.
SubgraphCommand ==
    \/ \E s \in Subgraphs, parent \in OptionalParent, children \in AtMostOne(DOMAIN doc.nodes),
          regions \in AtMostOne(DOMAIN doc.subgraphs) :
          AddSubgraph(s, parent, children, regions)
    \/ \E s \in DOMAIN doc.subgraphs :
          \/ RemoveSubgraph(s)
          \/ \E look \in Looks : ChangeSubgraph(s, look) \/ ChangeSubgraphTitle(s, look)
          \/ \E parent \in OptionalParent : SetSubgraphParent(s, parent)
          \/ \E added, removed \in AtMostOne(DOMAIN doc.nodes),
                addedRegions, removedRegions \in AtMostOne(DOMAIN doc.subgraphs) :
                ChangeSubgraphMembership(s, added, removed, addedRegions, removedRegions)

Next ==
    \/ NodeCommand
    \/ EdgeCommand
    \/ SubgraphCommand
    \/ \E nodes \in SUBSET DOMAIN doc.nodes, subgraphs \in SUBSET DOMAIN doc.subgraphs :
          TakeView(nodes, subgraphs)

Spec == Init /\ [][Next]_vars

(***************************************************************************)
(* Properties of a document and of its commands.                           *)
(***************************************************************************)

\* Whatever was added, removed, left out of a view and renumbered: edge ids stay unique
\* and the parts of a document well formed, so that an edge added after others were
\* removed does not get the id of one that is left; and a subgraph lists the nodes whose
\* parent it is and no others, though the graph it was written from lists the nodes of
\* nested subgraphs in the outer one too. Hydration looks at none of the latter.
DocumentIsConsistent ==
    /\ IsDocument(base) /\ IsDocument(doc)
    /\ steps \in 0..MaxCommands
    /\ \A s \in DOMAIN doc.subgraphs :
          /\ doc.subgraphs[s].children = {n \in DOMAIN doc.nodes : doc.nodes[n].parent = s}
          /\ doc.subgraphs[s].regions \subseteq DOMAIN doc.subgraphs

\* The intent at an end of an edge names a subgraph around the node.
IntentsEnclose(d) ==
    \A i \in DOMAIN d.edges :
        /\ d.edges[i].from # None => d.edges[i].source \in Members(d, d.edges[i].from)
        /\ d.edges[i].to # None => d.edges[i].target \in Members(d, d.edges[i].to)

\* A document that hydrates still does after a command and in a view: neither leaves an
\* edge, an intent or a parent that names what is gone, or a cycle of parents. Of a
\* view only if intents name subgraphs around their nodes, as the compilers make them.
HydrationIsKept ==
    [][(Hydrates(doc) /\ (event'.kind = "viewed" => IntentsEnclose(doc))) => Hydrates(doc')]_vars

Named(d, id) == {d.edges[i].uid : i \in {j \in DOMAIN d.edges : d.edges[j].id = id}}

\* Where ids are positions, the id an event reports names the edge it is about: the
\* new edge in the document after, the removed one in the document before, and a
\* changed one in both, though the relayout numbers edges anew.
EventsNameTheirEdge ==
    [][Dense(doc) =>
        /\ event'.kind = "edgeAdded" =>
              Named(doc', event'.edge) = Uids(doc') \ Uids(doc)
        /\ event'.kind = "edgeRemoved" =>
              Named(doc, event'.edge) = Uids(doc) \ Uids(doc')
        /\ event'.kind \in {"edgeReconnected", "edgeIntentChanged", "edgeLabelChanged",
                            "edgeStyleChanged"} =>
              /\ Named(doc, event'.edge) = Named(doc', event'.edge)
              /\ Named(doc, event'.edge) # {}]_vars

Styled(d) == {d.edges[i].uid : i \in {j \in DOMAIN d.edges : d.edges[j].id \in d.styles.edges}}
NoStaleStyle(d) == d.styles.edges \subseteq {d.edges[i].id : i \in DOMAIN d.edges}

\* The id a new edge gets is no other edge's, which no command sees to on a view.
NewIdIsFree ==
    event'.kind = "edgeAdded" => \A i \in DOMAIN doc.edges : doc.edges[i].id # event'.edge

\* The style extension names edges by id and the relayout changes ids: a style stays
\* with its edge, an edge that goes takes its style along, and a new one has none,
\* unless it shares its id with one that is there. The extension itself is not set.
StylesFollowTheirEdges ==
    [][(NoStaleStyle(doc) /\ NewIdIsFree /\ event'.kind # "extensionChanged") =>
         Styled(doc') = Styled(doc) \cap Uids(doc')]_vars

(***************************************************************************)
(* Properties of the diff of two documents and of their union.             *)
(***************************************************************************)

Distinguishable(d) ==
    \A i, j \in DOMAIN d.edges :
        (SameEnds(d.edges[i], d.edges[j]) /\ Look(d.edges[i]) = Look(d.edges[j])) => i = j

\* No edge has both ends moved.
KeepsAnEnd(b, a) ==
    \A i \in DOMAIN b.edges, j \in DOMAIN a.edges :
        b.edges[i].uid = a.edges[j].uid =>
            b.edges[i].source = a.edges[j].source \/ b.edges[i].target = a.edges[j].target

\* The diff of a document and what one command makes of it pairs every edge with
\* itself and no other, though the ids after the edge that was added or removed have
\* changed: if labels and strokes tell parallel edges apart, and no edge has both
\* of its ends moved.
DiffTellsTheCommand ==
    [][(Distinguishable(doc) /\ Distinguishable(doc') /\ KeepsAnEnd(doc, doc')) =>
         Matches(doc, doc') = {p \in (DOMAIN doc.edges) \X (DOMAIN doc'.edges) :
                                  doc.edges[p[1]].uid = doc'.edges[p[2]].uid}]_vars

\* Each edge of either document is behind one edge of the union and no other, and an
\* edge of the union stands for one of each just when the diff pairs the two.
UnionAccountsForEveryEdge ==
    LET entries == UnionEntries(base, doc)
        pairs == {<<entries[k].before, entries[k].after>> : k \in DOMAIN entries}
    IN /\ Len(entries) = Len(UnionOf(base, doc).edges)
       /\ \A i \in DOMAIN base.edges : \E k \in DOMAIN entries :
             \A l \in DOMAIN entries : entries[l].before = i <=> l = k
       /\ \A j \in DOMAIN doc.edges : \E k \in DOMAIN entries :
             \A l \in DOMAIN entries : entries[l].after = j <=> l = k
       /\ pairs \cap ((DOMAIN base.edges) \X (DOMAIN doc.edges)) = Matches(base, doc)

\* The union is a document like any other: it hydrates if both documents do, what is
\* removed keeping no parent, endpoint or intent outside it; laid out again, as it is
\* to be drawn, it keeps its edges' ids and order, which the diff's entries refer to,
\* and their styles, though the ids of the two documents clash; and a region that is
\* gone is still a region of its parent, whether that is gone too or not.
UnionIsADocument ==
    LET union == UnionOf(base, doc)
        relaid == Relaid(union)
    IN /\ (Hydrates(base) /\ Hydrates(doc)) => Hydrates(union)
       /\ relaid.edges = union.edges
       /\ relaid.styles.edges = union.styles.edges
       /\ relaid.subgraphs = union.subgraphs
       /\ \A r \in Gone(base.subgraphs, doc.subgraphs) :
            LET s == base.subgraphs[r].parent IN
            (s # None /\ r \in base.subgraphs[s].regions) => r \in union.subgraphs[s].regions

=============================================================================
