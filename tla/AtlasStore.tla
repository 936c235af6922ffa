----------------------------- MODULE AtlasStore -----------------------------
(***************************************************************************)
(* Building and rebuilding the Evidence Atlas beside a bundle              *)
(* (atlas/storage.py, atlas/diff.py).  A rebuild compares the record       *)
(* hashes of the atlas it finds with those of the bundle, derives which    *)
(* perspectives and diagrams the changed records reach, and takes the      *)
(* other files over from the old atlas.                                    *)
(*                                                                         *)
(* What a file shows is a function of the inputs it was rendered from, so  *)
(* the model records those: a page is one perspective's directory, `drawn` *)
(* the inputs of its own files, and each of its diagrams has its inputs.   *)
(* The sheet of the inputs is what is then to be seen on it.               *)
(***************************************************************************)
EXTENDS AtlasViews, TLC

CONSTANTS
    Bundles,      \* the versions of the bundle: name -> bundle
    Diagnoses,    \* the risk diagnoses a build may be given: name -> diagnosis
    Policies,     \* generation policies
    Selections,   \* sets of perspectives a build may ask for
    Absent        \* no atlas; a function of None is one of Diagnoses

VARIABLES
    bundle,    \* the version in place
    atlas,     \* Absent, or [in, pages, intact]
    outcome    \* of the last build
vars == <<bundle, atlas, outcome>>

Inputs == [bundle : DOMAIN Bundles, policy : Policies, diagnosis : DOMAIN Diagnoses,
           views : Selections]

\* _select_perspectives: those asked for, in the order of all.
SelectPerspectives(all, views) == SelectSeq(all, LAMBDA view : view.id \in views)

Sheet(in) ==
    LET Scored(derived, graph) ==
            [graph |-> graph, scores |-> Complexity(graph, in.policy.nodes),
             all |-> [n \in DOMAIN Views |-> Perspective(derived, n)]]
        Of(derived) == Scored(derived, Projected(derived))
        Trees(chosen, scores) ==
            LET trees == Hierarchies(chosen, scores, in.policy, in.policy.total, <<>>)
            IN  [id \in in.views |-> trees[CHOOSE n \in DOMAIN chosen : chosen[n].id = id]]
        Laid(scored) ==
            [graph |-> scored.graph, scores |-> scored.scores,
             views |-> [id \in ViewIds |->
                           scored.all[CHOOSE n \in DOMAIN scored.all : scored.all[n].id = id]],
             trees |-> Trees(SelectPerspectives(scored.all, in.views), scored.scores)]
    IN  Laid(Of(BuildGraph(Bundles[in.bundle], Diagnoses[in.diagnosis])))

Sheets == [in \in Inputs |-> Sheet(in)] @@ <<>>   \* worked out once
\* Every bundle that is built from is valid, and every policy an accepted one.
AtlasAssumption ==
    /\ \A name \in DOMAIN Bundles : Valid(Bundles[name])
    /\ \A policy \in Policies : PolicyAccepted(policy)
    /\ \A views \in Selections : views # {} /\ views \subseteq ViewIds

---------------------------------------------------------------------------
(* What a rebuild takes over.                                               *)

\* Defective variant: only records that came or went.
RecordsChangedByName(old, new) ==
    LET names(b) == {h[1] : h \in RecordHashes(b)}
    IN  (names(old) \ names(new)) \cup (names(new) \ names(old))
RecordsChanged(old, new) ==
    {h[1] : h \in (RecordHashes(old) \ RecordHashes(new)) \cup (RecordHashes(new) \ RecordHashes(old))}

\* _flatten_hierarchies: the diagrams of all perspectives are one list.
DiagramsOf(sheet) == UNION {sheet.trees[v].diagrams : v \in DOMAIN sheet.trees}

\* affected_records on the old index, _merge_current_impact on the new one.
Touched(sheet, records) == UNION {NodesOf(sheet.graph, r) : r \in records}

\* _update_record_perspectives, _update_record_parent_diagrams: where records show
\* that are these nodes.
ViewsAt(sheet, nodes) == {v \in ViewIds : sheet.views[v].nodes \cap nodes # {}}
DiagramsAt(sheet, nodes) == {d.id : d \in {x \in DiagramsOf(sheet) : x.nodes \cap nodes # {}}}

\* before, after: the nodes of the changed records in the old and the new graph.
ViewsTouched(old, new, before, after) == ViewsAt(old, before) \cup ViewsAt(new, after)
DiagramsTouched(old, new, before, after) == DiagramsAt(old, before) \cup DiagramsAt(new, after)

\* load_evidence_atlas: the manifest of the atlas has the hash of every file, as it is.
Loads == atlas # Absent /\ atlas.intact

\* A previous atlas counts when it loads, and when there is no risk diagnosis.
Previous(in) == Loads /\ Diagnoses[in.diagnosis] = None

\* _previous_projection_exists, _load_previous_projection
HasProjection(v) == v \in DOMAIN atlas.pages
PreviousProjection(v) == atlas.pages[v]

\* What a build need not draw again: whole perspectives, and diagrams.
Kept(in, old, new, records) ==
    LET Impact(before, after) ==
            LET touched == ViewsTouched(old, new, before, after)
            IN  [views |-> IF touched = {} /\ records # {} THEN ViewIds ELSE touched,
                 diagrams |-> DiagramsTouched(old, new, before, after)]
        Rest(impact) ==
            [views |-> {v \in in.views : HasProjection(v)} \ impact.views,
             diagrams |-> UNION {DOMAIN atlas.pages[v].diagrams : v \in DOMAIN atlas.pages}
                            \ impact.diagrams]
        before == Touched(old, records)
    IN  Rest(Impact(before, before \cup Touched(new, records)))
KeptBy(in, sheets) ==
    IF ~Previous(in) THEN [views |-> {}, diagrams |-> {}]
    ELSE Kept(in, sheets[atlas.in], sheets[in], RecordsChanged(Bundles[atlas.in.bundle], Bundles[in.bundle]))

\* _load_previous_recursive_projections: every diagram of a page that is taken over
\* has its root in the new graph.
Reusable(kept, new) ==
    \A v \in kept.views : \A id \in DOMAIN atlas.pages[v].diagrams : id[2] \in Keys(new.graph)

Page(in, v, kept, new) ==
    IF v \in kept.views THEN PreviousProjection(v)
    ELSE [drawn |-> in,
          diagrams |-> [id \in {d.id : d \in new.trees[v].diagrams} |->
                           IF id \in kept.diagrams THEN atlas.pages[v].diagrams[id] ELSE in]]

\* _write_graph: a directory for each perspective, copied or drawn.
Pages(in, kept, new) == [v \in in.views |-> Page(in, v, kept, new)]

---------------------------------------------------------------------------
Init == bundle \in DOMAIN Bundles /\ atlas = Absent /\ outcome = "none"

\* _seal_sidecar: what it was built from, and the hashes of all its files.
Sealed(in, pages) == [in |-> in, pages |-> pages, intact |-> TRUE]

\* build_evidence_atlas
Build(in, kept, new) ==
    /\ Reusable(kept, new)
    /\ atlas' = Sealed(in, Pages(in, kept, new))
    /\ outcome' = "built"
    /\ UNCHANGED bundle

Fail(kept, new) ==
    /\ ~Reusable(kept, new)
    /\ outcome' = "failed"
    /\ UNCHANGED <<bundle, atlas>>

Rebuild(in, sheets) ==
    /\ in.bundle = bundle
    /\ \E kept \in {KeptBy(in, sheets)} : Build(in, kept, sheets[in]) \/ Fail(kept, sheets[in])

\* The investigation is compiled again; the atlas is edited, or removed.
Recompile ==
    /\ bundle' \in DOMAIN Bundles \ {bundle}
    /\ UNCHANGED <<atlas, outcome>>

Edit ==
    /\ atlas # Absent /\ atlas.intact
    /\ atlas' = [atlas EXCEPT !.intact = FALSE]
    /\ UNCHANGED <<bundle, outcome>>

Remove ==
    /\ atlas # Absent
    /\ atlas' = Absent
    /\ UNCHANGED <<bundle, outcome>>

Next == (\E in \in Inputs : Rebuild(in, Sheets)) \/ Recompile \/ Edit \/ Remove
Spec == Init /\ [][Next]_vars

---------------------------------------------------------------------------
(* What is to be seen.                                                      *)

ViewDrawing(sheet, in, v) ==
    LET Of(view) == Drawing(sheet.graph, view.nodes, view.edges, Members(view.roots), sheet.scores,
                            in.policy.nodes)
    IN  Of(sheet.views[v])
DiagramDrawing(sheet, in, id) ==
    LET Of(diagram) == Drawing(sheet.graph, diagram.nodes, diagram.edges, {diagram.root},
                               sheet.scores, in.policy.nodes)
    IN  Of(CHOOSE d \in sheet.trees[id[1]].diagrams : d.id = id)

Drawings(sheets) ==
    UNION {LET page == atlas.pages[v]
           IN  {ViewDrawing(sheets[page.drawn], page.drawn, v)}
                 \cup {DiagramDrawing(sheets[page.diagrams[id]], page.diagrams[id], id) :
                           id \in DOMAIN page.diagrams} : v \in DOMAIN atlas.pages}

\* _validate_hierarchy: the budgets, parents and children that agree, and every diagram
\* below a root diagram that a perspective names.
RootIds(tree) == {d.id : d \in {x \in tree.diagrams : x.parent = None}}
Below(tree, ids) == ids \cup {d.id : d \in {x \in tree.diagrams : x.parent \in ids}}
HierarchyValid(sheet, policy, named) ==
    /\ Cardinality(DiagramsOf(sheet)) <= policy.total
    /\ \A v \in DOMAIN sheet.trees : LET tree == sheet.trees[v] IN
        /\ \A d \in tree.diagrams :
             /\ d.depth <= policy.depth /\ Cardinality(d.nodes) <= policy.nodes
             /\ Cardinality(Below(tree, {d.id}) \ {d.id}) <= policy.children
             /\ d.parent # None => \E up \in tree.diagrams :
                   up.id = d.parent /\ d.depth = up.depth + 1 /\ d.root \in Members(up.children)
        /\ named[v] # {} /\ named[v] \subseteq RootIds(tree)
        /\ {d.id : d \in tree.diagrams}
             = LET reached[n \in 0..policy.depth] ==
                       IF n = 0 THEN named[v] ELSE Below(tree, reached[n - 1])
               IN  reached[policy.depth]

\* _validate_manifest_identity, _validate_sidecar_hashes
IdentityHolds == atlas.in.bundle = bundle
HashesHold == atlas.intact

\* _validate_graph_perspective_refs, _validate_perspectives: what the graph says a
\* perspective shows, and what its file says, is in the graph.
RefersTo(view, graph) == view.nodes \subseteq Keys(graph) /\ view.edges \subseteq graph.edges
PerspectiveValid(view, graph) ==
    /\ RefersTo(view, graph)
    /\ \A e \in view.edges : {e.from, e.to} \subseteq view.nodes

\* _validate_hashed_projection_files: of the drawings, those of the perspectives only.
ProjectionValid(drawing, policy) == drawing.places <= policy.nodes

\* validate_evidence_atlas
Accepted(sheets) ==
    LET drawn(v) == atlas.pages[v].drawn
        Named == [v \in DOMAIN atlas.pages |-> RootIds(sheets[drawn(v)].trees[v])]
        Of(sheet) ==
            /\ GraphValid(sheet.graph, Bundles[bundle])
            /\ \A v \in DOMAIN sheet.views : RefersTo(sheet.views[v], sheet.graph)
            /\ HierarchyValid(sheet, atlas.in.policy, Named)
            /\ \A v \in DOMAIN atlas.pages :
                 /\ PerspectiveValid(sheets[drawn(v)].views[v], sheet.graph)
                 /\ ProjectionValid(ViewDrawing(sheets[drawn(v)], drawn(v), v), atlas.in.policy)
    IN  IdentityHolds /\ HashesHold /\ Of(sheets[atlas.in])

\* The perspectives in which the findings of a risk diagnosis show.  A rebuild compares
\* the records of the bundle and nothing of the diagnosis: such a page, drawn with one,
\* may be taken over by a build that has none.
RiskViews == {Views[n].id : n \in {m \in DOMAIN Views : "finding" \in Views[m].nodes}}
RisksAreItsOwn ==
    \A v \in DOMAIN atlas.pages \cap RiskViews :
        Diagnoses[atlas.pages[v].drawn.diagnosis] # None => atlas.pages[v].drawn = atlas.in

\* An atlas that nobody edited and whose bundle is in place passes the validator, as
\* long as no page was taken over from a build under another policy, or with the findings
\* of a diagnosis that this build was not given.
BuiltIsAccepted ==
    (/\ atlas # Absent /\ atlas.intact /\ atlas.in.bundle = bundle
     /\ \A v \in DOMAIN atlas.pages : /\ atlas.pages[v].drawn.policy = atlas.in.policy
                                       /\ atlas.pages[v].drawn.views = atlas.in.views
     /\ RisksAreItsOwn) => Accepted(Sheets)

\* Whatever files a rebuild took over, no drawing of the atlas shows a node or an edge
\* the graph does not have as drawn: what has gone stale is never shown as current, but
\* for the findings of a diagnosis the build was not given.
ShownIsCurrent ==
    LET Of(graph) == \A drawing \in Drawings(Sheets) :
                        drawing.nodes \subseteq graph.nodes /\ drawing.edges \subseteq graph.edges
    IN  atlas # Absent /\ RisksAreItsOwn => Of(Sheets[atlas.in].graph)

\* Every perspective that was asked for has a diagram however small the budget, and a
\* neighbour worth a diagram that is drawn as a child has one below its parent or is named
\* as a reference there.  A neighbour beyond the cap on children is no child: the drawing
\* names its id among the omitted ones and nothing is drawn of it.
NothingUnaccounted ==
    LET Of(tree, scores) ==
            /\ tree.diagrams # {}
            /\ \A d \in tree.diagrams : \A k \in Members(d.children) :
                \/ Leaf(scores[k])
                \/ \E down \in tree.diagrams : down.parent = d.id /\ down.root = k
                \/ \E r \in tree.references : r.node = k /\ r.parent = d.id
        All(now) == \A v \in DOMAIN now.trees : Of(now.trees[v], now.scores)
    IN  atlas # Absent => All(Sheets[atlas.in])

\* A trace that does not say it is truncated has everything within its depth.
RECURSIVE Within(_, _, _)
Within(edges, keys, depth) ==
    IF depth = 0 THEN keys
    ELSE Within(edges, keys \cup {e.to : e \in {x \in edges : x.from \in keys}}, depth - 1)
TracesAreComplete ==
    LET Complete(found, all) ==
            /\ Cardinality(found.nodes) <= 14 /\ found.nodes \subseteq all
            /\ found.truncated \/ found.nodes = all
        Of(view, trace, edges) ==
            \A root \in {k \in view.nodes : k[1] \in trace.roots} : \A depth \in 1..4 :
                Complete(Subgraph(view, trace.types, root, depth, 14), Within(edges, {root}, depth))
        All(views) ==
            \A trace \in {ClaimTrace, ConflictTrace, FreshnessTrace} :
                Of(views[trace.view], trace,
                   {e \in views[trace.view].edges : trace.types = {} \/ e.type \in trace.types})
    IN  atlas # Absent => All(Sheets[atlas.in].views)

\* An atlas leaves nothing out unsaid: neither a perspective, nor a child of a drawing, nor
\* a part of a trace.
NothingIsOmitted == NothingUnaccounted /\ TracesAreComplete

\* "Hard budgets bound depth, nodes per diagram, children per node, and total diagrams."
BudgetsHold ==
    atlas # Absent => \A drawing \in Drawings(Sheets) : drawing.places <= atlas.in.policy.nodes
=============================================================================
