----------------------------- MODULE AtlasViews -----------------------------
(***************************************************************************)
(* What an Evidence Atlas shows of a graph: the eleven perspectives        *)
(* (atlas/perspectives.py), the hierarchy of diagrams under each           *)
(* (atlas/hierarchy.py), what one diagram draws (atlas/render.py), and the *)
(* read-only queries over the graph (atlas/queries.py).                    *)
(*                                                                         *)
(* The position among equals - of roots, of neighbours, of the nodes a     *)
(* full diagram drops - is a fixed one: the source sorts by identifier.    *)
(* Types of nodes and edges that no builder produces are left out of the   *)
(* perspectives, except where one is required.                             *)
(***************************************************************************)
EXTENDS EvidenceGraph

\* The n of S that rank highest, highest first.
RECURSIVE Best(_, _, _)
Best(S, n, rank) ==
    IF S = {} \/ n = 0 THEN <<>>
    ELSE LET top == CHOOSE x \in S : \A y \in S : rank[x] >= rank[y]
         IN  <<top>> \o Best(S \ {top}, n - 1, rank)
InOrder(S) == Best(S, Cardinality(S), [x \in S |-> 0])
Members(seq) == {seq[i] : i \in DOMAIN seq}
OneOf(a, b) == IF a < b THEN a ELSE b

---------------------------------------------------------------------------
(* The perspectives.                                                        *)

View(id, nodes, edges, roots, required) ==
    [id |-> id, nodes |-> nodes, edges |-> edges, roots |-> roots, required |-> required]
Support == {"SUPPORTED_BY", "PARTIALLY_SUPPORTED_BY"}
Doubt == {"LEAVES_UNKNOWN", "LIMITED_BY"}
Open == {"unknown", "limitation", "recommendation"}

ClaimChain ==
    View("claim-chain",
         {"intent", "claim", "verified_evidence", "proof", "command", "observation", "conflict",
          "freshness_result"} \cup Open,
         {"ANSWERS", "CONTRADICTED_BY", "OBSERVED_IN", "VALIDATES", "PRODUCED_BY", "EXECUTED_BY",
          "INVALIDATED_BY", "FRESH_FOR", "STALE_FOR", "RECOMMENDS", "DERIVED_FROM"} \cup Support \cup Doubt,
         <<"claim">>, {{"claim"}})
InvestigationFlow ==
    View("investigation-flow",
         {"intent", "run", "tool_call", "observation", "evidence_candidate", "verified_evidence",
          "claim", "conflict", "budget"} \cup Open,
         {"ANSWERS", "PRECEDES", "RETURNED", "PRODUCED_BY", "DERIVED_FROM", "CONTRADICTED_BY",
          "RECOMMENDS", "CONSTRAINED_BY"} \cup Support \cup Doubt,
         <<"run", "intent">>, {{"run"}})
ChangeScope ==
    View("change-scope",
         {"intent", "run", "file", "authorization", "constraint", "verified_evidence", "proof",
          "claim", "policy_rule"} \cup Open,
         {"ANSWERS", "APPLIES_TO", "CONSTRAINED_BY", "VALIDATES", "RECOMMENDS"} \cup Support \cup Doubt,
         <<"change_group", "run", "intent">>, {{"file"}, {"change_group"}})
VerificationCoverage ==
    View("verification-coverage",
         {"claim", "verified_evidence", "proof", "command", "file", "observation",
          "freshness_result", "source", "artifact"} \cup Open,
         {"CONTRADICTED_BY", "VALIDATES", "PRODUCED_BY", "EXECUTED_BY", "APPLIES_TO",
          "DERIVED_FROM", "FRESH_FOR", "STALE_FOR", "INVALIDATED_BY", "RECOMMENDS",
          "OBSERVED_IN"} \cup Support \cup Doubt,
         <<"proof", "claim">>, {{"proof", "verified_evidence"}})
EvidenceDataFlow ==
    View("evidence-data-flow",
         {"intent", "run", "source", "tool_call", "observation", "evidence_candidate",
          "verified_evidence", "claim", "conflict", "artifact", "unknown", "limitation"},
         {"ANSWERS", "PRECEDES", "RETURNED", "PRODUCED_BY", "DERIVED_FROM", "OBSERVED_IN",
          "CONTRADICTED_BY"} \cup Support \cup Doubt,
         <<"run", "intent">>, {{"run"}, {"observation", "verified_evidence"}})
Integrations ==
    View("integrations",
         {"run", "tool_call", "source", "artifact", "command", "proof", "authorization",
          "constraint", "policy_rule", "budget", "unknown"},
         {"RETURNED", "PRODUCED_BY", "DERIVED_FROM", "EXECUTED_BY", "CONSTRAINED_BY",
          "APPLIES_TO", "PRECEDES", "LEAVES_UNKNOWN"},
         <<"run", "source", "tool_call">>, {{"source", "tool_call"}})
Conflicts ==
    View("conflicts",
         {"claim", "verified_evidence", "conflict", "freshness_result", "run"} \cup Open,
         {"CONTRADICTED_BY", "INVALIDATED_BY", "STALE_FOR", "RECOMMENDS"} \cup Support \cup Doubt,
         <<"conflict", "unknown", "run">>, {})
FreshnessView ==
    View("freshness",
         {"verified_evidence", "proof", "freshness_result", "file", "claim"} \cup Open,
         {"FRESH_FOR", "STALE_FOR", "INVALIDATED_BY", "APPLIES_TO", "VALIDATES",
          "RECOMMENDS"} \cup Support \cup Doubt,
         <<"freshness_result", "verified_evidence">>, {{"freshness_result"}})
ImprovementChain ==
    View("improvement-chain",
         {"finding", "constraint", "proof", "claim", "verified_evidence", "conflict"} \cup Open,
         {"CONSTRAINED_BY", "RECOMMENDS", "VALIDATES", "DERIVED_FROM", "INVALIDATED_BY"}
            \cup Support \cup Doubt,
         <<"finding", "claim">>, {{"finding"}, {"constraint"}, {"recommendation"}, {"proof"}})
RegressionLineage ==
    View("regression-lineage",
         {"finding", "proof", "freshness_result", "verified_evidence", "claim", "artifact",
          "conflict"} \cup Open,
         {"FRESH_FOR", "STALE_FOR", "INVALIDATED_BY", "VALIDATES", "DERIVED_FROM", "RECOMMENDS",
          "CONTRADICTED_BY", "PRODUCED_BY"} \cup Support \cup Doubt,
         <<"proof", "verified_evidence">>,
         {{"proof", "verified_evidence"}, {"freshness_result"}, {"finding"}})
BehaviouralRisk ==
    View("behavioural-risk",
         {"finding", "verified_evidence", "observation", "claim", "conflict"} \cup Open,
         {"DERIVED_FROM", "CONTRADICTED_BY", "RECOMMENDS"} \cup Support \cup Doubt,
         <<"finding">>, {{"finding"}})

Views == <<ClaimChain, InvestigationFlow, ChangeScope, VerificationCoverage, EvidenceDataFlow,
           Integrations, Conflicts, FreshnessView, ImprovementChain, RegressionLineage,
           BehaviouralRisk>>
ViewIds == {Views[n].id : n \in DOMAIN Views}

\* required_tag: of the findings and recommendations, only those of a risk diagnosis.
Eligible(g, view) == {n \in g.nodes : view.id = "behavioural-risk" => n.risk}

Missing(g, view) ==
    \E types \in view.required : ~\E n \in Eligible(g, view) : n.key[1] \in types

\* _ensure_unknown_node: what a perspective lacks is a node of the graph, which the
\* perspectives after it see.
UnknownKey(view) == <<"unknown", <<"perspective", view.id>>>>
Unknowns(g, n) ==
    {Node("unknown", UnknownKey(Views[i])[2], "unknown", "n/a", Manifest) :
        i \in {j \in 1..n : Missing(g, Views[j])}}
Projected(g) == [g EXCEPT !.nodes = @ \cup Unknowns(g, Len(Views))]

\* _roots
RootsOf(keys, view, lacking) ==
    LET of(i) == {k \in keys : k[1] = view.roots[i]}
        present == {i \in DOMAIN view.roots : of(i) # {}}
        typed == IF present = {} THEN <<>>
                 ELSE InOrder(of(CHOOSE i \in present : \A j \in present : i <= j))
        roots == IF lacking # {} /\ lacking \cap Members(typed) = {}
                 THEN typed \o InOrder(lacking) ELSE typed
    IN  IF roots = <<>> /\ keys # {} THEN <<CHOOSE k \in keys : TRUE>> ELSE roots

\* _retain_connected_nodes: those on its edges, its possible roots and what it lacks.
Retained(view, selected, edges, lacking) ==
    UNION {{e.from, e.to} : e \in edges}
        \cup {k \in selected : k[1] \in Members(view.roots)} \cup lacking

\* apply_perspectives, for the n-th.
Perspective(g, n) ==
    LET Lacking(view) == IF Missing(g, view) THEN {UnknownKey(view)} ELSE {}
        Shown(view, lacking) ==
            {m.key : m \in {x \in Eligible([g EXCEPT !.nodes = @ \cup Unknowns(g, n)], view) :
                              x.key[1] \in view.nodes}} \cup lacking
        Edges(view, selected) ==
            {e \in g.edges : e.type \in view.edges /\ {e.from, e.to} \subseteq selected}
        Laid(view, lacking, selected, edges) ==
            LET keys == Retained(view, selected, edges, lacking)
            IN  [id |-> view.id, nodes |-> keys, edges |-> edges,
                 roots |-> RootsOf(keys, view, lacking)]
        Selected(view, lacking, selected) ==
            Laid(view, lacking, selected, Edges(view, selected))
        Of(view, lacking) == Selected(view, lacking, Shown(view, lacking))
    IN  Of(Views[n], Lacking(Views[n]))

---------------------------------------------------------------------------
(* The hierarchy.  A policy is [depth, nodes, children, total]; the flag    *)
(* that turns off de-duplication is refused by the manifest's schema.       *)

\* merge_policy
PolicyAccepted(policy) ==
    /\ \A field \in DOMAIN policy : policy[field] >= 1
    /\ policy.total >= Len(Views)

\* _evaluate_complexity: what makes a node worth a diagram of its own.  The modules of
\* two paths are taken to differ.
Complexity(g, maxNodes) ==
    [node \in Keys(g) |->
        LET at == NodeAt(g, node)
            out == {e \in g.edges : e.from = node}
            in == {e \in g.edges : e.to = node}
            types == {e.type : e \in out \cup in}
            near == {e.to : e \in out} \cup {e.from : e \in in}
            Of(type) == {k \in near : k[1] = type}
            conflict == node[1] = "conflict" \/ at.status = "conflicted"
            stale == at.fresh = "changed" \/ at.status = "stale"
            mandatory ==
                \/ Cardinality(Of("claim")) >= 2 \/ Cardinality(Of("file")) >= 2
                \/ {e.type : e \in out} \cap Support # {} /\ \E e \in out : e.type = "CONTRADICTED_BY"
                \/ conflict \/ stale \/ at.status = "partially_supported"
                \/ Cardinality(near) + 1 > maxNodes
            score == Cardinality(out) + OneOf(Cardinality(in), 3)
                       + (IF types = {} THEN 0 ELSE Cardinality(types) - 1)
                       + (IF conflict THEN 3 ELSE 0)
                       + (IF node[1] = "unknown" \/ at.status = "unknown" THEN 2 ELSE 0)
                       + (IF stale THEN 2 ELSE 0)
                       + (IF Cardinality({k[1] : k \in near}) >= 3 THEN 2 ELSE 0)
        IN  IF mandatory /\ score < 8 THEN 8 ELSE score]
Leaf(score) == score < 4

\* _TYPED_DECOMPOSERS: in which order a diagram takes the neighbours of its root.
Decomposers ==
    [finding |-> <<{"claim"}, {"verified_evidence", "proof", "observation"}, {"conflict"},
                   {"limitation", "unknown"}, {"recommendation"}>>,
     claim |-> <<{}, {"verified_evidence", "proof", "evidence_candidate", "observation"},
                 {"conflict"}, {"freshness_result"}, {"limitation", "unknown"}, {"recommendation"}>>,
     proof |-> <<{"command"}, {"file", "artifact"}, {"claim"}, {"freshness_result"},
                 {"limitation", "unknown"}>>,
     source |-> <<{"tool_call", "run"}, {"verified_evidence", "evidence_candidate", "observation"},
                  {"conflict", "unknown"}, {"authorization", "constraint", "policy_rule"},
                  {"limitation"}>>]

\* _decomposition_neighbors
NeighboursOf(edges, root) ==
    LET near == {e.to : e \in {x \in edges : x.from = root}}
                  \cup {e.from : e \in {x \in edges : x.to = root}}
        groups == IF root[1] \in DOMAIN Decomposers THEN Decomposers[root[1]] ELSE <<>>
        rank == [k \in near |-> IF \E i \in DOMAIN groups : k[1] \in groups[i]
                                THEN Len(groups) - (CHOOSE i \in DOMAIN groups : k[1] \in groups[i])
                                ELSE 0]
    IN  Best(near, Cardinality(near), [k \in near |-> 10 * rank[k]])

First(seq, n) == SubSeq(seq, 1, OneOf(n, Len(seq)))

Diagram(view, item, policy) ==
    LET near == NeighboursOf(view.edges, item.node)
        kept == First(near, OneOf(policy.children, policy.nodes - 1))
        nodes == {item.node} \cup Members(kept)
    IN  [id |-> <<view.id, item.node, item.depth>>, root |-> item.node, parent |-> item.parent,
         depth |-> item.depth, nodes |-> nodes, children |-> kept,
         edges |-> {e \in view.edges : {e.from, e.to} \subseteq nodes},
         omitted |-> Members(near) \ Members(kept)]

\* decompose, with a stack for its recursion: the next item is a root or a neighbour
\* of the diagram `parent`.  A neighbour that gets no diagram is a reference, unless
\* it is a leaf.
Skipped(item, scores) == item.parent # None /\ Leaf(scores[item.node])
Reason(item, diagrams, policy) ==
    LET full == Cardinality(diagrams) >= policy.total
    IN  IF item.parent = None /\ full THEN "budget"
        ELSE IF item.node \in item.path THEN "cycle"
        ELSE IF \E d \in diagrams : d.root = item.node THEN "deduplicated"
        ELSE IF item.parent # None /\ item.depth > policy.depth THEN "max_depth"
        ELSE IF full THEN "budget" ELSE None

Decomposed(view, scores, policy, diagram, item, acc) ==
    LET reason == Reason(item, acc.diagrams, policy)
        rest == [acc EXCEPT !.stack = Tail(@)]
        below == [i \in DOMAIN diagram.children |->
                     [node |-> diagram.children[i], depth |-> item.depth + 1,
                      path |-> item.path \cup {item.node}, parent |-> diagram.id]]
    IN  IF Skipped(item, scores) THEN rest
        ELSE IF reason # None
        THEN [rest EXCEPT !.references = @ \cup
                 {[node |-> item.node, parent |-> item.parent, reason |-> reason]}]
        ELSE [rest EXCEPT !.diagrams = @ \cup {diagram}, !.stack = below \o @]

RECURSIVE Decompose(_, _, _, _)
Decompose(view, scores, policy, acc) ==
    IF acc.stack = <<>> THEN acc
    ELSE Decompose(view, scores, policy,
                   Decomposed(view, scores, policy, Diagram(view, Head(acc.stack), policy),
                              Head(acc.stack), acc))

\* build_hierarchy, for one perspective
Hierarchy(view, scores, policy) ==
    Decompose(view, scores, policy,
              [stack |-> [i \in DOMAIN view.roots |->
                             [node |-> view.roots[i], depth |-> 0, path |-> {}, parent |-> None]],
               diagrams |-> {}, references |-> {}])

\* Every perspective still to come has one diagram in reserve.
HierarchyWithin(view, scores, policy, left, later) ==
    Hierarchy(view, scores, [policy EXCEPT !.total = left - later])

\* _build_all_hierarchies
RECURSIVE Hierarchies(_, _, _, _, _)
Hierarchies(views, scores, policy, left, done) ==
    LET next == Len(done) + 1
        With(tree) == Hierarchies(views, scores, policy, left - Cardinality(tree.diagrams),
                                  Append(done, tree))
    IN  IF next > Len(views) THEN done
        ELSE With(HierarchyWithin(views[next], scores, policy, left, Len(views) - next))

---------------------------------------------------------------------------
(* One drawing.                                                             *)

\* build_diagram_ir: when there are too many nodes, the last place is for the count of
\* those left out, and roots, Claims, conflicts, unknowns and Evidence stay longest.
Category(node, roots) ==
    IF node.key \in roots THEN 5
    ELSE IF node.key[1] \in {"claim", "finding"} THEN 4
    ELSE IF node.key[1] \in {"conflict", "unknown"} \/ node.status \in {"conflicted", "unknown"} THEN 3
    ELSE IF node.key[1] \in {"verified_evidence", "proof"} \/ node.status = "verified" THEN 2
    ELSE 1

Drawing(g, keys, edges, roots, scores, max) ==
    LET inferred == {k \in keys : /\ k[1] \in {"intent", "run", "finding", "claim"}
                                  /\ ~\E e \in edges : e.to = k}
        rank == [k \in keys |-> 100 * Category(NodeAt(g, k), roots \cup inferred) + OneOf(scores[k], 99)]
        crowded == Cardinality(keys) > max
        kept == IF ~crowded THEN keys
                ELSE Members(Best(keys, IF max > 1 THEN max - 1 ELSE max, rank))
    IN  [nodes |-> {NodeAt(g, k) : k \in kept},
         edges |-> {e \in edges : {e.from, e.to} \subseteq kept},
         places |-> Cardinality(kept) + (IF crowded /\ max > 1 THEN 1 ELSE 0)]

---------------------------------------------------------------------------
(* Queries.                                                                 *)

Nearest(S, level) == [i \in 1..Cardinality(S) |-> <<InOrder(S)[i], level>>]

\* Defective variant: the node found last is the next one visited.
RECURSIVE VisitDeep(_, _, _, _, _)
VisitDeep(edges, depth, limit, queue, acc) ==
    IF queue = <<>> THEN acc
    ELSE LET key == Head(queue)[1]
             level == Head(queue)[2]
             from == IF level >= depth THEN {} ELSE {e \in edges : e.from = key}
             next == {e.to : e \in from} \ (acc.nodes \cup {key})
         IN  IF key \in acc.nodes THEN VisitDeep(edges, depth, limit, Tail(queue), acc)
             ELSE IF Cardinality(acc.nodes) >= limit THEN [acc EXCEPT !.truncated = TRUE]
             ELSE VisitDeep(edges, depth, limit, Nearest(next, level + 1) \o Tail(queue),
                            [acc EXCEPT !.nodes = @ \cup {key}, !.edges = @ \cup from])

\* get_node_subgraph: breadth first from the root, up to `depth` edges and `limit` nodes.
RECURSIVE Visit(_, _, _, _, _)
Visit(edges, depth, limit, queue, acc) ==
    IF queue = <<>> THEN acc
    ELSE LET key == Head(queue)[1]
             level == Head(queue)[2]
             from == IF level >= depth THEN {} ELSE {e \in edges : e.from = key}
             next == {e.to : e \in from} \ (acc.nodes \cup {key})
         IN  IF key \in acc.nodes THEN Visit(edges, depth, limit, Tail(queue), acc)
             ELSE IF Cardinality(acc.nodes) >= limit THEN [acc EXCEPT !.truncated = TRUE]
             ELSE Visit(edges, depth, limit, Tail(queue) \o Nearest(next, level + 1),
                        [acc EXCEPT !.nodes = @ \cup {key}, !.edges = @ \cup from])
Subgraph(view, types, root, depth, limit) ==
    LET edges == {e \in view.edges : types = {} \/ e.type \in types}
        found == Visit(edges, depth, limit, <<<<root, 0>>>>,
                       [nodes |-> {}, edges |-> {}, truncated |-> FALSE])
    IN  [found EXCEPT !.edges = {e \in found.edges : {e.from, e.to} \subseteq found.nodes}]

\* trace_claim_support, trace_conflict, trace_freshness_impact: the view and the edges
\* of each, and what it may start from.
ClaimTrace == [view |-> "claim-chain", roots |-> {"claim"},
               types |-> {"CONTRADICTED_BY", "DERIVED_FROM", "PRODUCED_BY", "VALIDATES", "FRESH_FOR",
                          "STALE_FOR", "INVALIDATED_BY", "RECOMMENDS"} \cup Support \cup Doubt]
ConflictTrace == [view |-> "conflicts", roots |-> {"conflict"}, types |-> {}]
FreshnessTrace == [view |-> "freshness", types |-> {},
                   roots |-> {"verified_evidence", "proof", "freshness_result"}]
=============================================================================
