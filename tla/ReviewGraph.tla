---------------------------- MODULE ReviewGraph ----------------------------
(***************************************************************************)
(* The Review Graph (review_graph/builder.py): the symbol graph of the     *)
(* code, the Evidence Graph of a bundle and the contract of one            *)
(* Improvement Issue in one graph; and the bounded slices of it that an    *)
(* agent is given (slicer.py).                                             *)
(*                                                                         *)
(* An improvements directory is [issues, constraints]: issues a function   *)
(* from ids to [findings, evidence], constraints a set of                  *)
(* [issue, allowed, protected, forbidden, verification].  allowed and      *)
(* protected are the paths the patterns match.  A slice is as large as it  *)
(* has nodes, edges and expandable nodes, in Bytes.                        *)
(***************************************************************************)
EXTENDS EvidenceGraph, CodeIndex

NodeBytes == 4
\* The safety kernel: what every root slice must have.
RootKinds == {"intent", "allowed_scope", "protected_scope", "verification_requirement", "stop_condition"}

---------------------------------------------------------------------------
(* The contract.                                                            *)

\* load_improvement_contract: the one issue, or the one asked for, with its one
\* constraint; empty when there is none to be had.
Chosen(dir, wanted) ==
    {i \in DOMAIN dir.issues :
        /\ IF wanted = None THEN Cardinality(DOMAIN dir.issues) = 1 ELSE i = wanted
        /\ dir.issues[i].findings # {} /\ dir.issues[i].evidence # {}
        /\ Cardinality({c \in dir.constraints : c.issue = i}) = 1}
Contracts(dir, wanted) ==
    {[id |-> c.issue, findings |-> dir.issues[c.issue].findings,
      evidence |-> dir.issues[c.issue].evidence, by |-> c] :
        c \in {x \in dir.constraints : x.issue \in Chosen(dir, wanted)}}

ControlNode(kind, state, says) ==
    [key |-> <<"review", kind>>, kind |-> kind, state |-> state, mandatory |-> TRUE,
     priority |-> 100, changed |-> FALSE, says |-> says]
\* _scope_node: nothing recorded is not known.
ScopeNode(kind, values) == ControlNode(kind, IF values = {} THEN "UNKNOWN" ELSE "PASS", values)

Intention == ControlNode("intent", "PASS", None)
IssueNode(contract) == ControlNode("review_issue", "PASS", contract)
AllowedNode(contract) == ScopeNode("allowed_scope", contract.by.allowed)
ProtectedNode(contract) == ScopeNode("protected_scope", contract.by.protected \cup contract.by.forbidden)
VerificationNode(contract) == ScopeNode("verification_requirement", contract.by.verification)
StopNode == ControlNode("stop_condition", "PASS", None)

ControlPart(contract) ==
    LET issue == IssueNode(contract)
        to(relation, node) == Link(issue.key, relation, node.key, <<"contract">>)
    IN  [nodes |-> {Intention, issue, AllowedNode(contract), ProtectedNode(contract),
                    VerificationNode(contract), StopNode},
         edges |-> {Link(Intention.key, "TARGETS", issue.key, <<"contract">>),
                    to("AUTHORIZED_BY", AllowedNode(contract)),
                    to("CONSTRAINED_BY", ProtectedNode(contract)),
                    to("REQUIRES_VERIFICATION", VerificationNode(contract)), to("STOP_IF", StopNode)}]

---------------------------------------------------------------------------
(* The evidence.                                                            *)

EvidenceState(n) ==
    CASE n.fresh = "changed" \/ n.status = "stale" -> "UNKNOWN"
      [] n.fresh # "changed" /\ n.status \in {"verified", "supported", "current", "resolved", "recorded"} -> "PASS"
      [] n.fresh # "changed" /\ n.status \in {"unsupported", "conflicted"} -> "FAIL"
      [] OTHER -> "UNKNOWN"

\* Nodes the Evidence Graph calls important.
Important(n) ==
    \/ n.key[1] \in {"intent", "claim", "unknown", "authorization", "verified_evidence", "proof",
                     "conflict", "constraint", "policy_rule", "limitation"}
    \/ n.key[1] = "freshness_result" /\ n.status # "current"

Cites(n, collection, ids) == \E r \in n.refs : r[1] = collection /\ r[2] \in ids
\* The records an issue names become mandatory, and nothing else of the bundle.
Justifies(n, contract) ==
    \/ n.key[1] = "claim" /\ Cites(n, "claims", contract.findings)
    \/ n.key[1] = "verified_evidence" /\ Cites(n, "evidence", contract.evidence)

Concerns(n, contract) == Cites(n, "claims", contract.findings) \/ Cites(n, "evidence", contract.evidence)
EvidenceNode(n, contract) ==
    [key |-> n.key, kind |-> n.key[1], state |-> EvidenceState(n), changed |-> FALSE, says |-> None,
     mandatory |-> Justifies(n, contract),
     priority |-> IF Justifies(n, contract) THEN 100
                  ELSE IF Concerns(n, contract) \/ EvidenceState(n) \in {"FAIL", "UNKNOWN"} THEN 90
                  ELSE IF Important(n) THEN 85 ELSE 65]

\* Records that the issue names and the bundle does not have end the build.
Missing(contract, b) == (contract.findings \ DOMAIN b.claims) \cup (contract.evidence \ DOMAIN b.evidence)

\* JUSTIFIED_BY and BINDS_TO_CODE; bindings are of evidence and of the authorization it gives.
Justified(g, contract) ==
    {Link(IssueNode(contract).key, "JUSTIFIED_BY", n.key, <<"contract">>) :
        n \in {m \in g.nodes : Justifies(m, contract)}}
Bound(b, code) ==
    UNION {{Link(<<type, e>>, "BINDS_TO_CODE", n.key, <<"evidence", e>>) :
               type \in {"verified_evidence"}
                          \cup {t \in {"authorization"} : b.evidence[e].kind = "authority_fact"},
               n \in {m \in code.nodes : m.key \in {FileKey(p) : p \in b.evidence[e].paths}}} :
           e \in DOMAIN b.evidence}

---------------------------------------------------------------------------
(* The graph.                                                               *)

\* Changed files of the code: those in scope are what the issue is about, those that
\* are not are mandatory too, for the failure they are.
Targets(code, contract) == {n \in code.nodes : n.kind = "file" /\ n.changed /\ n.key[2] \in contract.by.allowed}
ScopeFailures(code, contract) ==
    LET changed == {n.key[2] : n \in {m \in code.nodes : m.kind = "file" /\ m.changed}}
    IN  {Diagnostic("CHANGED_OUTSIDE_ALLOWED_SCOPE", "FAIL", p) : p \in changed \ contract.by.allowed}
          \cup {Diagnostic("PROTECTED_PATH_CHANGED", "FAIL", p) : p \in changed \cap contract.by.protected}
Incomplete(contract) ==
    {Diagnostic("INCOMPLETE_REVIEW_CONTRACT", "UNKNOWN", n.kind) :
        n \in {m \in {AllowedNode(contract), ProtectedNode(contract), VerificationNode(contract)} :
                 m.state = "UNKNOWN"}}

Urgent(n) == IF n.kind = "file" /\ n.changed THEN [n EXCEPT !.mandatory = TRUE, !.priority = 100] ELSE n

\* build_review_graph
Compose(code, b, contract) ==
    LET Of(g, control) ==
            [nodes |-> {Urgent(n) : n \in code.nodes} \cup {EvidenceNode(n, contract) : n \in g.nodes}
                         \cup control.nodes,
             edges |-> code.edges \cup {Link(e.from, e.type, e.to, <<"bundle", e.refs>>) : e \in g.edges}
                         \cup control.edges \cup Justified(g, contract) \cup Bound(b, code)
                         \cup {Link(IssueNode(contract).key, "TARGETS", n.key, <<"allowed">>) :
                                  n \in Targets(code, contract)},
             diagnostics |-> code.diagnostics \cup ScopeFailures(code, contract) \cup Incomplete(contract)]
    IN  Of(BuildGraph(b, None), ControlPart(contract))

---------------------------------------------------------------------------
(* Slices.                                                                  *)

Mandatory(g) == {n.key : n \in {m \in g.nodes : m.mandatory}}
CodeRelations == {"CONTAINS", "CALLS", "MAY_CALL", "TESTS", "IMPORTS", "INHERITS"}
Neighbours(g, seeds, relations) ==
    LET edges == {e \in g.edges : relations = {} \/ e.relation \in relations}
    IN  {e.to : e \in {x \in edges : x.from \in seeds}} \cup {e.from : e \in {x \in edges : x.to \in seeds}}

RECURSIVE Trimmed(_, _, _)
\* The least important optional nodes go, one by one; identifiers are hashes, so that
\* which of equals goes first is arbitrary.
Trimmed(nodes, most, required) ==
    LET optional == {n \in nodes : n.key \notin required}
    IN  IF optional = {} \/ Cardinality(nodes) <= most THEN nodes
        ELSE Trimmed(nodes \ {CHOOSE n \in optional : \A m \in optional : n.priority <= m.priority},
                     most, required)

SliceStatus(g, nodes) ==
    LET found == {d.status : d \in g.diagnostics}
        states == {n.state : n \in nodes}
        worst(set) == IF "FAIL" \in set THEN "FAIL" ELSE IF "UNKNOWN" \in set THEN "UNKNOWN" ELSE "PASS"
    IN  IF worst(found) # "PASS" THEN worst(found) ELSE worst(states)

EdgesAmong(g, keys) == {e \in g.edges : e.from \in keys /\ e.to \in keys}
RECURSIVE SomeOf(_, _)
\* Optional relations by their priority, which nothing here depends on.
SomeOf(edges, most) ==
    IF Cardinality(edges) <= most THEN edges ELSE SomeOf(edges \ {CHOOSE e \in edges : TRUE}, most)
Expandable(g, keys) ==
    {e.from : e \in {x \in g.edges : x.from \in keys /\ x.to \notin keys}}
      \cup {e.to : e \in {x \in g.edges : x.to \in keys /\ x.from \notin keys}}
SliceBytes(nodes, edges, expandable) == NodeBytes * Cardinality(nodes) + Cardinality(edges) + Cardinality(expandable)

\* The error of a slice whose safety kernel is larger than its limits.
TooSmall == [mode |-> "context_limit"]

RECURSIVE Slice(_, _, _, _)
\* _slice: `nodes` within the number of nodes; they are cut further until the slice
\* fits its bytes, down to the mandatory ones among them.
Slice(g, nodes, mode, limits) ==
    LET Fitted(keys, required) ==
            LET among == EdgesAmong(g, keys)
                kernel == {e \in among : e.from \in required /\ e.to \in required}
                Of(edges, expandable) ==
                    IF Cardinality(kernel) > limits.edges THEN TooSmall
                    ELSE IF SliceBytes(nodes, edges, expandable) <= limits.bytes
                    THEN [mode |-> mode, status |-> SliceStatus(g, nodes), nodes |-> nodes,
                          edges |-> edges, expandable |-> expandable,
                          omitted |-> <<Cardinality(g.nodes) - Cardinality(nodes),
                                        Cardinality(g.edges) - Cardinality(edges)>>]
                    ELSE IF keys = required THEN TooSmall
                    ELSE Slice(g, Trimmed(nodes, Cardinality(nodes) - 1, required), mode, limits)
            IN  Of(kernel \cup SomeOf(among \ kernel,
                                      IF Cardinality(kernel) > limits.edges THEN 0
                                      ELSE limits.edges - Cardinality(kernel)),
                   Expandable(g, keys))
    IN  Fitted({n.key : n \in nodes}, {n.key : n \in {m \in nodes : m.mandatory}})

\* _fit_nodes and _slice
Cut(g, keys, required, mode, limits) ==
    IF Cardinality(required) > limits.nodes THEN TooSmall
    ELSE Slice(g, Trimmed({n \in g.nodes : n.key \in keys}, limits.nodes, required), mode, limits)

\* build_root_slice and expand_slice, of a graph of the current workspace.
RootSlice(g, limits) ==
    LET changed == {n.key : n \in {m \in g.nodes : m.changed}}
    IN  Cut(g, Mandatory(g) \cup changed \cup Neighbours(g, changed, CodeRelations), Mandatory(g),
            "root", limits)
Expansion(g, key, relations, limits) ==
    Cut(g, {key} \cup Neighbours(g, {key}, relations), {key}, "expand", limits)

\* build_stale_slice
StaleSlice(g) ==
    [mode |-> "stale", status |-> "UNKNOWN", nodes |-> {ControlNode("stop_condition", "UNKNOWN", None)},
     edges |-> {}, expandable |-> {}, omitted |-> <<Cardinality(g.nodes), Cardinality(g.edges)>>]

\* The slices are validated once more: a root slice has its whole kernel.
SliceValid(s) ==
    /\ \A e \in s.edges : {e.from, e.to} \subseteq {n.key : n \in s.nodes}
    /\ s.expandable \subseteq {n.key : n \in s.nodes}
    /\ s.mode = "root" => RootKinds \subseteq {n.kind : n \in s.nodes}
    /\ s.mode = "stale" => s.status = "UNKNOWN" /\ "stop_condition" \in {n.kind : n \in s.nodes}
=============================================================================
