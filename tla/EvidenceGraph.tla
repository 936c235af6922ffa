--------------------------- MODULE EvidenceGraph ---------------------------
(***************************************************************************)
(* The Evidence Graph of a bundle (atlas/builder.py): every record becomes *)
(* a node, what records say of each other becomes edges, and every node    *)
(* and edge names the records it was derived from.                         *)
(*                                                                         *)
(* A node's key is <<type, identifier>>; a reference is <<collection,      *)
(* record>>, the key of the dependency index (the field it names is left   *)
(* out).  A bundle has two more fields here: scope, the paths of the       *)
(* investigation, and limited, whether the manifest states a limitation.   *)
(***************************************************************************)
EXTENDS EvidenceBundle

Manifest == <<"manifest", "manifest">>
Index == <<"index", "index">>
Policy == <<"policy", "policy">>

Node(type, id, status, fresh, ref) ==
    [key |-> <<type, id>>, status |-> status, fresh |-> fresh, refs |-> {ref}, words |-> 0,
     risk |-> FALSE]
Edge(from, type, to, ref) == [from |-> from, type |-> type, to |-> to, refs |-> {ref}]

Part(nodes, edges) == [nodes |-> nodes, edges |-> edges]
Joined(parts) == Part(UNION {p.nodes : p \in parts}, UNION {p.edges : p \in parts})

\* GraphBuilder.node: a node derived twice with the same content keeps all its
\* references.
Merged(nodes) ==
    {[n EXCEPT !.refs = UNION {m.refs : m \in {o \in nodes : o.key = n.key}}] : n \in nodes}

Keys(g) == {n.key : n \in g.nodes}
NodeAt(g, key) == CHOOSE n \in g.nodes : n.key = key

---------------------------------------------------------------------------
(* One part of the graph for each collection.                               *)

FilePart(parent, paths, ref) ==
    Part({Node("file", path, "recorded", "n/a", ref) : path \in paths},
         {Edge(parent, "APPLIES_TO", <<"file", path>>, ref) : path \in paths})

LimitationPart(parent, ref, limited) ==
    IF ~limited THEN Part({}, {})
    ELSE Part({Node("limitation", ref[2], "recorded", "n/a", ref)},
              {Edge(parent, "LIMITED_BY", <<"limitation", ref[2]>>, ref)})

\* One further node that `parent` points at.
Attached(parent, type, node) == Part({node}, {Edge(parent, type, node.key, ref) : ref \in node.refs})
AttachedIf(condition, parent, type, node) ==
    IF condition THEN Attached(parent, type, node) ELSE Part({}, {})

Intent == <<"intent", "task">>
Run == <<"run", "investigation">>

ManifestPart(b) ==
    Joined({Part({Node("intent", "task", "recorded", "n/a", Manifest),
                  Node("run", "investigation", "recorded", "n/a", Manifest)},
                 {Edge(Run, "ANSWERS", Intent, Manifest)}),
            LimitationPart(Run, Manifest, b.limited),
            FilePart(Run, b.scope, Manifest)})

ClaimPart(b, c) ==
    LET claim == b.claims[c]
        ref == <<"claims", c>>
        key == <<"claim", c>>
    IN  Joined({Part({Node("claim", c, claim.status, "unknown", ref)},
                     {Edge(key, "ANSWERS", Intent, Index)}),
                LimitationPart(key, ref, "limitation" \in claim.notes),
                AttachedIf("action" \in claim.notes, key, "RECOMMENDS",
                           Node("recommendation", c, "recorded", "n/a", ref)),
                AttachedIf(claim.status = "unknown", key, "LEAVES_UNKNOWN",
                           Node("unknown", ref, "unknown", "n/a", ref))})

SourcePart(b, s) ==
    LET source == b.sources[s]
        ref == <<"sources", s>>
        key == <<"source", s>>
        artifact == <<"artifact", source.blob.ref>>
    IN  Joined({Part({Node("source", s, "verified", "current", ref)}, {}),
                IF source.type # "user_instruction" THEN Part({}, {})
                ELSE Part({Node("authorization", s, "verified", "n/a", ref)},
                          {Edge(<<"authorization", s>>, "DERIVED_FROM", key, ref)}),
                FilePart(key, {source.path} \ {None}, ref),
                IF source.blob = None THEN Part({}, {})
                ELSE Attached(key, "DERIVED_FROM",
                              Node("artifact", source.blob.ref, "verified", "n/a", ref))})

ObservationPart(b, o) ==
    LET observation == b.observations[o]
        ref == <<"observations", o>>
        key == <<"observation", o>>
    IN  Joined({Part({[Node("observation", o, "recorded", "unknown", ref)
                          EXCEPT !.words = observation.words]},
                     {Edge(key, "DERIVED_FROM", <<"source", s>>, ref) :
                          s \in observation.sources \cap DOMAIN b.sources}),
                LimitationPart(key, ref, "limitation" \in observation.notes)})

Standing(fresh, good) ==
    IF fresh = "current" THEN good ELSE IF fresh = "unknown" THEN "unknown" ELSE "stale"

\* Defective variant: a Proof validates whatever it once supported.
ProofPartOfAny(b, e) ==
    LET evidence == b.evidence[e]
        ref == <<"evidence", e>>
        proof == <<"proof", e>>
    IN  IF evidence.kind \notin Proofs THEN Part({}, {})
        ELSE Joined({
               Attached(<<"verified_evidence", e>>, "PRODUCED_BY",
                        Node("proof", e, IF evidence.fresh = "current" THEN "verified" ELSE "stale",
                             evidence.fresh, ref)),
               AttachedIf(evidence.command, proof, "EXECUTED_BY",
                          Node("command", e, "verified", "n/a", ref)),
               Part({}, {Edge(proof, "VALIDATES", <<"claim", c>>, ref) :
                            c \in evidence.supports \cap DOMAIN b.claims})})
ProofPart(b, e) ==
    LET evidence == b.evidence[e]
        ref == <<"evidence", e>>
        proof == <<"proof", e>>
    IN  IF evidence.kind \notin Proofs THEN Part({}, {})
        ELSE Joined({
               Attached(<<"verified_evidence", e>>, "PRODUCED_BY",
                        Node("proof", e, IF evidence.fresh = "current" THEN "verified" ELSE "stale",
                             evidence.fresh, ref)),
               AttachedIf(evidence.command, proof, "EXECUTED_BY",
                          Node("command", e, "verified", "n/a", ref)),
               Part({}, {Edge(proof, "VALIDATES", <<"claim", c>>, ref) :
                            c \in IF evidence.fresh = "current"
                                  THEN evidence.supports \cap DOMAIN b.claims ELSE {}})})

FreshnessPart(b, e) ==
    LET evidence == b.evidence[e]
        ref == <<"evidence", e>>
        key == <<"verified_evidence", e>>
        result == <<"freshness_result", e>>
        current == evidence.fresh = "current"
    IN  Joined({Part({Node("freshness_result", e, Standing(evidence.fresh, "current"),
                           evidence.fresh, ref)},
                     {Edge(result, IF current THEN "FRESH_FOR" ELSE "STALE_FOR", key, ref)}
                       \cup (IF current THEN {} ELSE {Edge(key, "INVALIDATED_BY", result, ref)})),
                AttachedIf("action" \in evidence.notes, result, "RECOMMENDS",
                           Node("recommendation", ref, "recorded", "n/a", ref)),
                AttachedIf(evidence.fresh = "unknown", result, "LEAVES_UNKNOWN",
                           Node("unknown", ref, "unknown", "n/a", ref))})

EvidencePart(b, e) ==
    LET evidence == b.evidence[e]
        ref == <<"evidence", e>>
        key == <<"verified_evidence", e>>
        status == Standing(evidence.fresh, "verified")
    IN  Joined({Part({Node("verified_evidence", e, status, evidence.fresh, ref)},
                     {Edge(key, "DERIVED_FROM", <<"source", s>>, ref) :
                          s \in evidence.sources \cap DOMAIN b.sources}),
                IF evidence.kind # "authority_fact" THEN Part({}, {})
                ELSE Part({Node("authorization", e, status, evidence.fresh, ref)},
                          {Edge(<<"authorization", e>>, "DERIVED_FROM", key, ref)}),
                FilePart(key, evidence.paths, ref),
                ProofPart(b, e), FreshnessPart(b, e),
                LimitationPart(key, ref, "limitation" \in evidence.notes)})

\* _link_claims, for one Claim.
ClaimLinks(b, c) ==
    LET claim == b.claims[c]
        ref == <<"claims", c>>
        Relation(e) == IF claim.status # "partially_supported" /\ b.evidence[e].fresh = "current"
                       THEN "SUPPORTED_BY" ELSE "PARTIALLY_SUPPORTED_BY"
        Link(type, to) == Edge(<<"claim", c>>, type, to, ref)
    IN  Part({}, {Link(Relation(e), <<"verified_evidence", e>>) : e \in claim.evidence}
                   \cup {Link("CONTRADICTED_BY", <<"verified_evidence", e>>) : e \in claim.counter}
                   \cup {Link("OBSERVED_IN", <<"observation", o>>) : o \in claim.observations})

ConflictPart(b, k) ==
    LET conflict == b.conflicts[k]
        ref == <<"conflicts", k>>
        key == <<"conflict", k>>
    IN  Joined({Part({Node("conflict", k, IF conflict.open THEN "conflicted" ELSE "resolved", "n/a", ref)},
                     {Edge(key, "CONTRADICTED_BY", <<"verified_evidence", e>>, ref) :
                          e \in conflict.evidence \cap DOMAIN b.evidence}),
                AttachedIf(conflict.open, key, "LEAVES_UNKNOWN",
                           Node("unknown", ref, "unknown", "n/a", ref))})

\* A candidate of several entries is one node only as far as their words agree.
CandidateNode(b, candidate) ==
    LET entries == {n \in DOMAIN b.ledger : candidate \in b.ledger[n].candidates}
        first == CHOOSE n \in entries : \A m \in entries : n <= m
        agreeing == {n \in entries : b.ledger[n].words = b.ledger[first].words}
    IN  [Node("evidence_candidate", candidate, "unknown", "n/a", <<"ledger", first>>)
            EXCEPT !.refs = {<<"ledger", n>> : n \in agreeing}]

LedgerPart(b, n) ==
    LET entry == b.ledger[n]
        ref == <<"ledger", n>>
        call == <<"tool_call", n>>
    IN  Part({Node("tool_call", n, "recorded", "n/a", ref)}
               \cup {CandidateNode(b, k) : k \in entry.candidates},
             {Edge(<<"tool_call", n - 1>>, "PRECEDES", call, ref) : m \in {n} \ {1}}
               \cup {Edge(call, "RETURNED", <<"observation", o>>, ref) :
                        o \in entry.observations \cap DOMAIN b.observations}
               \cup {Edge(<<"verified_evidence", e>>, "PRODUCED_BY", call, ref) :
                        e \in {entry.output} \cap DOMAIN b.evidence}
               \cup {Edge(call, "RETURNED", <<"evidence_candidate", k>>, ref) :
                        k \in entry.candidates})

Budgets == {"calls", "candidates", "evidence", "records", "blobs"}

\* `keys`: the nodes built so far.
PolicyPart(keys) ==
    LET constrained(types, by) ==
            {Edge(key, "CONSTRAINED_BY", by, Policy) : key \in {k \in keys : k[1] \in types}}
    IN  Part({Node("budget", budget, "recorded", "n/a", Policy) : budget \in Budgets}
               \cup {Node("constraint", "command", "recorded", "n/a", Policy),
                     Node("constraint", "workspace", "recorded", "n/a", Policy),
                     Node("policy_rule", "privacy", "recorded", "n/a", Policy)},
             UNION {constrained({"tool_call"}, <<"budget", budget>>) : budget \in Budgets}
               \cup constrained({"tool_call", "command"}, <<"constraint", "command">>)
               \cup constrained({"file"}, <<"constraint", "workspace">>))

---------------------------------------------------------------------------
(* A risk diagnosis adds findings: [factors, pathways, interventions], each *)
(* with the record identifiers it rests on.                                 *)

\* _risk_bundle_refs: what of it is in the bundle.
RiskRefs(b, ids) ==
    {<<"sources", s>> : s \in DOMAIN b.sources \cap ids}
        \cup {<<"observations", o>> : o \in {x \in DOMAIN b.observations :
                                                ({x} \cup b.observations[x].sources) \cap ids # {}}}
        \cup {<<"evidence", e>> : e \in {x \in DOMAIN b.evidence :
                                            ({x} \cup b.evidence[x].sources) \cap ids # {}}}
        \cup {<<"claims", c>> : c \in DOMAIN b.claims \cap ids}

RiskNode(type, id, status, refs) ==
    [key |-> <<type, id>>, status |-> status, fresh |-> "n/a", refs |-> refs, words |-> 0,
     risk |-> TRUE]
RiskEdge(from, type, to, refs) == [from |-> from, type |-> type, to |-> to, refs |-> refs]

FactorsFound(b, diagnosis) ==
    {f \in DOMAIN diagnosis.factors : RiskRefs(b, diagnosis.factors[f].refs) # {}}
FactorKey(f) == <<"finding", <<"risk", f>>>>
Verdict(failed) == IF failed THEN "supported" ELSE "unknown"

FactorPart(b, diagnosis) ==
    Part({RiskNode("finding", <<"risk", f>>, Verdict(diagnosis.factors[f].failed),
                   RiskRefs(b, diagnosis.factors[f].refs)) : f \in FactorsFound(b, diagnosis)}, {})

PathwayPart(b, diagnosis, path) ==
    LET refs == RiskRefs(b, path.refs)
        key == <<"finding", <<"pathway", path.factors>>>>
    IN  IF refs = {} \/ path.factors = {} \/ ~(path.factors \subseteq FactorsFound(b, diagnosis))
        THEN Part({}, {})
        ELSE Part({RiskNode("finding", key[2], Verdict(path.failed), refs)},
                  {RiskEdge(key, "DERIVED_FROM", FactorKey(f), refs) : f \in path.factors})

InterventionPart(b, diagnosis, advice) ==
    LET refs == RiskRefs(b, advice.refs)
        targets == advice.factors \cap FactorsFound(b, diagnosis)
        key == <<"recommendation", <<"risk", advice.factors>>>>
    IN  IF ~advice.proposed \/ refs = {} \/ targets = {} THEN Part({}, {})
        ELSE Part({RiskNode("recommendation", key[2], "recorded", refs)},
                  {RiskEdge(FactorKey(f), "RECOMMENDS", key, refs) : f \in targets})

RiskPart(b, diagnosis) ==
    IF diagnosis = None THEN Part({}, {})
    ELSE Joined({FactorPart(b, diagnosis)}
                  \cup {PathwayPart(b, diagnosis, p) : p \in diagnosis.pathways}
                  \cup {InterventionPart(b, diagnosis, i) : i \in diagnosis.interventions})

---------------------------------------------------------------------------
(* The graph, and its dependency index.                                     *)

\* build_evidence_graph, over a valid bundle: every end of an edge is there.
BuildGraph(b, diagnosis) ==
    LET records == Joined({ManifestPart(b)}
                     \cup {ClaimPart(b, c) : c \in DOMAIN b.claims}
                     \cup {ClaimLinks(b, c) : c \in DOMAIN b.claims}
                     \cup {SourcePart(b, s) : s \in DOMAIN b.sources}
                     \cup {ObservationPart(b, o) : o \in DOMAIN b.observations}
                     \cup {EvidencePart(b, e) : e \in DOMAIN b.evidence}
                     \cup {ConflictPart(b, k) : k \in DOMAIN b.conflicts}
                     \cup {LedgerPart(b, n) : n \in DOMAIN b.ledger})
        WithPolicy(part) == Joined({part, PolicyPart(Keys(part)), RiskPart(b, diagnosis)})
        Built(part) == Part(Merged(part.nodes), part.edges)
    IN  Built(WithPolicy(records))

\* record_hashes: a record is its own hash.
RecordHashes(b) ==
    LET of(name, f) == {<<<<name, x>>, f[x]>> : x \in DOMAIN f}
    IN  of("claims", b.claims) \cup of("evidence", b.evidence)
          \cup of("observations", b.observations) \cup of("sources", b.sources)
          \cup of("conflicts", b.conflicts) \cup of("ledger", b.ledger)
          \cup {<<Manifest, <<b, b.scope>>>>, <<Index, b.index>>, <<Policy, b.policy>>}

\* record_to_nodes, record_to_edges
NodesOf(g, record) == {n.key : n \in {m \in g.nodes : record \in m.refs}}
EdgesOf(g, record) == {e \in g.edges : record \in e.refs}

---------------------------------------------------------------------------
(* What validate_evidence_graph asks of a graph and the bundle it says it    *)
(* was built from (atlas/validator.py).  It is written from the validator    *)
(* and shares nothing with the builder but the form of a graph.              *)

\* _record_index
RecordsOf(b) ==
    {Manifest, Index, Policy}
      \cup {<<"claims", c>> : c \in DOMAIN b.claims}
      \cup {<<"evidence", e>> : e \in DOMAIN b.evidence}
      \cup {<<"observations", o>> : o \in DOMAIN b.observations}
      \cup {<<"sources", s>> : s \in DOMAIN b.sources}
      \cup {<<"conflicts", k>> : k \in DOMAIN b.conflicts}
      \cup {<<"ledger", n>> : n \in DOMAIN b.ledger}

\* _validate_source_refs
SourceBacked(refs, b) == refs # {} /\ refs \subseteq RecordsOf(b)

\* _validate_nodes, with the boundaries of what a single node may say.
NodesValid(g, b) ==
    /\ \A n, m \in g.nodes : n.key = m.key => n = m
    /\ \A n \in g.nodes :
         /\ SourceBacked(n.refs, b)
         /\ n.key[1] = "observation" => n.status = "recorded" /\ n.fresh = "unknown"
         /\ n.key[1] \in {"verified_evidence", "proof"} =>
              /\ n.fresh = "changed" => n.status = "stale"
              /\ n.fresh = "unknown" => n.status # "verified"

EdgesValid(g, b) ==
    \A e \in g.edges : {e.from, e.to} \subseteq Keys(g) /\ SourceBacked(e.refs, b)

\* _validate_authority_boundaries: which ends an edge may have, and how fresh.
AuthorityKept(g) ==
    LET fresh == [key \in Keys(g) |-> NodeAt(g, key).fresh]
    IN  \A e \in g.edges :
          /\ e.type \in {"SUPPORTED_BY", "PARTIALLY_SUPPORTED_BY"} =>
               e.from[1] = "claim" /\ e.to[1] = "verified_evidence"
          /\ e.type = "SUPPORTED_BY" => fresh[e.to] = "current"
          /\ e.type = "CONTRADICTED_BY" =>
               e.from[1] \in {"claim", "conflict"} /\ e.to[1] = "verified_evidence"
          /\ e.type = "VALIDATES" =>
               /\ e.from[1] = "proof" /\ e.to[1] = "claim"
               /\ fresh[e.from] = "current" /\ NodeAt(g, e.from).status = "verified"
          /\ e.type = "FRESH_FOR" =>
               e.from[1] = "freshness_result" /\ fresh[e.from] = "current" /\ fresh[e.to] = "current"
          /\ e.type = "STALE_FOR" => e.from[1] = "freshness_result"

\* _validate_reference_edge_target: the one record the edge cites in the collection
\* its type goes by names the record the target stands for.
Cited(e, collection) == {ref \in e.refs : ref[1] = collection}
NamesItsTarget(g, b, e) ==
    LET claims == Cited(e, "claims")
        target == {ref[2] : ref \in {r \in NodeAt(g, e.to).refs :
                                        r[1] \in {"evidence", "claims", "observations", "conflicts"}}}
        by(cited, values(_)) ==
            Cardinality(cited) = 1 /\ Cardinality(target) = 1
              /\ \A ref \in cited : target \subseteq values(ref[2])
    IN  CASE e.type \in {"SUPPORTED_BY", "PARTIALLY_SUPPORTED_BY"} ->
               by(claims, LAMBDA c : b.claims[c].evidence)
          [] e.type = "OBSERVED_IN" -> by(claims, LAMBDA c : b.claims[c].observations)
          [] e.type = "VALIDATES" ->
               by(Cited(e, "evidence"), LAMBDA x : b.evidence[x].supports)
          [] e.type = "CONTRADICTED_BY" /\ e.from[1] = "claim" ->
               by(claims, LAMBDA c : b.claims[c].counter)
          [] e.type = "CONTRADICTED_BY" /\ e.from[1] # "claim" ->
               by(Cited(e, "conflicts"), LAMBDA k : b.conflicts[k].evidence)
          [] OTHER -> TRUE

\* _validate_required_bundle_edges
RequiredEdges(b) ==
    UNION {LET claim == b.claims[c]
               from == <<"claim", c>>
               support(e) == IF claim.status # "partially_supported" /\ b.evidence[e].fresh = "current"
                             THEN "SUPPORTED_BY" ELSE "PARTIALLY_SUPPORTED_BY"
           IN  {<<from, support(e), <<"verified_evidence", e>>>> : e \in claim.evidence}
                 \cup {<<from, "CONTRADICTED_BY", <<"verified_evidence", e>>>> : e \in claim.counter}
                 \cup {<<from, "OBSERVED_IN", <<"observation", o>>>> : o \in claim.observations} :
           c \in DOMAIN b.claims}

\* The end of _validate_authority_boundaries: all that was said against a Claim, and
\* current support where it is supported.
ClaimsKept(g, b) ==
    \A c \in DOMAIN b.claims :
        /\ <<"claim", c>> \in Keys(g)
        /\ {e.to : e \in {x \in g.edges : x.from = <<"claim", c>> /\ x.type = "CONTRADICTED_BY"}}
             = {<<"verified_evidence", e>> : e \in b.claims[c].counter}
        /\ b.claims[c].status = "supported" =>
             \E e \in b.claims[c].evidence : b.evidence[e].fresh = "current"

GraphValid(g, b) ==
    /\ NodesValid(g, b) /\ EdgesValid(g, b) /\ AuthorityKept(g)
    /\ \A e \in g.edges : NamesItsTarget(g, b, e)
    /\ RequiredEdges(b) \subseteq {<<e.from, e.type, e.to>> : e \in g.edges}
    /\ ClaimsKept(g, b)
============================================================================
