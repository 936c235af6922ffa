----------------------------- MODULE MC_Bundle -----------------------------
(***************************************************************************)
(* A bundle and what is made of one: two compilers and their reviewers, and *)
(* the improvements that are derived from its Claims.  A behaviour runs one *)
(* of them ("part"); the other stays as it was at the start.                *)
(***************************************************************************)
EXTENDS BundleCompiler, Improvement, TLC
CONSTANTS p1, p2, raw, clean, c1, c2, e1, e2, o1, s1, s2, k1, k2, f1, f2,
          core, lib, test, grader, unit, lint

(* Compilers.  Two Claims, two Evidence records, one Observation, two        *)
(* Sources.  The first family of payloads varies what the records say of     *)
(* each other, the second what the ledger records under which policy.        *)

\* Redacted, the Blob is longer and the path f1 another; k2 looks like a secret.
MCClean == (raw :> clean) @@ (clean :> clean)
MCCleanPath == (f1 :> f2) @@ (f2 :> f2)
MCSize == (raw :> 1) @@ (clean :> 2)

Claim(status, basis, ev, counter) ==
    [status |-> status, basis |-> basis, evidence |-> ev, counter |-> counter,
     observations |-> {o1}, notes |-> {}]
Ev(strength, fresh, supports, contradicts, blob) ==
    [kind |-> "test_result", strength |-> strength, fresh |-> fresh, sources |-> {s1},
     supports |-> supports, contradicts |-> contradicts, paths |-> {}, command |-> TRUE,
     notes |-> {}, blob |-> blob]
Bound(blob) == [ref |-> blob, hash |-> blob, bytes |-> blob]
Sources ==
    (s1 :> [type |-> "proof_receipt", path |-> None, blob |-> None])
        @@ (s2 :> [type |-> "run_record", path |-> f1, blob |-> None])
Policy ==
    [allowed |-> {"run.read", "other"}, denied |-> {}, calls |-> 1, candidates |-> 1,
     evidence |-> 2, records |-> 1, blobs |-> 1, execution |-> FALSE, prefix |-> FALSE,
     allowedPaths |-> {}, deniedPaths |-> {}, redact |-> FALSE, reasoning |-> FALSE,
     raw |-> TRUE, competing |-> FALSE, search |-> FALSE]
Entry(action, tool, input, out, hypothesis, cands) ==
    [action |-> action, tool |-> tool, input |-> input, output |-> out,
     hypothesis |-> hypothesis, observations |-> {o1}, candidates |-> cands, words |-> 1]

Records(claims, evidence, ledger, open, policy) ==
    [claims |-> claims, evidence |-> evidence,
     observations |-> o1 :> [type |-> "agent_statement", sources |-> {s2}, notes |-> {},
                            words |-> 1],
     sources |-> Sources,
     conflicts |-> k1 :> [evidence |-> {e1, e2}, open |-> open],
     diagnostics |-> {[observations |-> {}, evidence |-> {e2}]},
     ledger |-> ledger, blobs |-> {raw, clean}, policy |-> policy,
     index |-> [claims |-> {}, evidence |-> {}, observations |-> {}]]

\* told: the status, whether the conflict is open, and the evidence the Claim names; bound: the Blob, whether to redact
\* it, the budget, and how fresh the evidence is.
References ==
    {Records((c1 :> Claim(told[1], "other", told[3], told[4])) @@ (c2 :> Claim("unsupported", "other", {}, {})),
             (e1 :> Ev(strength, bound[4], supports, {}, bound[1]))
               @@ (e2 :> Ev("reproduced", "current", {}, contradicts, None)),
             <<>>, told[2], [Policy EXCEPT !.redact = bound[2], !.blobs = bound[3]]) :
        told \in {"supported", "conflicted", "unknown"} \X {TRUE} \X {{}, {e1}} \X {{}, {e2}}
                  \cup {<<"conflicted", FALSE, {e1}, {e2}>>},
        strength \in {"observed", "corroborated"},
        supports \in {{c1}, {c1, c2}}, contradicts \in {{}, {c1}},
        bound \in {<<None, FALSE, 1, "changed">>, <<None, FALSE, 1, "current">>,
                   <<Bound(raw), FALSE, 1, "current">>, <<Bound(raw), TRUE, 1, "current">>,
                   <<Bound(raw), TRUE, 2, "current">>}}

Ledgers ==
    LET read == Entry("read_run_record", "run.read", s2, None, "primary", {})
        file == Entry("read_file", "other", s2, o1, "competing", {})
        exec == Entry("execute_authorized_command", "other", None, e1, None, {})
        offer(c) == Entry("propose_candidate", None, None, None, "competing", c)
    IN  {<<>>, <<read>>, <<read, offer({k1})>>, <<file>>, <<file, file>>, <<exec>>, <<offer({k1, k2})>>,
         <<[read EXCEPT !.tool = "other"]>>}
Policies ==
    {[Policy EXCEPT !.execution = x, !.prefix = x, !.search = s, !.competing = s,
                    !.deniedPaths = d, !.raw = x, !.allowed = a] :
        x \in BOOLEAN, s \in BOOLEAN, d \in {{}, {f1}}, a \in {{"other"}, {"run.read", "other"}}}
      \cup {[Policy EXCEPT !.redact = TRUE, !.deniedPaths = d, !.allowedPaths = a, !.candidates = 2] :
               d \in {{}, {f2}}, a \in {{}, {f1}}}
Recorded ==
    {Records((c1 :> Claim("supported", "reproduced", {e1}, {})) @@ (c2 :> Claim("unsupported", "other", {}, {e2})),
             (e1 :> Ev("reproduced", "current", {c1}, {}, None)) @@ (e2 :> Ev("observed", "unknown", {}, {c2}, None)),
             ledger, TRUE, policy) : ledger \in Ledgers, policy \in Policies}

NothingToShow ==
    Records(c2 :> Claim("unsupported", "other", {}, {}), <<>>, <<>>, FALSE, Policy)
MCPayloads == References \cup Recorded \cup {NothingToShow}
\* The freshness of one record may be edited, and edited back.
MCAlter(b) ==
    {[b EXCEPT !.evidence[e1].fresh = f] : f \in IF e1 \in DOMAIN b.evidence THEN {"current", "changed"} ELSE {}}
Symmetry == Permutations(Compilers)
MCConclusions ==
    {[disposition |-> d, claims |-> c, evidence |-> ev, counter |-> k] :
        d \in {"accept", "request_change"}, c \in {{c1}, {c1, c2}},
        ev \in {{}, {e1}}, k \in {{}, {e2}}}

(* Improvements.  One bundle of every kind of Claim, one of six problems,    *)
(* one whose first issue is another, one whose only issue has no evidence.   *)

Says(status, evidence, counter) == [status |-> status, evidence |-> evidence, counter |-> counter]
Shows(changed, paths, argv) == [changed |-> changed, paths |-> paths, command |-> argv]
Shown == (1 :> Shows(FALSE, {core}, unit)) @@ (2 :> Shows(TRUE, {lib, grader}, lint))
             @@ (3 :> Shows(FALSE, {core, lib}, None))
BundlesToImprove ==
    {[claims |-> (1 :> Says("unsupported", {}, {1})) @@ (2 :> Says("supported", {2}, {}))
                   @@ (3 :> Says("conflicted", {1}, {3})) @@ (4 :> Says("supported", {1}, {}))
                   @@ (5 :> Says("unsupported", {1}, {})), evidence |-> Shown],
     [claims |-> (1 :> Says("conflicted", {3}, {1})) @@ (2 :> Says("unsupported", {3}, {1}))
                   @@ (3 :> Says("unknown", {1}, {})) @@ (4 :> Says("unknown", {3}, {}))
                   @@ (5 :> Says("supported", {1}, {2})) @@ (6 :> Says("unsupported", {3}, {})),
      evidence |-> Shown],
     [claims |-> 3 :> Says("unsupported", {3}, {}), evidence |-> Shown],
     [claims |-> 1 :> Says("unknown", {}, {}), evidence |-> Shown]}

Proposal(id, constraint, targets, plan) ==
    [id |-> id, constraint |-> constraint, root |-> None, certain |-> FALSE, hiding |-> FALSE,
     targets |-> targets, deleted |-> {}, plan |-> plan, findings |-> {3}, evidence |-> {}]
Proposals ==
    LET plain == Proposal("A", 1, {lib}, {unit})
    IN  {plain, [plain EXCEPT !.plan = {lint}], Proposal("B", 1, {core}, {unit}),
         Proposal("B", 2, {core, lib}, {unit, lint}), [plain EXCEPT !.targets = {grader}],
         [plain EXCEPT !.deleted = {test}], [plain EXCEPT !.deleted = {grader}],
         [plain EXCEPT !.root = "unknown"], [plain EXCEPT !.targets = {}],
         [plain EXCEPT !.root = "plausible", !.certain = TRUE],
         [plain EXCEPT !.hiding = TRUE], [plain EXCEPT !.evidence = {1}]}
ProofFor(contract, candidate, succeeded, changed) ==
    [contract |-> contract, candidate |-> candidate, current |-> TRUE, pass |-> TRUE,
     succeeded |-> succeeded, changed |-> changed]
ProofsGiven ==
    {None, ProofFor(1, "A", {unit}, {lib}), ProofFor(1, "A", {unit, lint}, {core}),
     ProofFor(1, "B", {unit}, {core}), ProofFor(2, "B", {unit, lint}, {core, lib}),
     [ProofFor(1, "A", {unit}, {lib}) EXCEPT !.current = FALSE]}
Measured ==
    {None, (1 :> "PASS") @@ (2 :> "less"), (1 :> "UNKNOWN") @@ (2 :> "more"), 1 :> "FAIL"}

MCWorkspaces == {{core, lib, grader}, {core}}

ASSUME MCAssumption == ImprovementAssumption /\ ClaimsAssumption

VARIABLE part
allVars == <<part, vars, improveVars>>
----------------------------------------------------------------------------
NoCompilers ==
    Init /\ payload = NothingToShow

Begin ==
    \/ part = "bundle" /\ Init /\ ImproveInit
    \/ part = "improve" /\ ImproveInit /\ NoCompilers

Step ==
    /\ UNCHANGED part
    /\ \/ part = "bundle" /\ Next /\ UNCHANGED improveVars
       \/ part = "improve" /\ ImproveNext /\ UNCHANGED vars

Behaviour == Begin /\ [][Step]_allVars
----------------------------------------------------------------------------
(* Properties: NothingHidden and ReviewsRestOnRecords are BundleCompiler's, *)
(* VerifiedIsProved is Improvement's.                                       *)

\* What is derived from records keeps what they say: redaction every binding, issues
\* every finding and all its evidence (BundleCompiler: RedactionKeepsBinding;
\* Improvement: FindingsAreKept).
DerivedIsFaithful ==
    IF part = "bundle" THEN RedactionKeepsBinding ELSE FindingsAreKept
=============================================================================
