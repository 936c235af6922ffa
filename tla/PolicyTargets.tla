---------------------------- MODULE PolicyTargets ----------------------------
(***************************************************************************)
(* Bounded candidates for the four kinds of policy (policy_targets.py with  *)
(* evolution/candidate.py and targets.py): an audit profile, a review       *)
(* policy, a trace validator and a triage policy are changed by one to      *)
(* three JSON Patch operations at allowlisted paths, the change may not     *)
(* weaken the policy, a gate measures it on four suites, and it is staged   *)
(* and adopted by what the gate bound.  Adoption is one step here; its file *)
(* operations are AssetAdoption.                                            *)
(*                                                                          *)
(* A policy is a record of its fields, a field a function (an object), a    *)
(* set (an array) or a number; a hash is the contents it is of.  A pattern  *)
(* is named, and `covers` says which paths it covers.  Operators that the   *)
(* code gives the kind of policy or the suites take the setup, s.           *)
(***************************************************************************)
EXTENDS Naturals, Sequences, FiniteSets, Functions

CONSTANTS
    NotThere,
    Setups,          \* what is there: the kind of policy (type), its contents (the
                     \* first of policies is in the file, the others the user may
                     \* write), the proposals (operations), the cases of the
                     \* suites, the paths a pattern covers, and inputs to compare by
    MaxTurns,        \* proposals, and gates
    MaxPolicyEdits   \* edits of the policy or of the candidate by hand

VARIABLES
    setup,         \* fixed
    policy,        \* the policy file
    candidate,     \* the candidate directory, or NotThere
    job,           \* what a running gate has read, or NotThere
    gate,          \* the gate report, or NotThere
    stagedPolicies, \* the staged copies of candidate and gate, in one directory or several
    trail,         \* what was adopted: the policy before and after
    turns          \* proposals, gates and edits so far

policyVars == <<setup, policy, candidate, job, gate, stagedPolicies, trail, turns>>

PolicyTypes == {"audit-profile", "review-policy", "trace-validator", "triage-policy"}
PolicySuites == {"core", "validation", "held_out", "adversarial"}
Get(f, k, default) == IF k \in DOMAIN f THEN f[k] ELSE default

PolicyInit ==
    /\ setup \in Setups
    /\ policy = setup.policies[1]
    /\ candidate = NotThere /\ job = NotThere /\ gate = NotThere /\ stagedPolicies = {}
    /\ trail = {} /\ turns = [proposals |-> 0, gates |-> 0, edits |-> 0]

Covered(s, paths, patterns) == \E p \in patterns : paths \cap s.covers[p] # {}

---------------------------------------------------------------------------
(* What a policy may become: validate_policy_transition.                    *)

\* Fields that are objects; their keys are the names a policy holds.
Objects(s) ==
    CASE s.type = "audit-profile"   -> {"rules"}
      [] s.type = "review-policy"   -> {"path_classes", "proof_requirements"}
      [] s.type = "trace-validator" -> {"requirements"}
      [] s.type = "triage-policy"   -> {"weights"}
Executable == {"command", "shell", "module", "python", "network", "exec"}
NothingExecutable(s, p) == \A f \in Objects(s) : DOMAIN p[f] \cap Executable = {}

\* A rule is enabled unless it says otherwise, and of severity INFO.
Enabled(rule) == Get(rule, "enabled", TRUE)
Severity(rule) == Get(rule, "severity", 0)
ProfileKeeps(before, after) ==
    /\ \A r \in DOMAIN before.rules :
         /\ r \in DOMAIN after.rules
         /\ Enabled(before.rules[r]) => Enabled(after.rules[r])
         /\ Severity(after.rules[r]) >= Severity(before.rules[r])
    /\ after.exclusions \subseteq before.exclusions
    /\ \A x \in after.exclusions : x.pattern # "*" /\ x.explained

\* Defective variant: only the classes of paths are compared.
ReviewKeepsClasses(before, after) ==
    /\ after.changed_path_budget <= before.changed_path_budget
    /\ \A c \in DOMAIN before.path_classes :
         before.path_classes[c] \subseteq Get(after.path_classes, c, {})
ReviewKeeps(before, after) ==
    /\ after.changed_path_budget <= before.changed_path_budget
    /\ \A f \in {"path_classes", "proof_requirements"} : \A c \in DOMAIN before[f] :
         before[f][c] \subseteq Get(after[f], c, {})

UpperBounds == {"failures_max", "errors_max", "skipped_max"}
LowerBounds == {"tests_min", "percent_covered_min"}
TraceKeeps(before, after) ==
    /\ after.validator \in {"junit", "sarif", "coverage", "json"}
    /\ after.validator = before.validator
    /\ \A k \in DOMAIN before.requirements :
         LET b == before.requirements[k]
             a == Get(after.requirements, k, b)
         IN  (k \in UpperBounds => a <= b) /\ (k \in LowerBounds => a >= b)

\* A triage policy is judged by itself; weights are natural numbers here.
TriageRanks(after) == DOMAIN after \cap {"status", "hide", "suppress", "remove", "evidence"} = {}

MayBecome(s, before, after) ==
    /\ NothingExecutable(s, after)
    /\ CASE s.type = "audit-profile"   -> ProfileKeeps(before, after)
         [] s.type = "review-policy"   -> ReviewKeeps(before, after)
         [] s.type = "trace-validator" -> TraceKeeps(before, after)
         [] s.type = "triage-policy"   -> TriageRanks(after)

\* What is numbered in policies, operations and inputs.
Limits == UpperBounds \cup LowerBounds
FormedPolicy(type, p) ==
    CASE type = "audit-profile"   ->
           "rules" \in DOMAIN p /\ \A r \in DOMAIN p.rules : Severity(p.rules[r]) \in 0..2
      [] type = "review-policy"   -> "changed_path_budget" \in DOMAIN p /\ p.changed_path_budget \in Nat
      [] type = "trace-validator" ->
           "requirements" \in DOMAIN p /\ \A k \in DOMAIN p.requirements \cap Limits : p.requirements[k] \in Nat
      [] type = "triage-policy"   -> TRUE
FormedOp(type, op) ==
    /\ (type = "audit-profile" /\ op.path[1] = "rules") => Severity(op.value) \in 0..2
    /\ (type = "review-policy" /\ op.path = <<"changed_path_budget">>) => op.value \in Nat
    /\ (type = "trace-validator" /\ op.path[1] = "requirements" /\ Len(op.path) > 1) =>
         (op.path[2] \in Limits => op.value \in Nat)
FormedInput(type, in) ==
    CASE type = "audit-profile"   -> in.severity \in 0..2
      [] type = "review-policy"   -> IsFiniteSet(in.changed)
      [] type = "trace-validator" -> {in.tests, in.failures, in.errors, in.skipped, in.percent} \subseteq Nat
      [] type = "triage-policy"   -> TRUE
PolicyAssumption ==
    \A s \in Setups :
        /\ s.type \in PolicyTypes
        /\ 1 \in DOMAIN s.policies
        /\ \A p \in Range(s.policies) : p # NotThere /\ FormedPolicy(s.type, p)
        /\ \A i \in DOMAIN s.proposals :
             \A n \in 1..Len(s.proposals[i]) : FormedOp(s.type, s.proposals[i][n])
        /\ \A in \in s.inputs : FormedInput(s.type, in)

---------------------------------------------------------------------------
(* What a policy says.                                                      *)

\* review_policy_findings and the cases of review suites.
Required(s, p, changed) ==
    UNION {Get(p.proof_requirements, c, {}) :
             c \in {c \in DOMAIN p.path_classes : Covered(s, changed, p.path_classes[c])}}
MissingProofs(s, p, changed, proofs) == Required(s, p, changed) \ proofs
Compliant(s, p, changed, proofs) ==
    MissingProofs(s, p, changed, proofs) = {} /\ Cardinality(changed) <= p.changed_path_budget

\* apply_audit_profile: findings it leaves out, the severity of the others, and
\* the findings for which it refuses to be applied at all.
LeftOut(s, p, f) == Covered(s, {f.path}, {x.pattern : x \in p.exclusions})
Setting(p, f) == Get(p.rules, f.rule, <<>>)
Shown(s, p, f) ==
    IF Covered(s, {f.path}, p.path_policy.sensitive) THEN 2 ELSE Get(Setting(p, f), "severity", f.severity)
Applies(s, p, f) == LeftOut(s, p, f) \/ (Enabled(Setting(p, f)) /\ Shown(s, p, f) >= f.severity)

\* evaluate_trace_validator: a file that cannot be parsed as the kind says gives
\* UNKNOWN; a limit that is not set cannot be exceeded.
Broken(p, a) == a.form # (IF p.validator = "junit" THEN "xml" ELSE "json")
Exceeds(p, a) ==
    CASE p.validator = "junit" ->
           \/ a.failures > Get(p.requirements, "failures_max", a.failures)
           \/ a.errors > Get(p.requirements, "errors_max", a.errors)
           \/ a.skipped > Get(p.requirements, "skipped_max", a.skipped)
           \/ a.tests < Get(p.requirements, "tests_min", 0)
      [] p.validator = "sarif"    -> a.errors > Get(p.requirements, "errors_max", a.errors)
      [] p.validator = "coverage" -> a.percent < Get(p.requirements, "percent_covered_min", 0)
      [] p.validator = "json"     -> a.value # Get(p.requirements, "equals", NotThere)
TraceStatus(p, a) ==
    IF Broken(p, a) THEN "UNKNOWN" ELSE IF Exceeds(p, a) THEN "FAIL" ELSE "PASS"

\* The rank of a finding among others: severity and critical paths, weighted.
Score(s, p, f) ==
    (f.severity + 1) * Get(p.weights, "severity", 0)
    + (IF Covered(s, {f.path}, p.critical_paths) THEN Get(p.weights, "critical_path", 0) ELSE 0)

\* _evaluate_policy_case, as a record of which a case fixes some fields.
Actual(s, p, in) ==
    CASE s.type = "review-policy" ->
           [compliant |-> Compliant(s, p, in.changed, in.proofs), missing |-> MissingProofs(s, p, in.changed, in.proofs)]
      [] s.type = "audit-profile" ->
           [enabled |-> Enabled(Setting(p, in)), severity |-> Get(Setting(p, in), "severity", in.severity)]
      [] s.type = "trace-validator" -> [status |-> TraceStatus(p, in)]
      [] s.type = "triage-policy" -> [first |-> Score(s, p, in.one) >= Score(s, p, in.other)]
Met(s, p, case) == LET a == Actual(s, p, case.in) IN \A k \in DOMAIN case.expected : a[k] = case.expected[k]
Passed(s, p, suite) ==
    Cardinality({i \in DOMAIN s.suites[suite] : Met(s, p, s.suites[suite][i])})

---------------------------------------------------------------------------
(* Operations.  A path is a field, or a field and a key of it.              *)

\* Paths starting with these may be written; the others belong to the contract.
Writable(s, path) ==
    CASE s.type = "audit-profile" ->
           \/ Len(path) > 1 /\ path[1] \in {"rules", "path_policy"}
           \/ path[1] = "exclusions"
      [] s.type = "review-policy" ->
           \/ path = <<"changed_path_budget">>
           \/ Len(path) > 1 /\ path[1] \in {"path_classes", "proof_requirements"}
      [] s.type = "trace-validator" -> Len(path) > 1 /\ path[1] = "requirements"
      [] s.type = "triage-policy" ->
           (Len(path) > 1 /\ path[1] = "weights") \/ path[1] = "critical_paths"

\* "replace" needs the field it replaces; "add" may write over one.
Patchable(s, p, op) ==
    /\ Writable(s, op.path)
    /\ Len(op.path) > 1 => op.path[1] \in DOMAIN p
    /\ op.op = "replace" =>
         IF Len(op.path) > 1 THEN op.path[2] \in DOMAIN p[op.path[1]] ELSE op.path[1] \in DOMAIN p
With(f, k, v) == [x \in DOMAIN f \cup {k} |-> IF x = k THEN v ELSE f[x]]
Patch(p, op) ==
    IF Len(op.path) > 1
    THEN [p EXCEPT ![op.path[1]] = With(@, op.path[2], op.value)]
    ELSE With(p, op.path[1], op.value)

\* The policy after the operations, or NotThere when one cannot be applied.
Patched(s, p, ops) ==
    LET done[n \in 0..Len(ops)] ==
          IF n = 0 THEN p
          ELSE LET q == done[n - 1]
               IN  IF q = NotThere THEN NotThere
                   ELSE IF Patchable(s, q, ops[n]) THEN Patch(q, ops[n]) ELSE NotThere
    IN  done[Len(ops)]

---------------------------------------------------------------------------
(* propose_policy_candidate; editing by hand.                               *)

Ops(c) == setup.proposals[c.ops]

Propose(i) ==
    LET ops == setup.proposals[i]
        p == Patched(setup, policy, ops)
    IN  /\ Len(ops) \in 1..3
        /\ p # NotThere /\ MayBecome(setup, policy, p)
        /\ candidate' = [base |-> policy, ops |-> i, artifact |-> p]
        /\ turns.proposals < MaxTurns /\ turns' = [turns EXCEPT !.proposals = @ + 1]
        /\ UNCHANGED <<setup, policy, job, gate, stagedPolicies, trail>>

Edited == turns.edits < MaxPolicyEdits /\ turns' = [turns EXCEPT !.edits = @ + 1]
EditTarget ==
    /\ Edited
    /\ policy' \in Range(setup.policies) \ {policy}
    /\ UNCHANGED <<setup, candidate, job, gate, stagedPolicies, trail>>

\* Another policy is put in place of the artifact, or the candidate is said to
\* be for the policy that is there now, with the hashes brought up to date.
EditCandidate ==
    /\ candidate # NotThere /\ Edited
    /\ \/ \E p \in Range(setup.policies) \ {candidate.artifact} :
            candidate' = [candidate EXCEPT !.artifact = p]
       \/ candidate' = [candidate EXCEPT !.base = policy] /\ policy # candidate.base
    /\ UNCHANGED <<setup, policy, job, gate, stagedPolicies, trail>>

\* load_candidate, _policy_candidate_material: everything that uses a candidate
\* reads the policy and derives the artifact again.
Material(c) ==
    /\ policy = c.base
    /\ MayBecome(setup, policy, c.artifact)
    /\ Len(Ops(c)) \in 1..3
    /\ Patched(setup, policy, Ops(c)) = c.artifact

---------------------------------------------------------------------------
(* gate_policy_candidate: the candidate is read once, then measured.        *)

StartGate ==
    /\ job = NotThere /\ candidate # NotThere /\ Material(candidate)
    /\ turns.gates < MaxTurns /\ turns' = [turns EXCEPT !.gates = @ + 1]
    /\ job' = candidate
    /\ UNCHANGED <<setup, policy, candidate, gate, stagedPolicies, trail>>

SuitesOverlap(s) ==
    \E n, m \in PolicySuites : n # m /\
        {case.id : case \in Range(s.suites[n])} \cap {case.id : case \in Range(s.suites[m])} # {}
Acceptable(s, before, after) ==
    /\ ~SuitesOverlap(s)
    /\ \A n \in {"core", "held_out"} : Passed(s, after, n) >= Passed(s, before, n)
    /\ Passed(s, after, "adversarial") = Len(s.suites["adversarial"])
    /\ Passed(s, after, "validation") > Passed(s, before, "validation")

FinishGate ==
    /\ job # NotThere
    /\ gate' = [base |-> job.base, artifact |-> job.artifact, pass |-> Acceptable(setup, job.base, job.artifact)]
    /\ job' = NotThere
    /\ UNCHANGED <<setup, policy, candidate, stagedPolicies, trail, turns>>

\* _verify_policy_gate.
Binds(g, c) == g # NotThere /\ g.pass /\ g.base = c.base /\ g.artifact = c.artifact

Stage ==
    /\ candidate # NotThere
    /\ Material(candidate) /\ Binds(gate, candidate)
    /\ stagedPolicies' = stagedPolicies \cup {[candidate |-> candidate, gate |-> gate]}
    /\ UNCHANGED <<setup, policy, candidate, job, gate, trail, turns>>

\* adopt_policy_candidate, of a staged copy or of the directory itself.
Adopt ==
    \E c \in {candidate} \cup {x.candidate : x \in stagedPolicies},
       g \in {gate} \cup {x.gate : x \in stagedPolicies} :
        /\ c # NotThere /\ Material(c) /\ Binds(g, c)
        /\ policy' = c.artifact
        /\ trail' = trail \cup {<<policy, c.artifact>>}
        /\ UNCHANGED <<setup, candidate, job, gate, stagedPolicies, turns>>

PolicyNext ==
    \/ \E i \in DOMAIN setup.proposals : Propose(i)
    \/ EditTarget \/ EditCandidate
    \/ StartGate \/ FinishGate \/ Stage \/ Adopt

PolicySpec == PolicyInit /\ [][PolicyNext]_policyVars
---------------------------------------------------------------------------
(* Properties.                                                              *)

\* What a policy lets through, of the inputs to compare by: reviews that comply,
\* traces that pass, findings that are left out.
Lets(s, p, in) ==
    CASE s.type = "review-policy"   -> Compliant(s, p, in.changed, in.proofs)
      [] s.type = "trace-validator" -> TraceStatus(p, in) = "PASS"
      [] s.type = "audit-profile"   -> LeftOut(s, p, in)
      [] s.type = "triage-policy"   -> FALSE

\* What was adopted was measured, over the very policy it replaced, and is what
\* its allowlisted operations make of that: edits of the policy or of the candidate
\* before, while or after the gate runs, and copies staged earlier, do not matter.
AdoptedIsMeasured ==
    \A t \in trail :
        /\ Acceptable(setup, t[1], t[2])
        /\ \E i \in DOMAIN setup.proposals : Patched(setup, t[1], setup.proposals[i]) = t[2]

\* An adoption lets no review, no XML, SARIF or coverage trace and no finding through
\* that the policy it replaces stopped, whatever its operations add, replace or take out
\* ("Smaller budgets and added sensitive paths/proofs", docs/evolution-boundary.md:111), and
\* shows no finding as less severe that lies outside the old profile's sensitive paths and
\* that both profiles show.  The value a JSON validator asks for may become any other: then
\* this says nothing.  What the docs say of sensitive paths is ProfilesAreMonotonic, which
\* does not hold.
OnlyTightened ==
    \A t \in trail :
        /\ \/ setup.type = "trace-validator" /\ t[1].validator = "json"
           \/ \A in \in setup.inputs : Lets(setup, t[2], in) => Lets(setup, t[1], in)
        /\ setup.type = "audit-profile" =>
             \A f \in setup.inputs :
                 (Applies(setup, t[1], f) /\ Applies(setup, t[2], f) /\ ~LeftOut(setup, t[1], f)
                    /\ ~Covered(setup, {f.path}, t[1].path_policy.sensitive))
                 => Shown(setup, t[2], f) >= Shown(setup, t[1], f)

\* "Monotonic severity/sensitive-path changes ... cannot disable a rule or lower severity"
\* (docs/evolution-boundary.md:110): no finding that a profile shows is shown as less severe
\* by the profile that replaces it.
ProfilesAreMonotonic ==
    setup.type = "audit-profile" =>
        \A t \in trail, f \in setup.inputs :
            (\A p \in Range(t) : Applies(setup, p, f) /\ ~LeftOut(setup, p, f))
            => Shown(setup, t[2], f) >= Shown(setup, t[1], f)

\* A policy is replaced only by one that was measured over it and that is no laxer, as far
\* as OnlyTightened says.
PoliciesOnlyTighten == AdoptedIsMeasured /\ OnlyTightened
=============================================================================
