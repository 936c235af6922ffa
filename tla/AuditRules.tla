----------------------------- MODULE AuditRules -----------------------------
(***************************************************************************)
(* Candidates for a rule pack of the static audit (audit_evolution.py with  *)
(* rules.py and rulepacks.py): a proposal adds one rule, a gate runs the     *)
(* old and the new pack over the fixtures of four suites, audits run the     *)
(* candidate beside the official pack ("shadow"), their reports are          *)
(* aggregated, and the pack is adopted on gate and aggregate.  Adoption is    *)
(* one step here; its file operations are AssetAdoption.                     *)
(*                                                                          *)
(* A rule is its detector, the finding of the detector it is for (or        *)
(* "any"), and the status it reports; a fixture is what each detector finds *)
(* in it.  The detectors are deterministic; how long they take is left out. *)
(***************************************************************************)
EXTENDS Naturals, FiniteSets, Functions

CONSTANTS
    NoPack,
    Packs,      \* rule packs the user may have; FirstPack is the first
    FirstPack,
    Additions,  \* rules a candidate may add: functions from rule ids
    SuiteTasks, \* SuiteTasks[s]: the tasks of a suite
    Workspaces, \* repositories that are audited, each a fixture with a name
    Days,
    MinRuns, MinRepositories, MinDates,
    MaxReports, \* shadow runs
    MaxPackEdits \* edits of the pack, the candidate and the aggregate by hand

\* What propose_audit_rule adds.
PackageRule ==
    [r \in {"AET-PKG-001"} |-> [detector |-> "scripts", match |-> "any", status |-> "FAIL"]]

\* Rules are kept by their ids.
ById(rules) == rules = [r \in DOMAIN rules |-> rules[r]]
RuleAssumption ==
    /\ FirstPack \in Packs /\ PackageRule \in Additions
    /\ \A p \in Packs : ById(p.rules)

VARIABLES
    packFile,       \* the rule pack file
    extended,       \* the candidate directory, or NoPack
    packGate,       \* the gate report, or NoPack; its operations are history
    shadows,        \* shadow reports
    confirmations,  \* outcomes of findings the shadow reports add
    aggregate,      \* the aggregate file, or NoPack
    replaced,       \* history: what was adopted, the pack before and after
    packEdits

rulesVars == <<packFile, extended, packGate, shadows, confirmations, aggregate, replaced, packEdits>>

RulesInit ==
    /\ packFile = FirstPack
    /\ extended = NoPack /\ packGate = NoPack
    /\ shadows = {} /\ confirmations = {} /\ aggregate = NoPack
    /\ replaced = {} /\ packEdits = 0

---------------------------------------------------------------------------
(* run_rules.                                                               *)

Finding(rule, status, path) == [rule |-> rule, status |-> status, path |-> path]
Nothing(fixture) ==
    IF fixture.assets THEN {} ELSE {Finding("AET-GEN-001", "UNKNOWN", ".")}
Detected(rule, fixture) ==
    {h \in fixture.hits[rule.detector] : rule.match \in {"any", h.rule}}
Emits(pack, fixture) ==
    Nothing(fixture) \cup
    UNION {{Finding(r, pack.rules[r].status, h.path) : h \in Detected(pack.rules[r], fixture)}
             : r \in DOMAIN pack.rules}
FindingKeys(findings) == {<<f.rule, f.path>> : f \in findings}

---------------------------------------------------------------------------
(* evaluate_audit_suite.                                                    *)

\* What a task expects or forbids fixes a rule and some other fields.
Matches(expected, f) == \A k \in DOMAIN expected : expected[k] = f[k]
Lacking(pack, task) ==
    {e \in task.must : \A f \in Emits(pack, task.fixture) : ~Matches(e, f)}
Unexpected(pack, task) ==
    {f \in Emits(pack, task.fixture) : \E e \in task.mustNot : Matches(e, f)}
TaskPasses(pack, task) == Lacking(pack, task) = {} /\ Unexpected(pack, task) = {}

TasksPassed(pack, s) == Cardinality({t \in SuiteTasks[s] : TaskPasses(pack, t)})
FalseNegatives(pack, s) ==
    Cardinality(UNION {{<<t, e>> : e \in Lacking(pack, t)} : t \in SuiteTasks[s]})
FalsePositives(pack, s) ==
    Cardinality(UNION {{<<t, f>> : f \in Unexpected(pack, t)} : t \in SuiteTasks[s]})

---------------------------------------------------------------------------
(* Candidates.                                                              *)

Extend(pack, added) ==
    [rules |-> [r \in DOMAIN pack.rules \cup DOMAIN added |->
                   IF r \in DOMAIN pack.rules THEN pack.rules[r] ELSE added[r]],
     name |-> "candidate"]

\* propose_audit_rule; patterns it can serve are given.
ProposeRule ==
    /\ DOMAIN PackageRule \cap DOMAIN packFile.rules = {}
    /\ extended' = [base |-> packFile, adds |-> PackageRule, budget |-> 1,
                     artifact |-> Extend(packFile, PackageRule)]
    /\ UNCHANGED <<packFile, packGate, shadows, confirmations, aggregate, replaced, packEdits>>

PackEdited == packEdits < MaxPackEdits /\ packEdits' = packEdits + 1
\* A candidate of other operations, or of another artifact, its hashes up to date.
EditExtension ==
    /\ extended # NoPack /\ PackEdited
    /\ \/ \E a \in Additions, n \in 1..2 :
            extended' = [base |-> packFile, adds |-> a, budget |-> n, artifact |-> Extend(packFile, a)]
       \/ \E p \in Packs : extended' = [extended EXCEPT !.artifact = p]
    /\ UNCHANGED <<packFile, packGate, shadows, confirmations, aggregate, replaced>>
EditPack ==
    /\ PackEdited /\ packFile' \in Packs \ {packFile}
    /\ UNCHANGED <<extended, packGate, shadows, confirmations, aggregate, replaced>>

\* _candidate_material.  The pack is not compared with the one the candidate was
\* proposed for: its rules have to come back from the artifact, and the name and
\* the revision are the candidate's.
ExtensionHolds(c) ==
    LET added == DOMAIN c.artifact.rules \ DOMAIN packFile.rules
    IN  /\ \A r \in DOMAIN packFile.rules :
             r \in DOMAIN c.artifact.rules /\ c.artifact.rules[r] = packFile.rules[r]
        /\ Cardinality(added) <= c.budget
        /\ DOMAIN c.adds \cap DOMAIN packFile.rules = {}
        /\ Extend(packFile, c.adds) = c.artifact

---------------------------------------------------------------------------
(* gate_audit_rule.                                                         *)

SuiteNames == {"core", "validation", "held_out", "adversarial"}
Overlap ==
    \E s, t \in SuiteNames :
        s # t /\ {x.id : x \in SuiteTasks[s]} \cap {x.id : x \in SuiteTasks[t]} # {}
CasesReused ==
    {t.fixture : t \in SuiteTasks["validation"]} \cap {t.fixture : t \in SuiteTasks["held_out"]} # {}
Unapproved(before, after, task) ==
    (FindingKeys(Emits(after, task.fixture)) \ FindingKeys(Emits(before, task.fixture)))
        \ {<<e.rule, e.path>> : e \in task.must}
Improves(before, after) ==
    /\ ~Overlap /\ ~CasesReused
    /\ \A s \in {"core", "held_out"} : TasksPassed(after, s) >= TasksPassed(before, s)
    /\ \A s \in SuiteNames :
         /\ \A t \in SuiteTasks[s] : Unapproved(before, after, t) = {}
         /\ FalsePositives(after, s) <= FalsePositives(before, s)
    /\ \A s \in SuiteNames \ {"validation"} : FalseNegatives(after, s) <= FalseNegatives(before, s)
    /\ \A t \in SuiteTasks["adversarial"] : TaskPasses(after, t)
    /\ TasksPassed(after, "validation") > TasksPassed(before, "validation")

\* The report names the baseline of the candidate, not the pack it measured.
GateRules ==
    /\ extended # NoPack /\ ExtensionHolds(extended)
    /\ packGate' = [base |-> extended.base, artifact |-> extended.artifact, adds |-> extended.adds,
                    pass |-> Improves(packFile, extended.artifact)]
    /\ UNCHANGED <<packFile, extended, shadows, confirmations, aggregate, replaced, packEdits>>

\* Defective variant: the artifact is not compared.
BindsBase(g, c) == g # NoPack /\ g.pass /\ g.base = c.base
\* _verify_gate.  It does not compare the operations.
BindsPack(g, c) == g # NoPack /\ g.pass /\ g.base = c.base /\ g.artifact = c.artifact

---------------------------------------------------------------------------
(* Shadow runs.                                                             *)

\* rulepack_metadata hashes a compact form of the pack, a candidate the file.
PackHash(pack) == <<"compact", pack>>
FileHash(pack) == <<"file", pack>>

\* `aet audit --shadow-rulepack`: the candidate is read from its file.
Shadow(w, d) ==
    /\ extended # NoPack /\ Cardinality(shadows) < MaxReports
    /\ shadows' = shadows \cup
         {[repo |-> w.name, date |-> d, pack |-> PackHash(extended.artifact),
           added |-> FindingKeys(Emits(extended.artifact, w)) \ FindingKeys(Emits(packFile, w))]}
    /\ UNCHANGED <<packFile, extended, packGate, confirmations, aggregate, replaced, packEdits>>

Confirm(r, key, outcome) ==
    /\ key \in r.added
    /\ \A c \in confirmations : c[1] # r \/ c[2] # key
    /\ confirmations' = confirmations \cup {<<r, key, outcome>>}
    /\ UNCHANGED <<packFile, extended, packGate, shadows, aggregate, replaced, packEdits>>

Outcomes(outcome) == {c \in confirmations : c[3] = outcome /\ c[1] \in shadows}
SomeUnconfirmed ==
    \E r \in shadows : \E key \in r.added :
        \A c \in confirmations : c[1] # r \/ c[2] # key
Enough ==
    /\ Cardinality(shadows) >= MinRuns
    /\ Cardinality({r.repo : r \in shadows}) >= MinRepositories
    /\ Cardinality({r.date : r \in shadows}) >= MinDates

\* aggregate_shadow_audits.
Aggregate ==
    /\ shadows # {}
    /\ aggregate' =
         [real |-> TRUE,
          pass |-> /\ Enough /\ ~SomeUnconfirmed /\ Outcomes("false-positive") = {}
                   /\ Cardinality({r.pack : r \in shadows}) = 1,
          pack |-> (CHOOSE r \in shadows : TRUE).pack]
    /\ UNCHANGED <<packFile, extended, packGate, shadows, confirmations, replaced, packEdits>>
\* An aggregate written by hand, for the file of the candidate.
WriteAggregate ==
    /\ extended # NoPack /\ PackEdited
    /\ aggregate' = [real |-> FALSE, pass |-> TRUE, pack |-> FileHash(extended.artifact)]
    /\ UNCHANGED <<packFile, extended, packGate, shadows, confirmations, replaced>>

---------------------------------------------------------------------------
(* adopt_audit_rule, with --yes.                                            *)

Evident(c) == aggregate # NoPack /\ aggregate.pass /\ aggregate.pack = FileHash(c.artifact)
\* The gate measured the same artifact as made by other operations.
Respelled(g, c) == g.artifact = c.artifact /\ g.adds # c.adds
AdoptPack ==
    /\ extended # NoPack
    /\ ExtensionHolds(extended) /\ BindsPack(packGate, extended) /\ Evident(extended)
    /\ packFile = extended.base
    /\ packFile' = extended.artifact
    /\ replaced' = replaced \cup {[before |-> packFile, after |-> extended.artifact,
                                  respelled |-> Respelled(packGate, extended)]}
    /\ UNCHANGED <<extended, packGate, shadows, confirmations, aggregate, packEdits>>

RulesNext ==
    \/ ProposeRule \/ EditExtension \/ EditPack \/ GateRules
    \/ \E w \in Workspaces, d \in Days : Shadow(w, d)
    \/ \E r \in shadows, o \in {"confirmed", "false-positive"} :
         \E key \in r.added : Confirm(r, key, o)
    \/ Aggregate \/ WriteAggregate \/ AdoptPack

RulesSpec == RulesInit /\ [][RulesNext]_rulesVars
---------------------------------------------------------------------------
(* Properties.                                                              *)

Fixtures == {t.fixture : t \in UNION {SuiteTasks[s] : s \in SuiteNames}}

\* An adopted pack reports all that the pack it replaced reports, wherever it is
\* run on; and the suites were passed over the very rules it replaced (which leaves
\* no finding on their fixtures that is not expected), although the gate measures
\* whatever pack is there and reports the baseline of the candidate.  That holds
\* unless the candidate's operations were exchanged for others that make the same
\* artifact, for then the rules measured may not be those replaced.
AdoptedRulesWereMeasured ==
    \A t \in replaced :
        /\ \A f \in Fixtures \cup Workspaces : Emits(t.before, f) \subseteq Emits(t.after, f)
        /\ t.respelled \/ Improves(t.before, t.after)

\* "Adoption requires an aggregate bound to the same candidate with the configured
\* run, repository, date, confirmation, and false-positive thresholds"
\* (docs/evolution-boundary.md:115-117): with a gate that passed, an unchanged target
\* and such an aggregate, made by aggregate_shadow_audits from shadow runs of the
\* candidate alone, nothing stands in the way of the adoption.
ShadowEvidenceSuffices ==
    (/\ extended # NoPack /\ packFile = extended.base
     /\ ExtensionHolds(extended) /\ BindsPack(packGate, extended)
     /\ aggregate # NoPack /\ aggregate.real /\ aggregate.pass
     /\ \A r \in shadows : r.pack = PackHash(extended.artifact)
     /\ aggregate.pack = PackHash(extended.artifact))
    => Evident(extended)
=============================================================================
