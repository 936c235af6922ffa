---------------------------- MODULE MC_Learning ----------------------------
(***************************************************************************)
(* The stages of the learning pipeline that write to disk, each on a small *)
(* instance of its own: a behaviour runs one of them ("part"); meanwhile   *)
(* adoptions, replays, gates, cycles, policies and rules stay as they were *)
(* and the variables of the plans are None.                                *)
(* They hand each other files, whose contents are what the next one starts *)
(* from in its initial states.                                             *)
(***************************************************************************)
EXTENDS AssetAdoption, LearningCycle, ObservedReplay, PlannedGate, PolicyTargets, AuditRules, TLC

CONSTANTS a1, a2, b1, b2, c1, c2, c3, f1, f2, o1, o2, s1, s2, t1, t2

---------------------------------------------------------------------------
(* The policies, rule packs, suites and fixtures that PolicyTargets and     *)
(* AuditRules run on.                                                       *)

Insert(path, v) == [op |-> "add", path |-> path, value |-> v]
Replace(path, v) == [op |-> "replace", path |-> path, value |-> v]
Case(id, in, expected) == [id |-> id, in |-> in, expected |-> expected]
FourSuites(core, validation, heldOut, adversarial) ==
    "core" :> core @@ "validation" :> validation @@ "held_out" :> heldOut @@ "adversarial" :> adversarial

\* Review: paths in src, lib and docs; proofs of tests and of lint.
Review(budget, classes, proofs) ==
    [changed_path_budget |-> budget, path_classes |-> classes, proof_requirements |-> proofs]
Change(paths, proofs) == [changed |-> paths, proofs |-> proofs]
ReviewScene ==
    [type |-> "review-policy",
     policies |-> <<Review(2, [api |-> {"src/**"}], [api |-> {"tests"}]),
                    Review(2, [api |-> {"src/**", "lib/**"}], [api |-> {"tests"}]),
                    Review(1, [api |-> {"src/**"}], [api |-> {"lint"}])>>,
     proposals |-> <<<<Replace(<<"changed_path_budget">>, 1)>>,
                     <<Replace(<<"proof_requirements", "api">>, {"tests", "lint"})>>,
                     <<Insert(<<"path_classes", "docs">>, {"docs/**"}), Insert(<<"proof_requirements", "docs">>, {"lint"})>>,
                     <<Replace(<<"path_classes", "api">>, {"lib/**"})>>,
                     <<Replace(<<"proof_requirements", "api">>, {"lint"})>>,
                     <<Replace(<<"changed_path_budget">>, 3)>>,
                     <<Insert(<<"proof_requirements", "shell">>, {"lint"})>>,
                     <<Replace(<<"path_classes", "docs">>, {"docs/**"})>>,
                     <<Insert(<<"schema_version">>, 2)>>>>,
     suites |-> FourSuites(
        <<Case(1, Change({"src/a"}, {"tests", "lint"}), [compliant |-> TRUE])>>,
        <<Case(2, Change({"src/a"}, {"tests"}), [compliant |-> FALSE, missing |-> {"lint"}]),
          Case(3, Change({"docs/b"}, {}), [compliant |-> FALSE]),
          Case(4, Change({"lib/c", "docs/b"}, {"lint"}), [compliant |-> FALSE])>>,
        <<Case(5, Change({"lib/c"}, {"tests", "lint"}), [compliant |-> TRUE])>>,
        <<Case(6, Change({"src/a"}, {}), [compliant |-> FALSE])>>),
     covers |-> "src/**" :> {"src/a"} @@ "lib/**" :> {"lib/c"} @@ "docs/**" :> {"docs/b"},
     inputs |-> [changed : SUBSET {"src/a", "lib/c", "docs/b"}, proofs : SUBSET {"tests", "lint"}]]

\* Audit profiles: two rules, findings in src and in a generated directory.
Profile(rules, exclusions, sensitive) ==
    [rules |-> rules, exclusions |-> exclusions, path_policy |-> [sensitive |-> sensitive]]
Exclude(pattern) == [pattern |-> pattern, explained |-> TRUE]
Found(rule, severity, path) == [rule |-> rule, severity |-> severity, path |-> path]
ProfileScene ==
    [type |-> "audit-profile",
     policies |-> <<Profile([size |-> [severity |-> 1]], {Exclude("gen/**")}, {"lib/**"}),
                    Profile([size |-> [enabled |-> FALSE]], {Exclude("gen/**"), Exclude("src/**")}, {"lib/**"})>>,
     proposals |-> <<<<Replace(<<"rules", "size">>, [severity |-> 2])>>,
                     <<Replace(<<"rules", "size">>, [severity |-> 2]), Replace(<<"path_policy", "sensitive">>, {})>>,
                     <<Replace(<<"exclusions">>, {}), Replace(<<"path_policy", "sensitive">>, {"src/**"})>>,
                     <<Insert(<<"rules", "link">>, [enabled |-> FALSE])>>,
                     <<Replace(<<"rules", "size">>, [enabled |-> FALSE])>>,
                     <<Insert(<<"exclusions">>, {Exclude("gen/**"), Exclude("src/**")})>>,
                     <<Replace(<<"exclusions">>, {[Exclude("gen/**") EXCEPT !.explained = FALSE]})>>>>,
     suites |-> FourSuites(
        <<Case(1, Found("link", 2, "src/a"), [severity |-> 2])>>,
        <<Case(2, Found("size", 1, "src/a"), [severity |-> 2]), Case(3, Found("link", 1, "gen/d"), [enabled |-> FALSE])>>,
        <<Case(4, Found("size", 1, "gen/d"), [enabled |-> TRUE])>>,
        <<Case(5, Found("size", 2, "src/a"), [enabled |-> TRUE])>>),
     covers |-> "src/**" :> {"src/a"} @@ "lib/**" :> {"lib/c"} @@ "gen/**" :> {"gen/d"},
     inputs |-> [rule : {"size", "link"}, severity : 0..2, path : {"src/a", "lib/c", "gen/d"}]]

\* Trace validators.
Validator(kind, requirements) == [validator |-> kind, requirements |-> requirements]
Xml(t, f, e, s) == [form |-> "xml", tests |-> t, failures |-> f, errors |-> e, skipped |-> s, percent |-> 0, value |-> 0]
Json(e, p, v) == [form |-> "json", tests |-> 0, failures |-> 0, errors |-> e, skipped |-> 0, percent |-> p, value |-> v]
Artifacts == {Xml(t, f, e, 0) : t \in 0..2, f \in 0..1, e \in 0..1} \cup {Json(e, p, v) : e \in 0..2, p \in 0..2, v \in 0..1}
TraceScene(kind, first, other, ops, good, bad) ==
    [type |-> "trace-validator",
     policies |-> <<Validator(kind, first), Validator(kind, other)>>,
     proposals |-> ops,
     suites |-> FourSuites(
        <<Case(1, good, [status |-> "PASS"])>>, <<Case(2, bad, [status |-> "FAIL"])>>,
        <<Case(3, good, [status |-> "PASS"])>>,
        <<Case(4, IF good.form = "xml" THEN Json(0, 0, 0) ELSE Xml(0, 0, 0, 0), [status |-> "UNKNOWN"])>>),
     covers |-> <<>>, inputs |-> Artifacts]
Limit(k, v) == <<Insert(<<"requirements", k>>, v)>>
TraceScenes ==
    {TraceScene("junit", [failures_max |-> 1], [tests_min |-> 2],
        <<Limit("tests_min", 1), Limit("failures_max", 0), Limit("tests_min", 2), Limit("failures_max", 1),
          <<Insert(<<"validator">>, "json")>>>>,
        Xml(2, 0, 0, 0), Xml(0, 1, 0, 0)),
     TraceScene("sarif", [errors_max |-> 2], [x \in {} |-> 0],
        <<Limit("errors_max", 1), Limit("errors_max", 0), Limit("errors_max", 2)>>, Json(0, 0, 0), Json(1, 2, 1)),
     TraceScene("coverage", [percent_covered_min |-> 1], [percent_covered_min |-> 0],
        <<Limit("percent_covered_min", 2), Limit("percent_covered_min", 0)>>, Json(0, 2, 0), Json(0, 1, 1)),
     TraceScene("json", [equals |-> 1], [equals |-> 0], <<Limit("equals", 0)>>, Json(0, 0, 0), Json(0, 0, 1))}

\* Triage policies.
TriageScene ==
    LET one == [severity |-> 2, path |-> "lib/c"]
        other == [severity |-> 0, path |-> "src/a"]
        Weights(w, critical) == [weights |-> w, critical_paths |-> critical]
    IN  [type |-> "triage-policy",
         policies |-> <<Weights([severity |-> 1], {}), Weights([severity |-> 0, critical_path |-> 1], {"lib/**"})>>,
         proposals |-> <<<<Insert(<<"weights", "critical_path">>, 4), Replace(<<"critical_paths">>, {"src/**"})>>,
                         <<Insert(<<"hide">>, {"size"})>>, <<Insert(<<"weights", "critical_path">>, 4)>>>>,
         suites |-> FourSuites(
            <<Case(1, [one |-> one, other |-> one], [first |-> TRUE])>>,
            <<Case(2, [one |-> one, other |-> other], [first |-> FALSE])>>,
            <<Case(3, [one |-> other, other |-> other], [first |-> TRUE])>>,
            <<Case(4, [one |-> other, other |-> other], [first |-> TRUE])>>),
         covers |-> "src/**" :> {"src/a"} @@ "lib/**" :> {"lib/c"}, inputs |-> {}]
PolicyScenes == {ReviewScene, ProfileScene, TriageScene} \cup TraceScenes

---------------------------------------------------------------------------
(* Rule packs: one rule about links, and candidates that add a rule about   *)
(* scripts, with or without one more or another status.                     *)

Rule(d, m, st) == [detector |-> d, match |-> m, status |-> st]
Links == "link" :> Rule("targets", "link", "FAIL")
Pack(name, rules) == [name |-> name, rules |-> rules]
Hits(targets, scripts) == [targets |-> targets, scripts |-> scripts]
Hit(r, p) == [rule |-> r, path |-> p]
Clean == [assets |-> TRUE, hits |-> Hits({}, {})]
Blank == [assets |-> FALSE, hits |-> Hits({}, {})]
BadLink == [assets |-> TRUE, hits |-> Hits({Hit("link", "a"), Hit("command", "b")}, {})]
BadScript == [assets |-> TRUE, hits |-> Hits({}, {Hit("x", "package.json")})]
BadBoth == [assets |-> TRUE, hits |-> Hits({Hit("link", "a")}, {Hit("x", "package.json")})]
Task(id, f, must, mustNot) == [id |-> id, fixture |-> f, must |-> must, mustNot |-> mustNot]
PkgAt == [rule |-> "AET-PKG-001", status |-> "FAIL", path |-> "package.json"]
LinkAt == [rule |-> "link", status |-> "FAIL", path |-> "a"]
RuleSuites ==
    "core" :> {Task(1, Clean, {}, {[rule |-> "link"]}), Task(2, BadLink, {LinkAt}, {})}
    @@ "validation" :> {Task(3, BadScript, {PkgAt}, {})}
    @@ "held_out" :> {Task(4, BadBoth, {LinkAt, PkgAt}, {})}
    @@ "adversarial" :> {Task(5, Blank, {[rule |-> "AET-GEN-001", status |-> "UNKNOWN", path |-> "."]}, {[rule |-> "AET-PKG-001"]})}
RulePacks == {Pack("p", Links), Pack("q", Links), Pack("p", Links @@ "command" :> Rule("targets", "command", "FAIL")),
            Pack("q", "link" :> Rule("targets", "any", "FAIL"))}
FirstRules == Pack("p", Links)
Package == "AET-PKG-001" :> Rule("scripts", "any", "FAIL")
RuleAdditions == {Package, Package @@ "noise" :> Rule("targets", "command", "FAIL"),
   "AET-PKG-001" :> Rule("scripts", "any", "UNKNOWN")}
Named(n, f) == [name |-> n, assets |-> f.assets, hits |-> f.hits]
AuditedWorkspaces == {Named("r", BadScript), Named("s", Clean)}

---------------------------------------------------------------------------
VARIABLES
    part,
    request, design, measured, registry, assessment, dedits

dvars == <<request, design, measured, registry, assessment, dedits>>
\* vars, cycleVars, replayVars, gateVars: those of AssetAdoption, LearningCycle,
\* ObservedReplay, PlannedGate; policyVars, rulesVars: those of PolicyTargets, AuditRules.
allVars == <<part, vars, replayVars, gateVars, cycleVars, policyVars, rulesVars, dvars>>

---------------------------------------------------------------------------
(* Adoption.  Three candidates: c1 and c3 proposed against the original, c2 *)
(* against the text of c1.  In the scenes of one process all target the     *)
(* same file; with two processes c3 has a file and a process of its own.    *)

Bounds(n, f, c, e) == [attempts |-> n, faults |-> f, crashes |-> c, edits |-> e]
One(kind, max) ==
    [kind |-> kind, max |-> max, assigned |-> a1 :> {c1, c2, c3} @@ a2 :> {},
     targetOf |-> c1 :> s1 @@ c2 :> s1 @@ c3 :> s1]
Two(kind, max) ==
    [kind |-> kind, max |-> max, assigned |-> a1 :> {c1, c2} @@ a2 :> {c3},
     targetOf |-> c1 :> s1 @@ c2 :> s1 @@ c3 :> s2]
AdoptionScenes ==
    {One("skill", Bounds(5, 2, 2, 2)), One("policy", Bounds(5, 2, 0, 2)),
     One("policy", Bounds(4, 1, 2, 1)), Two("policy", Bounds(5, 1, 1, 1))}

AdoptedIds == {c1, c2, c3}
AdoptionBases == c1 :> o1 @@ c2 :> c1 @@ c3 :> o1

(* Replay.  Two tasks, up to two rollouts of each, two versions of fixtures. *)

ReplaySuite == <<t1, t2>>

(* Plans.  Every request of a class, three suites and pairs of one's own;   *)
(* and two gates of a plan and three entries of them.  What a power analysis *)
(* asks for is that of gate_plan.py at its default alpha.                    *)

PowerOf == [R3 |-> [b \in 1..4 |-> <<15, 14, 12, 12>>[b]], R4 |-> [b \in 1..4 |-> <<19, 16, 15, 16>>[b]]]
SuitesOf(c, v, h) == "core" :> c @@ "validation" :> v @@ "held_out" :> h
Requested(risk, tasks, min, max, batch) ==
    [risk |-> risk, tasks |-> tasks, min |-> min, max |-> max, batch |-> batch]
Small == Requested("R2", SuitesOf(3, 2, 3), 4, 8, 2)
PlanScenes ==
    {[request |-> Requested(r, SuitesOf(3, k, l), min, max, batch), subject |-> c1, gates |-> 0]
       : r \in {"R1", "R2", "R3", "R4"}, k \in {1, 2, 3, 5}, l \in {2, 3, 7},
         min \in {None, 0, 3, 20}, max \in {None, 0, 5, 20}, batch \in {None, 0, 1, 3, 4}}
    \cup {[request |-> [Small EXCEPT !.tasks = "validation" :> 2 @@ "held_out" :> 3],
            subject |-> c1, gates |-> 2]}
Ask == INSTANCE GatePlan WITH
    Scenes <- PlanScenes, Powered <- PowerOf, MaxEdits <- 1,
    scene <- request, plan <- design, gates <- measured, edits <- dedits

(* The gate.  Built: the plan of a small request, whose batches are whole    *)
(* runs of the tasks of a suite.  Unaligned, Narrow: plans written by        *)
(* hand that validate_gate_plan accepts, whose batches the tasks do not      *)
(* divide (three pairs over two tasks; two pairs, fewer than the tasks).     *)
(* Short, Odd: the last look is short; by one pair in one that is no whole   *)
(* run of the tasks.                                                         *)

Design(objective, min, max, batch, tasks) ==
    [objective |-> objective, min |-> min, max |-> max, batch |-> batch, tasks |-> tasks]
Built ==
    LET b == Ask!Body(Small, c1)
    IN  [suites |-> <<"core", "validation", "held_out">>,
         of |-> [s \in DOMAIN b.designs |->
                   LET d == b.designs[s]
                   IN  Design(Ask!Objective(s), d.min, d.max, d.batch, b.tasks[s])]]
ByHand(design_) == [suites |-> <<"validation">>, of |-> "validation" :> design_]
Unaligned == ByHand(Design("superiority", 3, 12, 3, 2))
Narrow == ByHand(Design("superiority", 2, 6, 2, 3))

Short == ByHand(Design("superiority", 4, 6, 4, 2))
Odd == ByHand(Design("superiority", 3, 7, 4, 2))

GatePlans == {Built, Unaligned, Narrow, Short, Odd}

(* Cycles.  Two contents of the target; one candidate can come from either.  *)

Proposals == b1 :> {c1} @@ b2 :> {c1, c2}

ASSUME /\ AdoptionAssumption
       /\ ReplayAssumption
       /\ PlanAssumption /\ FractionAssumption
       /\ CycleAssumption /\ PolicyAssumption
       /\ RuleAssumption
---------------------------------------------------------------------------
NoAdoption ==
    /\ Init /\ scene = One("skill", Bounds(5, 2, 2, 2))
    /\ target = [s \in Assets |-> o1]
NoReplay == ReplayInit /\ fixture = [t \in Tasks |-> f1]
NoGate ==
    /\ plan = Narrow /\ verdict = "FAIL" /\ done = <<>> /\ look = 0 /\ tally = NoPairs
    /\ seen = <<>>
NoCycle == CycleInit /\ skill = b1

NoPolicy == PolicyInit /\ setup = TriageScene
NoRules == RulesInit

NoPlan ==
    /\ request = None /\ design = None /\ measured = None /\ registry = None
    /\ assessment = None /\ dedits = None

PipelineInit ==
    \/ part = "adopt"  /\ Init /\ NoReplay /\ NoGate /\ NoCycle /\ NoPolicy /\ NoRules /\ NoPlan
    \/ part = "replay" /\ ReplayInit /\ NoAdoption /\ NoGate /\ NoCycle /\ NoPolicy /\ NoRules /\ NoPlan
    \/ part = "gate"   /\ GateInit /\ NoAdoption /\ NoReplay /\ NoCycle /\ NoPolicy /\ NoRules /\ NoPlan
    \/ part = "cycle"  /\ CycleInit /\ NoAdoption /\ NoReplay /\ NoGate /\ NoPolicy /\ NoRules /\ NoPlan
    \/ part = "policy" /\ PolicyInit /\ NoAdoption /\ NoReplay /\ NoGate /\ NoCycle /\ NoRules /\ NoPlan
    \/ part = "rules"  /\ RulesInit /\ NoAdoption /\ NoReplay /\ NoGate /\ NoCycle /\ NoPolicy /\ NoPlan
    \/ part = "plan"   /\ Ask!Init /\ NoAdoption /\ NoReplay /\ NoGate /\ NoCycle /\ NoPolicy /\ NoRules

PipelineNext ==
    /\ UNCHANGED part
    /\ \/ part = "adopt"  /\ Next /\ UNCHANGED <<replayVars, gateVars, cycleVars, policyVars, rulesVars, dvars>>
       \/ part = "replay" /\ ReplayNext /\ UNCHANGED <<vars, gateVars, cycleVars, policyVars, rulesVars, dvars>>
       \/ part = "gate"   /\ GateNext /\ UNCHANGED <<vars, replayVars, cycleVars, policyVars, rulesVars, dvars>>
       \/ part = "cycle"  /\ CycleNext /\ UNCHANGED <<vars, replayVars, gateVars, policyVars, rulesVars, dvars>>
       \/ part = "policy" /\ PolicyNext /\ UNCHANGED <<vars, replayVars, gateVars, cycleVars, rulesVars, dvars>>
       \/ part = "rules"  /\ RulesNext /\ UNCHANGED <<vars, replayVars, gateVars, cycleVars, policyVars, dvars>>
       \/ part = "plan"   /\ Ask!Next /\ UNCHANGED <<vars, replayVars, gateVars, cycleVars, policyVars, rulesVars>>

\* The replay process and the gate keep running.
Pipeline ==
    /\ PipelineInit /\ [][PipelineNext]_allVars
    /\ WF_allVars(/\ UNCHANGED <<part, vars, cycleVars, policyVars, rulesVars, dvars>>
                  /\ \/ part = "replay" /\ UNCHANGED gateVars /\ Loop
                     \/ part = "gate" /\ UNCHANGED replayVars /\ Look)
---------------------------------------------------------------------------
(* Properties: those of the components, for the part that runs;             *)
(* AdoptionIsWhole and EntriesAreTrue are AssetAdoption's, StagingIsTrue and *)
(* StagedFilesEndure LearningCycle's, ReplayIsExact ObservedReplay's,       *)
(* VerdictsAreEarned PlannedGate's, PoliciesOnlyTighten PolicyTargets',     *)
(* and ProfilesAreMonotonic too, AdoptedRulesWereMeasured and                *)
(* ShadowEvidenceSuffices AuditRules'.                                      *)

\* A replay that is not killed completes, and a gate comes to a verdict
\* (ObservedReplay: ReplayCompletes, PlannedGate: EveryGateDecides).
MeasuringEnds == ReplayCompletes /\ EveryGateDecides

\* A suite is given up exactly when it is lost, and passes by chance with probability
\* alpha at most (PlannedGate: FutilityIsSound, FalsePassesWithinAlpha); what is planned
\* can be run with its power, and history counts for no more than was measured
\* (GatePlan: PlansCanBeRun, HistoryIsBounded).
PlansAreSound ==
    /\ part = "gate" => FutilityIsSound /\ FalsePassesWithinAlpha
    /\ part = "plan" => Ask!PlansCanBeRun /\ Ask!HistoryIsBounded
=============================================================================
