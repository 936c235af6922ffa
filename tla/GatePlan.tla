------------------------------ MODULE GatePlan ------------------------------
(***************************************************************************)
(* Gate plans (gate_plan.py): from the risk class of a candidate and the   *)
(* tasks of its suites the pairs to measure and the looks to take, which   *)
(* PlannedGate then runs; and what the history of earlier gates counts for *)
(* when a plan is made ("planning only").                                  *)
(*                                                                         *)
(* A plan's claims, candidate, runner, suites and scorer are one value,    *)
(* `subject`: they are only compared.  The pairs a power analysis asks for *)
(* are given.  Gates are run and entered in the registry by others; an     *)
(* entry is believed to be of the gate it names.                           *)
(***************************************************************************)
EXTENDS Naturals, Sequences, FiniteSets, FiniteSetsExt

CONSTANTS
    None,
    Scenes,    \* what is asked for, and how many gates of it are followed, see Scene
    Powered,   \* Powered[risk][batch]: plan_sequential_pairs for the class's alternative
    MaxEdits   \* edits of the plan file

\* What plan_observed_gate is asked: pairs of one's own, or None.
Request(risks, tasks, min, max, batch) ==
    [risk : risks, tasks : tasks, min : min, max : max, batch : batch]
Scene(requests, subjects, n) == [request : requests, subject : subjects, gates : n]

VARIABLES
    scene,
    plan,       \* the plan file, or None
    gates,      \* gates that were run, in order
    registry,   \* the entries of the history registry
    assessment, \* what `aet learn history` wrote last, or None
    edits

vars == <<scene, plan, gates, registry, assessment, edits>>

Init ==
    /\ scene \in Scenes
    /\ plan = None /\ gates = <<>> /\ registry = <<>> /\ assessment = None /\ edits = 0

---------------------------------------------------------------------------
(* build_gate_plan.                                                         *)

Preset(need, min, max, batch) == [need |-> need, min |-> min, max |-> max, batch |-> batch]
Presets ==
    [R0 |-> Preset("NOT_APPLICABLE", 0, 0, 0), R1 |-> Preset("NOT_APPLICABLE", 0, 0, 0),
     R2 |-> Preset("PRELIMINARY", 2, 4, 2), R3 |-> Preset("REQUIRED", 4, 12, 2),
     R4 |-> Preset("REQUIRED", 8, 24, 2)]

Larger(a, b) == IF a > b THEN a ELSE b
Least(a, b) == IF a < b THEN a ELSE b
Or(chosen, default) == IF chosen = None THEN default ELSE chosen
\* Whole runs of k tasks.
CeilDiv(a, b) == (a + b - 1) \div b
Whole(n, k) == Larger(k, CeilDiv(n, k) * k)

Objective(s) ==
    CASE s = "core" -> "no_regression"
      [] s = "held_out" -> "confirmatory_superiority"
      [] OTHER -> "superiority"
Pairs(min, max, batch) == [min |-> min, max |-> max, batch |-> batch]
DesignOf(s, k, d) ==
    IF d.max = 0 THEN Pairs(0, 0, 0)
    ELSE IF Objective(s) = "no_regression" THEN Pairs(k, k, k)
    ELSE Pairs(Whole(d.min, k), Larger(Whole(d.min, k), Whole(d.max, k)), Whole(d.batch, k))

\* The pairs asked for; a plan that is required has the pairs its power needs.
Decision(r) ==
    LET p == Presets[r.risk]
        batch == Or(r.batch, p.batch)
        power == IF p.need = "REQUIRED" THEN Powered[r.risk][batch] ELSE 0
    IN  [min |-> Or(r.min, p.min), max |-> Or(r.max, Larger(p.max, power)),
         batch |-> batch, power |-> power]
Body(r, subject) ==
    [need |-> Presets[r.risk].need, risk |-> r.risk, subject |-> subject, tasks |-> r.tasks,
     decision |-> Decision(r),
     designs |-> [s \in DOMAIN r.tasks |-> DesignOf(s, r.tasks[s], Decision(r))],
     discount |-> 1, cap |-> 4]    \* in quarters; effective pairs

\* validate_gate_plan.
DesignValid(need, d) ==
    IF need = "NOT_APPLICABLE" THEN d = Pairs(0, 0, 0)
    ELSE d.min >= 1 /\ d.max >= d.min /\ d.batch >= 1
Valid(b) ==
    LET d == b.decision
    IN  /\ \A s \in DOMAIN b.designs : DesignValid(b.need, b.designs[s])
        /\ d.min <= d.max
        /\ IF d.max = 0 THEN b.need = "NOT_APPLICABLE" /\ d.batch = 0 ELSE d.min >= 1 /\ d.batch >= 1
        /\ b.need = "REQUIRED" => d.max >= d.power
        /\ \A s \in DOMAIN b.tasks : b.tasks[s] >= 1
\* A power analysis needs a batch.
Plannable(r) == Presets[r.risk].need = "REQUIRED" => Or(r.batch, Presets[r.risk].batch) >= 1

\* plan_observed_gate stores the plan with the hash of its body.
PlanGate ==
    LET r == scene.request
    IN  /\ plan = None /\ Plannable(r) /\ Valid(Body(r, scene.subject))
        /\ plan' = [body |-> Body(r, scene.subject), sha |-> Body(r, scene.subject)]
        /\ UNCHANGED <<scene, gates, registry, assessment, edits>>

\* Someone edits the pairs of a suite or the weight of history, with or without
\* making the hash anew.
EditPlan ==
    /\ plan # None /\ edits < MaxEdits /\ edits' = edits + 1
    /\ \E s \in DOMAIN plan.body.designs, n \in {1, 4} :
         LET b == [plan.body EXCEPT !.designs[s] = Pairs(2, 6, 4), !.discount = n]
         IN  plan' \in {[body |-> b, sha |-> plan.sha], [body |-> b, sha |-> b]}
    /\ UNCHANGED <<scene, gates, registry, assessment>>

\* load_gate_plan
Loads == plan # None /\ plan.sha = plan.body /\ Valid(plan.body)

---------------------------------------------------------------------------
(* Gates and their history.                                                 *)

\* A gate of the plan measures a suite and passes or fails.
RunGate ==
    /\ Loads /\ plan.body.need # "NOT_APPLICABLE" /\ Len(gates) < scene.gates
    /\ \E s \in DOMAIN plan.body.designs, pass \in BOOLEAN :
         \E n \in {plan.body.designs[s].min, plan.body.designs[s].max} :
           gates' = Append(gates, [plan |-> plan.body, suite |-> s, usable |-> n, pass |-> pass])
    /\ UNCHANGED <<scene, plan, registry, assessment, edits>>

\* What an entry has to agree with, one by one.
Identity(b, s) == [subject |-> b.subject, suite |-> s, stopping |-> b]
\* Others enter a gate, perhaps once more, or with a part of its identity as it is
\* elsewhere.
Enter ==
    /\ Len(registry) < scene.gates
    /\ \E g \in DOMAIN gates, drifted \in BOOLEAN :
         LET id == Identity(gates[g].plan, gates[g].suite)
         IN  registry' = Append(registry,
               [source |-> g, pass |-> gates[g].pass, usable |-> gates[g].usable,
                identity |-> IF drifted THEN [id EXCEPT !.subject = None] ELSE id])
    /\ UNCHANGED <<scene, plan, gates, assessment, edits>>

EntryValid(e) == e.pass
\* registry_sha256: verified, passing gates, each entered once.
RegistryValid ==
    /\ \A i \in DOMAIN registry : EntryValid(registry[i])
    /\ \A i, j \in DOMAIN registry : registry[i].source = registry[j].source => i = j

Eligible(s) == {i \in DOMAIN registry : registry[i].identity = Identity(plan.body, s)}
Effective(i) == Least(plan.body.cap, (registry[i].usable * plan.body.discount) \div 4)
Assess ==
    /\ Loads /\ RegistryValid
    /\ \E s \in DOMAIN plan.body.designs :
         assessment' =
           [plan |-> plan.body, suite |-> s, records |-> Cardinality(Eligible(s)),
            rejected |-> Len(registry) - Cardinality(Eligible(s)),
            raw |-> MapThenSumSet(LAMBDA i : registry[i].usable, Eligible(s)),
            effective |-> Least(plan.body.cap, MapThenSumSet(Effective, Eligible(s)))]
    /\ UNCHANGED <<scene, plan, gates, registry, edits>>

Next == PlanGate \/ EditPlan \/ RunGate \/ Enter \/ Assess
Spec == Init /\ [][Next]_vars
---------------------------------------------------------------------------
(* Properties.                                                              *)

Looks(d) == CeilDiv(d.max, d.batch)
Built == plan # None /\ edits = 0 /\ plan.body.need # "NOT_APPLICABLE"

\* A plan as it was built can be run: every look is a whole number of runs of a
\* suite's tasks, the last one too; core is looked at once, every task of it; and
\* fitting the pairs to the tasks takes no pairs away and adds no look, so that a
\* suite is tested at least as its power analysis assumed.
PlansCanBeRun ==
    Built => \A s \in DOMAIN plan.body.designs :
        LET d == plan.body.designs[s]
            k == plan.body.tasks[s]
        IN  /\ \A n \in {d.min, d.max, d.batch} : n % k = 0
            /\ IF s = "core" THEN d.max = k /\ Looks(d) = 1
               ELSE /\ d.min >= plan.body.decision.min /\ d.max >= plan.body.decision.max
                    /\ d.max >= plan.body.decision.power
                    /\ Looks(d) <= Looks(plan.body.decision)

\* Pairs that gates of the very plan really measured, no gate counted twice.
Measured(a) ==
    MapThenSumSet(LAMBDA g : gates[g].usable,
                  {g \in DOMAIN gates : gates[g].plan = a.plan /\ gates[g].suite = a.suite})
\* History is worth what it was: an assessment counts no pair that a gate of that
\* plan did not measure, none twice, and at most a share of them, however the
\* registry or the plan was edited; it is of a plan that can still be loaded as it was.
HistoryIsBounded ==
    assessment # None =>
        /\ assessment.raw <= Measured(assessment)
        /\ 4 * assessment.effective <= assessment.plan.discount * assessment.raw
        /\ assessment.effective <= assessment.plan.cap
        /\ Valid(assessment.plan)
=============================================================================
