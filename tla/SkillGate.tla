----------------------------- MODULE SkillGate -----------------------------
(***************************************************************************)
(* Candidates of a Skill and their gates (learn.py, gate_plan.py,          *)
(* evolution/candidate.py): candidates are proposed from mined patterns or *)
(* written by hand, checked against the Skill by the static gate, planned  *)
(* for, and measured by the observed gate and the tournament, while the    *)
(* Skill, the candidates, the suites, the host and the scorer change.      *)
(*                                                                         *)
(* A replay is one step that gives its status and its gain (ObservedReplay *)
(* models it), and so is the loop of looks of a planned gate (PlannedGate).*)
(* A digest stands for what it is taken of.                                *)
(***************************************************************************)
EXTENDS SkillText

CONSTANTS
    Dirs,            \* candidate directories
    Statuses,        \* what a replay may come to
    FlaggedWords,    \* words the audit rules report in a Skill
    InitialSkills,   \* texts the Skill may start with
    Additions,       \* lines the rules engine may add
    Answers,         \* answers of the model
    HandWritten,     \* [text, ops] a hand-made candidate may have
    Forms,           \* and its form: "v1", "v2", or "v2" that needs no human ("alone")
    Edits,           \* texts an editor may leave in the Skill or in a candidate
    InitialSuites,   \* suites to start with: name -> tasks
    NewSuites,       \* suites their owner may put in the place of those
    MaxWordGrowth,   \* words a candidate may add (180)
    Command,         \* the word that is a use of the toolkit
    MaxTurns, MaxDrifts,   \* bounds: commands given, changes of the surroundings
    Null

VARIABLES
    skill,     \* the text of the target
    dirs,      \* dirs[d]: [manifest, text] or Null
    suites,    \* suites[n]: a sequence of tasks, for "core", "validation", "held_out"
    host,      \* [version, scorer]: what runs and scores a rollout
    plan,      \* the gate plan on disk, or Null
    job,       \* the command that is running, or Null
    replays,   \* replay directories on disk: <<command, suite, candidate id>>
    reports,   \* the gates written
    given      \* turns and drifts so far

gateVars == <<skill, dirs, suites, host, plan, job, replays, reports, given>>

Names == <<"core", "validation", "held_out">>
Good == {"PASS", "PRELIMINARY"}

---------------------------------------------------------------------------
(* Candidates.                                                              *)

Manifest(version, id, base, text, ops, human) ==
    [version |-> version, id |-> id, base |-> base, sha |-> text, ops |-> ops, human |-> human]

\* _validate_v2: as many operations as may be, and adoption left to a human.
ValidManifest(m) == Len(m.ops) \in 1..MaxOperations /\ m.human

\* load_candidate, for a manifest of the second version: its artifact must have the
\* digest it names.  One of the first version is taken as it is.
Loads(c) ==
    c.manifest.version = "v2" => ValidManifest(c.manifest) /\ c.text = c.manifest.sha

Hard(c) == HardFailures(c.manifest.base, c.manifest.sha, c.manifest.ops, skill, c.text)
Flagged(c) == \E w \in FlaggedWords : Word(w) \in ToSet(c.text)
Usable(d) == dirs[d] # Null /\ Loads(dirs[d])

---------------------------------------------------------------------------
(* Suites.                                                                  *)

\* A suite is a directory of tasks: it holds finitely many.
ASSUME SuitesAreFinite ==
    \A s \in InitialSuites \cup NewSuites : \A n \in ToSet(Names) : IsFiniteSet(DOMAIN s[n])

Tasks(name) == ToSet(suites[name])
Files(name) == {[t EXCEPT !.fixture = "any"] : t \in Tasks(name)}
Observed(name) == {t \in Tasks(name) : t.observed}
ObservedAt(name) == {i \in DOMAIN suites[name] : suites[name][i].observed}
TaskIds(tasks) == {t.id : t \in tasks}

\* validate_learn_task_v2: what a task's contract may and must say.
ValidTask(t) == t.valid

\* _observed_suite_binding and the preflight of the tasks: a suite can be run.
Runnable(name) ==
    /\ Observed(name) # {}
    /\ \A t \in Observed(name) : ValidTask(t) /\ t.fixture \notin {"missing", "link"}
    /\ Cardinality(TaskIds(Observed(name))) = Cardinality(ObservedAt(name))

\* verify_suite, which runs nothing: no task twice, and every fixture there.
VerifiedSuite(name) ==
    /\ Observed(name) # {}
    /\ \A t \in Observed(name) : ValidTask(t) /\ t.fixture # "missing"
    /\ \A i, j \in ObservedAt(name) : suites[name][i].id = suites[name][j].id => i = j

\* _reject_suite_overlap
Overlap ==
    \E m, n \in ToSet(Names) :
        m # n /\ (Files(m) \cap Files(n) # {} \/ TaskIds(Observed(m)) \cap TaskIds(Observed(n)) # {})

\* What a replay is bound to.
Binding(c, name) ==
    [id |-> c.manifest.id, base |-> c.manifest.base, sha |-> c.manifest.sha,
     suite |-> Observed(name), host |-> host]

---------------------------------------------------------------------------
GateInit ==
    /\ skill \in InitialSkills
    /\ dirs = [d \in Dirs |-> Null]
    /\ suites \in InitialSuites
    /\ host = [version |-> 1, scorer |-> 1]
    /\ plan = Null /\ job = Null
    /\ replays = {} /\ reports = {}
    /\ given = [turns |-> 0, drifts |-> 0]

Turn ==
    /\ job = Null /\ given.turns < MaxTurns
    /\ given' = [given EXCEPT !.turns = @ + 1]
\* Something changes around a command that may be running.
Drift(touches) ==
    /\ given.drifts < MaxDrifts
    /\ given' = [given EXCEPT !.drifts = @ + 1]
    /\ job' = IF job = Null THEN Null
              ELSE [job EXCEPT !.touched = @ \/ touches, !.drifted = @ \/ job.step = "gate"]

(* Candidates come into being.                                              *)

\* propose
Propose(d) ==
    /\ Turn
    /\ Blocks(skill) # <<>>
    /\ \E p \in {ProposedByRules(skill, a) : a \in Additions}
                  \cup {ProposedByModel(skill, a) : a \in {b \in Answers : ModelAnswers(skill, b)}} :
         dirs' = [dirs EXCEPT ![d] =
                    [manifest |-> Manifest("v2", p.text, skill, p.text, p.ops, TRUE),
                     text |-> p.text]]
    /\ UNCHANGED <<skill, suites, host, plan, job, replays, reports>>

\* Someone writes a candidate, of either version, for the Skill as it is.
HandMake(d) ==
    /\ Turn
    /\ \E h \in HandWritten, v \in Forms :
         dirs' = [dirs EXCEPT ![d] =
                    [manifest |-> Manifest(IF v = "v1" THEN v ELSE "v2", h.text, skill, h.text,
                                           h.ops, v # "alone"),
                     text |-> h.text]]
    /\ UNCHANGED <<skill, suites, host, plan, job, replays, reports>>

(* What a gate rests on changes, also while a command runs.                 *)

EditSkill ==
    /\ Drift(TRUE)
    /\ skill' \in Edits \ {skill}
    /\ UNCHANGED <<dirs, suites, host, plan, replays, reports>>
EditCandidate(d) ==
    /\ Drift(TRUE) /\ dirs[d] # Null
    /\ \E t \in Edits \ {dirs[d].text} : dirs' = [dirs EXCEPT ![d].text = t]
    /\ UNCHANGED <<skill, suites, host, plan, replays, reports>>
EditSuites ==
    /\ Drift(FALSE)
    /\ suites' \in NewSuites \ {suites}
    /\ UNCHANGED <<skill, dirs, host, plan, replays, reports>>
Upgrade(what) ==
    /\ Drift(FALSE)
    /\ host' = [host EXCEPT ![what] = @ + 1]
    /\ UNCHANGED <<skill, dirs, suites, plan, replays, reports>>

---------------------------------------------------------------------------
(* The static gate: the tasks name words a Skill must and must not have.    *)

\* _evaluate
Passed(text, t) ==
    /\ t.required \subseteq ToSet(text)
    /\ t.forbidden \cap ToSet(text) = {}
Score(text, name) == Cardinality({t \in Tasks(name) : Passed(text, t)})

Words(text) == Len(SelectSeq(text, LAMBDA w : w[1] = "word"))
Uses(text) == Len(SelectSeq(text, LAMBDA w : w = Word(Command)))
Overuse(text) == Cardinality({t \in Tasks("validation") : t.overuse /\ ~Passed(text, t)})

\* _cost_metrics, and what gate makes of them.
TooCostly(t, p) ==
    \/ Words(p) - Words(t) > MaxWordGrowth /\ 10 * (Words(p) - Words(t)) > Words(t)
    \/ Uses(p) - Uses(t) > 1
    \/ Overuse(p) > Overuse(t)

StaticPass(c) ==
    /\ Hard(c) = {} /\ ~Flagged(c)
    /\ Files("validation") \cap Files("held_out") = {}
    /\ ~TooCostly(skill, c.text)
    /\ \A n \in ToSet(Names) : Score(c.text, n) >= Score(skill, n)
    /\ \E n \in {"validation", "held_out"} : Score(c.text, n) > Score(skill, n)

\* What a gate of candidate c writes: the replays it rests on, and what changed
\* meanwhile (history).
Report(kind, c, status, measured, planned) ==
    [kind |-> kind, id |-> c.manifest.id, base |-> c.manifest.base, sha |-> c.manifest.sha,
     status |-> status, measured |-> measured, plan |-> planned,
     touched |-> job # Null /\ job.touched, drifted |-> job # Null /\ job.drifted]

StaticGate(d) ==
    /\ Turn /\ Usable(d)
    /\ reports' = reports \cup {Report("static", dirs[d],
                                       IF StaticPass(dirs[d]) THEN "PASS" ELSE "FAIL", <<>>, Null)}
    /\ UNCHANGED <<skill, dirs, suites, host, plan, job, replays>>

---------------------------------------------------------------------------
(* Replays and gate plans.                                                  *)

\* A replay of the candidate in directory d, read anew: what it is bound to, the
\* texts it really ran, and what came of it.
Replay(d, name, status, gain) ==
    [name |-> name, binding |-> Binding(dirs[d], name), ran |-> <<skill, dirs[d].text>>,
     status |-> status, gain |-> gain]

\* replay_observed ends with an error: a directory of that name is there.
CanReplay(d, name) ==
    /\ Usable(d) /\ Runnable(name)
    /\ <<job.kind, name, dirs[d].manifest.id>> \notin replays
Replayed(d, name) == replays' = replays \cup {<<job.kind, name, dirs[d].manifest.id>>}

\* plan_observed_gate and build_gate_plan: suites that are apart, each with the
\* tasks it has now; a candidate of no risk needs no gate.
PlanGate(d) ==
    /\ Turn /\ Usable(d)
    /\ ~Overlap /\ \A n \in ToSet(Names) : Runnable(n)
    /\ \E risk \in {"NOT_APPLICABLE", "PRELIMINARY", "REQUIRED"} :
         plan' = [applicability |-> risk,
                  bindings |-> [n \in ToSet(Names) |-> Binding(dirs[d], n)]]
    /\ UNCHANGED <<skill, dirs, suites, host, job, replays, reports>>

\* _verify_plan_runtime
PlanHolds(c) ==
    \A n \in ToSet(Names) : Runnable(n) /\ plan.bindings[n] = Binding(c, n)

---------------------------------------------------------------------------
(* The observed gate.                                                       *)

NoJob == [kind |-> "gate", step |-> "gate", dir |-> Null, queue |-> <<>>, rows |-> {},
          cache |-> {}, cand |-> Null, plan |-> Null, measured |-> <<>>,
          touched |-> FALSE, drifted |-> FALSE]

\* gate_observed reads the candidate and makes its deterministic checks: a report
\* at once, or a job that measures suite after suite.
Open(j, d) ==
    LET c == dirs[d]
        gate == [j EXCEPT !.step = "gate", !.dir = d, !.cand = c]
        failed == Hard(c) # {} \/ Flagged(c) \/ Overlap
    IN  IF failed \/ (j.plan # Null /\ j.plan.applicability = "NOT_APPLICABLE")
        THEN /\ job' = Null
             /\ reports' = reports \cup
                  {[Report(j.kind, c, IF failed THEN "FAIL" ELSE "NOT_APPLICABLE", <<>>, j.plan)
                    EXCEPT !.touched = j.touched]}
        ELSE job' = gate /\ UNCHANGED reports

GateObserved(d) ==
    /\ Turn /\ Usable(d)
    /\ Open(NoJob, d)
    /\ UNCHANGED <<skill, dirs, suites, host, plan, replays>>

\* With a plan: only while all it binds is as it was.
GatePlanned(d) ==
    /\ Turn /\ Usable(d) /\ plan # Null
    /\ (Hard(dirs[d]) = {} /\ ~Flagged(dirs[d]) /\ ~Overlap) => PlanHolds(dirs[d])
    /\ Open([NoJob EXCEPT !.kind = "planned", !.plan = plan], d)
    /\ UNCHANGED <<skill, dirs, suites, host, plan, replays>>

\* Defective variant: the suite measured last decides.
VerdictOfLast(measured) == Last(measured).status

\* What the statuses of the suites come to; a planned gate ends with the first
\* suite that does not pass.
Verdict(measured) ==
    LET statuses == {m.status : m \in ToSet(measured)}
    IN  IF statuses = {"PASS"}
        THEN IF job.plan # Null /\ job.plan.applicability = "PRELIMINARY" THEN "PRELIMINARY" ELSE "PASS"
        ELSE IF "INFRASTRUCTURE_ERROR" \in statuses THEN "INFRASTRUCTURE_ERROR"
        ELSE IF statuses \cap {"INCONCLUSIVE", "PRELIMINARY"} # {} THEN "INCONCLUSIVE"
        ELSE "FAIL"
Over(measured) ==
    \/ Len(measured) = Len(Names)
    \/ job.plan # Null /\ Last(measured).status # "PASS"

Measured(replay) ==
    LET measured == Append(job.measured, replay)
    IN  IF Over(measured)
        THEN /\ job' = Null
             /\ reports' = reports \cup
                  {Report(job.kind, job.cand, Verdict(measured), measured, job.plan)}
        ELSE job' = [job EXCEPT !.measured = measured] /\ UNCHANGED reports

Current == Names[Len(job.measured) + 1]
SameVersion(replay) ==
    \A m \in ToSet(job.measured) : m.binding.host.version = replay.binding.host.version
Cached(name) == {r \in job.cache : r.name = name /\ r.binding.id = job.cand.manifest.id}

\* _verify_precomputed_replay
Verifies(r) == r.binding = Binding(job.cand, r.name)

Measuring(name) ==
    /\ job # Null /\ job.step = "gate"
    /\ name = Current
    /\ UNCHANGED <<skill, dirs, suites, host, plan, given>>

\* A suite that the tournament has replayed already.
MeasureCached ==
    \E r \in IF job = Null THEN {} ELSE job.cache :
        /\ Measuring(r.name) /\ r \in Cached(r.name)
        /\ Verifies(r) /\ Runnable(r.name) /\ SameVersion(r)
        /\ Measured(r)
        /\ UNCHANGED replays

MeasureFresh ==
    \E n \in ToSet(Names), status \in Statuses :
        /\ Measuring(n) /\ Cached(n) = {}
        /\ CanReplay(job.dir, n)
        /\ LET r == Replay(job.dir, n, status, 0)
           IN  SameVersion(r) /\ Measured(r)
        /\ Replayed(job.dir, n)

---------------------------------------------------------------------------
(* The tournament.                                                          *)

Tournament ==
    /\ Turn
    /\ \E d, e \in Dirs :
         /\ d # e
         /\ job' = [NoJob EXCEPT !.kind = "tournament", !.step = "check", !.queue = <<d, e>>]
    /\ UNCHANGED <<skill, dirs, suites, host, plan, replays, reports>>

InRound(step) ==
    /\ job # Null /\ job.kind = "tournament" /\ job.step = step /\ job.queue # <<>>
    /\ UNCHANGED <<skill, dirs, suites, host, plan, reports, given>>
Passes(to) == job' = [job EXCEPT !.step = to]
Row(d, status, gain) ==
    [dir |-> d, id |-> dirs[d].manifest.id, status |-> status, gain |-> gain,
     ops |-> Len(dirs[d].manifest.ops), added |-> Words(dirs[d].text) - Words(skill)]
EndsRound(row, cache) ==
    job' = [job EXCEPT !.step = "check", !.queue = Tail(@), !.rows = @ \cup {row},
                       !.cache = cache]

\* The deterministic checks come before any replay.
CheckCandidate ==
    LET d == Head(job.queue)
    IN  /\ InRound("check") /\ Usable(d)
        /\ IF Hard(dirs[d]) = {} /\ ~Flagged(dirs[d]) THEN Passes("core")
           ELSE EndsRound(Row(d, "FAIL", 0), job.cache)
        /\ UNCHANGED replays

ReplayCore ==
    LET d == Head(job.queue)
    IN  /\ InRound("core") /\ CanReplay(d, "core")
        /\ \E status \in Statuses :
             LET r == Replay(d, "core", status, 0)
             IN  IF status \in Good
                 THEN job' = [job EXCEPT !.step = "validation", !.cache = @ \cup {r}]
                 ELSE EndsRound(Row(d, status, 0), job.cache)
        /\ Replayed(d, "core")

ReplayValidation ==
    LET d == Head(job.queue)
    IN  /\ InRound("validation") /\ CanReplay(d, "validation")
        /\ \E status \in Statuses, gain \in {0, 1} :
             EndsRound(Row(d, status, gain),
                   job.cache \cup {Replay(d, "validation", status, gain)})
        /\ Replayed(d, "validation")

\* The order of the finalists, up to their ids.
Better(a, b) ==
    \/ a.gain > b.gain
    \/ a.gain = b.gain /\ a.ops < b.ops
    \/ a.gain = b.gain /\ a.ops = b.ops /\ a.added < b.added
Finalists == {r \in job.rows : r.status \in Good}
Winners == {w \in Finalists : \A r \in Finalists : ~Better(r, w)}

\* Held-out is opened for the winner alone, by its gate.
Select ==
    /\ job # Null /\ job.kind = "tournament" /\ job.step = "check" /\ job.queue = <<>>
    /\ IF Finalists = {} THEN job' = Null /\ UNCHANGED reports
       ELSE \E w \in Winners : Usable(w.dir) /\ Open(job, w.dir)
    /\ UNCHANGED <<skill, dirs, suites, host, plan, replays, given>>

\* Whatever a command cannot go on with ends it with an error.
Stuck ==
    LET d == Head(job.queue)
        broken(name) == ~CanReplay(d, name)
    IN  \/ job.step = "gate" /\
             IF Cached(Current) # {}
             THEN \A r \in Cached(Current) : ~(Verifies(r) /\ Runnable(Current) /\ SameVersion(r))
             ELSE \/ ~CanReplay(job.dir, Current)
                  \/ ~SameVersion(Replay(job.dir, Current, "PASS", 0))
        \/ job.step = "check" /\ job.queue # <<>> /\ ~Usable(d)
        \/ job.step \in {"core", "validation"} /\ broken(job.step)
        \/ job.step = "check" /\ job.queue = <<>> /\ \E w \in Winners : ~Usable(w.dir)
Fail ==
    /\ job # Null /\ Stuck
    /\ job' = Null
    /\ UNCHANGED <<skill, dirs, suites, host, plan, replays, reports, given>>

GateNext ==
    \/ \E d \in Dirs :
         \/ Propose(d) \/ HandMake(d) \/ EditCandidate(d)
         \/ StaticGate(d) \/ PlanGate(d) \/ GateObserved(d) \/ GatePlanned(d)
    \/ EditSkill \/ EditSuites \/ \E what \in {"version", "scorer"} : Upgrade(what)
    \/ Tournament \/ CheckCandidate \/ ReplayCore \/ ReplayValidation \/ Select
    \/ MeasureCached \/ MeasureFresh \/ Fail

GateSpec == GateInit /\ [][GateNext]_gateVars
---------------------------------------------------------------------------
(* Properties.                                                              *)

OneOfEach(bs) == \A m, n \in DOMAIN bs : bs[m].id = bs[n].id => m = n
Applied(ops, t) ==
    LET bs == Blocks(t)
        by(n) == {o \in ToSet(ops) : o.id = bs[n].id}
    IN  Rewrite(t, [n \in DOMAIN bs |-> IF by(n) = {} THEN Body(t, bs[n])
                                        ELSE (CHOOSE o \in by(n) : TRUE).new])

\* A candidate, proposed or written by hand, that the deterministic checks let
\* through is its operations applied to the Skill, whatever markers are in its
\* texts, and neither an immutable block nor what a Skill must not say came of it.
\* (With two blocks of one id the first may be altered unseen.)
PatchIsReviewed ==
    \A d \in Dirs :
        (dirs[d] # Null /\ Hard(dirs[d]) = {} /\ OneOfEach(Blocks(skill))) =>
            /\ dirs[d].text = Applied(dirs[d].manifest.ops, skill)
            /\ Immutable(dirs[d].text) = Immutable(skill)
            /\ ~Forbidden(dirs[d].text)

\* An observed PASS rests on one passing replay of each suite, all with one
\* version of the host; and, where neither the Skill nor a candidate was edited
\* while the command ran, on rollouts of just the texts it names - in a tournament
\* too, whose replays are older than the gate.  What else changes between two
\* replays is noticed up to the gate, with a plan up to its first replay.
PassIsMeasured ==
    \A r \in reports :
        (r.status = "PASS" /\ r.kind # "static") =>
            /\ [n \in DOMAIN r.measured |-> r.measured[n].name] = Names
            /\ \A m, n \in ToSet(r.measured) :
                 /\ m.status = "PASS"
                 /\ m.binding.host.version = n.binding.host.version
                 /\ ~r.drifted => m.binding.host = n.binding.host
                 /\ (~r.drifted /\ m # n) => TaskIds(m.binding.suite) \cap TaskIds(n.binding.suite) = {}
                 /\ ~r.touched => m.ran = <<r.base, r.sha>>
                 /\ (r.kind = "planned" /\ ~r.drifted) => m.binding = r.plan.bindings[m.name]

\* What stage and adopt would accept now for a candidate was measured as it is.
StageableWasMeasured ==
    \A r \in reports : \A m \in ToSet(r.measured), d \in DOMAIN dirs :
        (/\ r.status = "PASS" /\ ~r.touched
         /\ dirs[d] # Null /\ Hard(dirs[d]) = {}
         /\ <<r.id, r.base, r.sha>> =
              <<dirs[d].manifest.id, dirs[d].manifest.base, dirs[d].manifest.sha>>) =>
            m.ran = <<skill, dirs[d].text>>

\* The suite kept for the end is opened for one candidate of a tournament, which
\* passed all before it and gained as much as any; and no suite that verify_suite
\* refuses is ever replayed.
HeldOutIsLast ==
    /\ (job # Null /\ job.kind = "tournament" /\ job.step = "gate") =>
         /\ job.queue = <<>>
         /\ \E w \in job.rows :
              /\ w.dir = job.dir /\ w.status \in Good
              /\ \A r \in job.rows : r.status \in Good => r.gain <= w.gain
              /\ {"core", "validation"} \subseteq {c.name : c \in {x \in job.cache :
                                                     x.status \in Good /\ x.binding.id = w.id}}
    /\ \A n \in ToSet(Names) : Runnable(n) => VerifiedSuite(n)

\* What the gates let through was measured as it is, and the suite kept for the end
\* was kept for it.
GatesAreEarned == PassIsMeasured /\ StageableWasMeasured /\ HeldOutIsLast
=============================================================================
