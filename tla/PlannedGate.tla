---------------------------- MODULE PlannedGate ----------------------------
(***************************************************************************)
(* `aet learn gate --gate-plan` (learn.py, gate_observed and               *)
(* _execute_planned_gate): the suites of a candidate are measured one      *)
(* after another, each in looks of fresh paired rollouts, and after each   *)
(* look a sequential test of the pairs decides whether to                  *)
(* stop.  The first suite that does not pass decides the gate.             *)
(*                                                                         *)
(* A look is one call of replay_observed, which ObservedReplay models; here*)
(* it returns the outcomes of its pairs.                                   *)
(***************************************************************************)
EXTENDS Integers, FiniteSets, Sequences

(***************************************************************************)
(* The paired statistics (learn_statistics.py): what one look at the       *)
(* accumulated pairs decides.  A pair is a baseline and a candidate        *)
(* rollout of the same task; only how many pairs came out which way        *)
(* matters.  Probabilities are compared as integers: a p-value is a count  *)
(* of outcomes over 2^n, alpha and mcid are fractions.                     *)
(***************************************************************************)

CONSTANTS
    AlphaNum, AlphaDen,   \* alpha = AlphaNum / AlphaDen
    McidNum, McidDen      \* the smallest gain that matters

FractionAssumption ==
    /\ AlphaNum \in Nat \ {0} /\ AlphaDen \in Nat /\ AlphaNum < AlphaDen
    /\ McidNum \in Nat \ {0} /\ McidDen \in Nat /\ McidNum < McidDen

\* How many pairs: candidate better, worse, both passed, both failed, and with
\* an infrastructure error; and whether any pair shows a hard regression.
Tallies ==
    [better : Nat, worse : Nat, both : Nat, neither : Nat, infra : Nat, hard : BOOLEAN]
NoPairs == [better |-> 0, worse |-> 0, both |-> 0, neither |-> 0, infra |-> 0, hard |-> FALSE]

Usable(t) == t.better + t.worse + t.both + t.neither
PairCount(t) == Usable(t) + t.infra

\* math.comb(n, k), for k <= n.
Choose(n, k) ==
    LET c[i \in 0..k] == IF i = 0 THEN 1 ELSE (c[i - 1] * (n - i + 1)) \div i
    IN  c[k]

\* The ways n fair coins show from lo to hi heads.
WaysBetween(n, lo, hi) ==
    LET sum[k \in (lo - 1)..n] == IF k < lo THEN 0 ELSE sum[k - 1] + Choose(n, k)
    IN  IF hi < lo THEN 0 ELSE sum[hi]

\* Defective variant: alpha is not divided by the looks.
BetterAtOneLook(better, worse, looks) ==
    LET n == better + worse
    IN  n > 0 /\ WaysBetween(n, better, n) * AlphaDen <= AlphaNum * 2^n

\* _mcnemar_directional(better, worse) <= alpha / looks
SignificantlyBetter(better, worse, looks) ==
    LET n == better + worse
    IN  n > 0 /\ WaysBetween(n, better, n) * looks * AlphaDen <= AlphaNum * 2^n

\* gain >= mcid, the gain being a difference over a number of pairs.
GainMatters(difference, n) == difference * McidDen >= McidNum * (IF n = 0 THEN 1 ELSE n)

\* compare_pairs with the adoptable profile and a planned objective.
Compare(t, objective, required, looks) ==
    IF t.infra > 0 THEN "INFRASTRUCTURE_ERROR"
    ELSE IF Usable(t) < required THEN "INCONCLUSIVE"
    ELSE IF t.hard THEN "FAIL"
    ELSE IF objective = "no_regression"
         THEN IF t.worse + t.neither > 0 THEN "FAIL" ELSE "PASS"
    ELSE IF t.better < t.worse THEN "FAIL"
    ELSE IF /\ GainMatters(t.better - t.worse, Usable(t))
            /\ SignificantlyBetter(t.better, t.worse, looks)
         THEN "PASS" ELSE "INCONCLUSIVE"

\* A plan for one suite: objective, min_pairs, max_pairs, batch_size, task_count.
\* alpha_spending_schedule: alpha is divided by the number of looks.
CeilDiv(a, b) == (a + b - 1) \div b
PlannedLooks(p) == CeilDiv(p.max, p.batch)

\* _success_still_reachable: at some later look, if every pair to come is better.
StillReachable(p, t) ==
    \E k \in 1..CeilDiv(p.max, p.batch) :
        LET future == IF PairCount(t) + k * p.batch < p.max
                      THEN PairCount(t) + k * p.batch ELSE p.max
            added == future - PairCount(t)
        IN  /\ PairCount(t) + k * p.batch < p.max + p.batch
            /\ future >= p.min
            /\ GainMatters(t.better + added - t.worse, future)
            /\ SignificantlyBetter(t.better + added, t.worse, PlannedLooks(p))

Stop(status, reason) == [status |-> status, reason |-> reason]
\* sequential_decision
Decide(p, t) ==
    LET status == Compare(t, p.objective, p.min, PlannedLooks(p))
    IN  IF t.hard THEN Stop("FAIL", "HARD_REGRESSION")
        ELSE IF status = "INFRASTRUCTURE_ERROR" THEN Stop(status, "INFRASTRUCTURE_ABORT")
        ELSE IF status = "FAIL" THEN Stop(status, "REGRESSION_BOUNDARY")
        ELSE IF status = "PASS" THEN Stop(status, "SUCCESS_BOUNDARY")
        ELSE IF PairCount(t) >= p.max THEN Stop("INCONCLUSIVE", "MAX_SAMPLE_INCONCLUSIVE")
        ELSE IF p.objective # "no_regression" /\ ~StillReachable(p, t)
             THEN Stop("INCONCLUSIVE", "FUTILITY_BOUNDARY")
        ELSE Stop("CONTINUE", "EVIDENCE_PENDING")

(***************************************************************************)
(* The looks.                                                              *)
(***************************************************************************)

CONSTANTS
    Plans,     \* gate plans: [suites : the suites in order, of : suite -> design]
    MaxLooks   \* bound on the looks at a suite, above what any plan here takes

\* What validate_gate_plan asks of the design of a suite in an applicable plan.
Applicable(d) ==
    /\ d.objective \in {"no_regression", "superiority",
                        "confirmatory_superiority", "reliability"}
    /\ {d.min, d.max, d.batch, d.tasks} \subseteq Nat \ {0}
    /\ d.min <= d.max

PlanAssumption ==
    /\ MaxLooks \in Nat
    /\ \A g \in Plans :
         /\ g.suites \in Seq(DOMAIN g.of) /\ Len(g.suites) > 0
         /\ \A n \in 1..Len(g.suites) : Applicable(g.of[g.suites[n]])

VARIABLES
    plan,      \* the gate plan: read once, it never changes
    verdict,   \* the status of the gate report, or "RUNNING"
    done,      \* comparisons: the tally and the stop of each finished suite
    look,      \* looks taken at the current suite
    tally,     \* the pairs accumulated for the current suite
    seen       \* iterations of the current suite measured so far, by look

gateVars == <<plan, verdict, done, look, tally, seen>>

Suites == plan.suites
Plan == plan.of
Current == Suites[Len(done) + 1]

\* The batches of a design, and the most pairs, are whole runs of its tasks: so
\* build_gate_plan makes them, but validate_gate_plan does not ask for it.
Aligned(p) == p.batch % p.tasks = 0 /\ p.max % p.tasks = 0

GateInit ==
    /\ plan \in Plans
    /\ verdict = "RUNNING"
    /\ done = <<>>
    /\ look = 0
    /\ tally = NoPairs
    /\ seen = <<>>

\* The deterministic checks of the candidate fail: no host is run.
FailPreflight ==
    /\ verdict = "RUNNING" /\ done = <<>> /\ look = 0
    /\ verdict' = "FAIL"
    /\ UNCHANGED <<plan, done, look, tally, seen>>

Smaller(a, b) == IF a <= b THEN a ELSE b

\* The rollouts of the next look of a suite with plan p.
Rollouts(p) ==
    LET n == Smaller(p.batch, p.max - PairCount(tally)) \div p.tasks
    IN  IF n = 0 THEN 1 ELSE n

\* Defective variant: the iterations start again at every look.
FromZero(p) == 0

\* iteration_offset: pair_offset // task_count
Offset(p) == PairCount(tally) \div p.tasks

Plus(t, u) ==
    [better |-> t.better + u.better, worse |-> t.worse + u.worse,
     both |-> t.both + u.both, neither |-> t.neither + u.neither,
     infra |-> t.infra + u.infra, hard |-> t.hard \/ u.hard]

\* The decision on the pairs accumulated, the last of them of these iterations.
Observe(p, t, iterations) ==
    /\ UNCHANGED plan
    /\ \E stop \in {Decide(p, t)} :
         IF stop.status = "CONTINUE" /\ PairCount(t) < p.max
         THEN /\ tally' = t
              /\ look' = look + 1
              /\ seen' = Append(seen, iterations)
              /\ UNCHANGED <<verdict, done>>
         ELSE /\ done' = Append(done, [suite |-> Current, tally |-> t, stop |-> stop,
                                       looks |-> look + 1, seen |-> Append(seen, iterations)])
              /\ verdict' = IF stop.status # "PASS" THEN stop.status
                            ELSE IF Len(done') = Len(Suites) THEN "PASS" ELSE "RUNNING"
              /\ tally' = NoPairs /\ look' = 0 /\ seen' = <<>>

\* One turn of the loop: a replay, whatever its pairs show, then the decision.
Look ==
    LET p == Plan[Current]
        n == Rollouts(p)
        pairs == n * p.tasks
    IN  /\ verdict = "RUNNING" /\ look < MaxLooks
        /\ \E b \in 0..pairs : \E w \in 0..(pairs - b) : \E o \in 0..(pairs - (b + w)) :
           \E x \in 0..(pairs - (b + w + o)), hard \in BOOLEAN :
             \E batch \in {[better |-> b, worse |-> w, both |-> o, neither |-> x,
                            infra |-> pairs - (b + w + o + x), hard |-> hard]} :
                /\ hard => Usable(batch) > 0
                /\ Observe(p, Plus(tally, batch), Offset(p)..(Offset(p) + n - 1))

GateNext == FailPreflight \/ Look

GateSpec == GateInit /\ [][GateNext]_gateVars

\* The gate is a loop of one process.
FairGateSpec == GateSpec /\ WF_gateVars(Look)
---------------------------------------------------------------------------
(* Properties.                                                              *)

GateTypeOK ==
    /\ plan \in Plans
    /\ verdict \in {"RUNNING", "PASS", "FAIL", "INCONCLUSIVE", "INFRASTRUCTURE_ERROR"}
    /\ \A n \in 1..Len(done) : done[n].suite = Suites[n] /\ done[n].tally \in Tallies
    /\ look \in Nat
    /\ tally \in Tallies
    /\ Len(seen) = look

\* All the ways a suite can go on from better, worse and n pairs, none of them
\* with an error or a hard regression: whether one passes at some later look.
CanStillPass(p, t) ==
    LET step == p.batch
        can[n \in 0..(p.max + step), b \in 0..(p.max + step), w \in 0..(p.max + step)] ==
            /\ n < p.max
            /\ LET m == Smaller(n + step, p.max)
               IN  \E db \in 0..(m - n), dw \in 0..(m - n) :
                     /\ db + dw <= m - n
                     /\ \/ Compare([NoPairs EXCEPT !.better = b + db, !.worse = w + dw,
                                                   !.both = m - (b + db + w + dw)],
                                   p.objective, p.min, PlannedLooks(p)) = "PASS"
                        \/ can[m, b + db, w + dw]
    IN  can[PairCount(t), t.better, t.worse]

\* A suite is given up as futile exactly when no outcome of the pairs still
\* planned could make it pass (_success_still_reachable tries only the best).
FutilityIsSound ==
    /\ \A n \in 1..Len(done) :
         done[n].stop.reason = "FUTILITY_BOUNDARY"
             => ~CanStillPass(Plan[done[n].suite], done[n].tally)
    /\ (verdict = "RUNNING" /\ look > 0 /\ Plan[Current].objective # "no_regression")
             => CanStillPass(Plan[Current], tally)

\* A gate passes only if every suite does, and then no pair of any suite had an
\* infrastructure error, core did not regress at all, and each suite has the pairs
\* its plan asks for, whatever the order of looks; and a hard regression in any
\* pair fails the gate, however few pairs there are.
VerdictIsEarned ==
    /\ verdict = "PASS" => Len(done) = Len(Suites)
    /\ \A n \in 1..Len(done) :
         LET p == Plan[done[n].suite]
             t == done[n].tally
         IN  /\ t.hard => verdict = "FAIL"
             /\ verdict = "PASS" =>
                  /\ t.infra = 0
                  /\ Usable(t) >= p.min
                  /\ p.objective = "no_regression" => t.worse = 0 /\ t.neither = 0
                  /\ p.objective # "no_regression" => t.better > t.worse

\* No iteration of a task is measured in two looks of a suite ("Fresh pairs only
\* enter the decision"), and where batches and the most pairs are whole runs of the
\* tasks there are never more looks than alpha was divided by ("Dividing alpha across
\* the maximum number of looks", learn_statistics.py:75; otherwise there may be).
LooksAreFresh ==
    /\ GateTypeOK
    /\ \A n \in 1..Len(done) :
         LET p == Plan[done[n].suite]
             s == done[n].seen
         IN  /\ \A i, j \in 1..Len(s) : i # j => s[i] \cap s[j] = {}
             /\ Aligned(p) => done[n].looks <= PlannedLooks(p)

\* A verdict follows from the pairs, and no pair counts twice.
VerdictsAreEarned == VerdictIsEarned /\ LooksAreFresh

\* With no true difference, the chance that a suite passes at some look is at
\* most alpha, whichever pairs are concordant: ties[k] of the pairs of look k
\* are, and each of the others is better or worse with equal chance.  The
\* discordant outcomes that pass are counted against all of them.
Fresh(p, k) == Smaller(p.batch, p.max - (k - 1) * p.batch)
Passing(p, ties) ==
    LET looks == PlannedLooks(p)
        discordant(k) == Fresh(p, k) - ties[k]
        rest[k \in 1..(looks + 1)] == IF k > looks THEN 0 ELSE discordant(k) + rest[k + 1]
        count[k \in 0..looks, b \in 0..p.max, w \in 0..p.max] ==
            IF k > 0 /\ Compare([NoPairs EXCEPT !.better = b, !.worse = w,
                                                !.both = Smaller(k * p.batch, p.max) - b - w],
                                p.objective, p.min, looks) = "PASS"
            THEN 2^rest[k + 1]
            ELSE IF k = looks THEN 0
            ELSE LET d == discordant(k + 1)
                     sum[db \in 0..d] ==
                        Choose(d, db) * count[k + 1, b + db, w + (d - db)]
                            + IF db = 0 THEN 0 ELSE sum[db - 1]
                 IN  sum[d]
    IN  [good |-> count[0, 0, 0], of |-> 2^rest[1]]

FalsePassesWithinAlpha ==
    look = 1 =>
        LET p == Plan[Current]
        IN  (p.objective # "no_regression" /\ Aligned(p)) =>
            \A ties \in [1..PlannedLooks(p) -> 0..p.batch] :
                (\A k \in 1..PlannedLooks(p) : ties[k] <= Fresh(p, k)) =>
                    LET c == Passing(p, ties)
                    IN  c.good * AlphaDen <= AlphaNum * c.of

\* Every gate comes to a verdict.
EveryGateDecides == <>(verdict # "RUNNING")
=============================================================================
