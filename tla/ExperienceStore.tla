--------------------------- MODULE ExperienceStore ---------------------------
(***************************************************************************)
(* What AET learns from (learn.py): `harvest` turns the reports of a       *)
(* directory, and those inside its containers, into experiences; `collect` *)
(* keeps them in a store that later harvests read again; `mine` groups     *)
(* them into patterns.  The user adds reports and removes them, and        *)
(* records feedback on a run.                                              *)
(*                                                                         *)
(* A report is a record: what it is of, its findings (pairs of a code and  *)
(* a status) and where it comes from.  Its form is "well", "malformed" (its *)
(* findings are no list) or "private" (a code holds a credential).  A hash *)
(* is what it is the hash of.                                              *)
(***************************************************************************)
EXTENDS Integers, FiniteSets

CONSTANTS
    Artifacts,      \* the reports and containers that may appear
    InitialStores,  \* what the store may start with: packs, each a set of rows
    ReasonCodes,    \* codes of a feedback
    MaxChanges,     \* bound on the changes of the directory
    MaxHarvests     \* bound on harvests

VARIABLES
    imported,   \* the packs the store starts with, each a set of rows
    runs,       \* the artifacts of the directory
    output,     \* experiences.json: its rows, and (history) the artifacts they are of
    store,      \* the packs of the experience store
    patterns,   \* patterns.json
    produced,   \* history: the artifacts there ever were
    harvested   \* changes of the directory and harvests so far

experienceVars == <<imported, runs, output, store, patterns, produced, harvested>>

Nothing == [kind |-> "none"]
HarvestKinds ==
    {"audit", "review", "trace", "evidence_pack", "aet_run", "learning_observed_replay",
     "learning_observed_score", "learning_feedback", "audit_feedback"}
Bad == {"FAIL", "UNKNOWN"}
Severity(status) == CASE status = "FAIL" -> 2 [] status = "UNKNOWN" -> 1 [] OTHER -> 0

---------------------------------------------------------------------------
(* Phenomena: the codes of what went wrong, each with its status.           *)

\* Defective variant: the first one of a code is kept.
MergePhenomenaDefect(phenomena) ==
    {p \in phenomena : \A q \in phenomena : q[1] = p[1] => Severity(p[2]) <= Severity(q[2])}

\* _merge_phenomena: the most severe of each code.
MergePhenomena(phenomena) ==
    {p \in phenomena : \A q \in phenomena : q[1] = p[1] => Severity(q[2]) <= Severity(p[2])}

StatusCode(kind, status) ==
    IF kind = "learning_observed_score"
    THEN IF status = "FAIL" THEN "OBSERVED_SCORE_FAIL" ELSE "OBSERVED_SCORE_UNKNOWN"
    ELSE IF status = "FAIL" THEN "REPORT_STATUS_FAIL" ELSE "REPORT_STATUS_UNKNOWN"
ComponentCode(status) ==
    IF status = "FAIL" THEN "EVIDENCE_COMPONENT_FAIL" ELSE "EVIDENCE_COMPONENT_UNKNOWN"

Phenomena(r) ==
    MergePhenomena(
        {f \in r.findings : f[2] \in Bad}
        \cup {<<c, "FAIL">> : c \in {c \in r.codes : r.kind = "learning_feedback" \/ r.graded}}
        \cup {<<"MISSING_TRACE_PROOF", "UNKNOWN">> : n \in {m \in {0} : r.gap}}
        \cup {<<"UNKNOWN_REQUIRES_PRESERVATION", "UNKNOWN">> : n \in {m \in {0} : r.unknowns}}
        \cup {<<StatusCode(r.kind, s), s>> :
                s \in {t \in Bad : r.status = t /\ r.kind # "evidence_component"}})

---------------------------------------------------------------------------
(* The reports of an artifact, each with the context it is found in.        *)

Context(place, repo, date) ==
    [place |-> place, wrapper |-> "none", repo |-> repo, date |-> date,
     task |-> "UNKNOWN", runner |-> "UNKNOWN", variant |-> "none"]

\* A component that failed without a report.
Component(status, date) ==
    [kind |-> "evidence_component", findings |-> {<<ComponentCode(status), status>>},
     status |-> status, codes |-> {}, graded |-> FALSE, gap |-> FALSE, unknowns |-> FALSE,
     repo |-> "UNKNOWN", date |-> date, task |-> "UNKNOWN", runner |-> "UNKNOWN",
     form |-> "well"]

\* _evidence_pack_reports
Told(c) == c.report.kind \in HarvestKinds
Wrapped(context, pack, c) ==
    [context EXCEPT !.place[3] = c.name, !.date = pack.date,
                    !.wrapper = IF c.status \in Bad THEN c.status ELSE @]
PackReports(pack, context) ==
    {[report |-> IF Told(c) THEN c.report ELSE Component(c.status, pack.date),
      context |-> Wrapped(context, pack, c)] :
      c \in {d \in pack.components : Told(d) \/ d.status \in Bad}}

\* An observed replay: the two scores of each pair.
ScoreOf(pair, v) == [pair.scores[v] EXCEPT !.kind = "learning_observed_score"]
Paired(replay, pair, v) ==
    [Context(<<"replay", pair.task, v>>, pair.scores[v].repo, replay.date)
     EXCEPT !.task = pair.task, !.runner = replay.runner, !.variant = v]
ReplayReports(replay) ==
    UNION {{[report |-> ScoreOf(pair, v), context |-> Paired(replay, pair, v)] :
            v \in DOMAIN pair.scores} : pair \in replay.pairs}

\* An aet run: the reports of its artifacts, and those of its evidence packs.
RunReports(run) ==
    UNION {LET context == Context(<<"run", e.name, "-">>, run.repo, run.date)
           IN  IF e.report.kind = "evidence_pack" THEN PackReports(e.report, context)
               ELSE {[report |-> e.report, context |-> context]} :
           e \in {f \in run.entries : f.report.kind \in HarvestKinds}}

Identity(child) ==
    <<child.report, child.context.task, child.context.runner, child.context.variant>>

\* _deduplicate_normalized: of equal reports the one whose wrapper is worst.
Distinct(children) ==
    {c \in children : \A d \in children :
        Identity(c) = Identity(d) => Severity(d.context.wrapper) <= Severity(c.context.wrapper)}

\* _normalized_reports
Children(a) ==
    CASE a.kind = "evidence_pack" -> Distinct(PackReports(a, Context(<<"pack", "top", "-">>, "UNKNOWN", a.date)))
      [] a.kind = "aet_run" -> Distinct(RunReports(a))
      [] a.kind = "learning_observed_replay" -> Distinct(ReplayReports(a))
      [] OTHER -> {[report |-> a, context |-> Context(<<"top", "-", "-">>, "folder", "UNKNOWN")]}

\* Directories, reports and packs are files: each holds finitely many.
ASSUME FilesAreFinite ==
    /\ \A a \in Artifacts : IsFiniteSet(Children(a))
    /\ \A packs \in InitialStores : IsFiniteSet(packs) /\ \A rows \in packs : IsFiniteSet(rows)

---------------------------------------------------------------------------
(* Experiences.                                                             *)

Known(first, second) == IF first = "UNKNOWN" THEN second ELSE first
Codes(phenomena) == {p[1] : p \in {q \in phenomena : q[2] # "PASS"}}

\* _contains_private_material: credentials and transcripts, under whatever key.
ContainsPrivateMaterial(r) == r.form = "private"

\* _experience_from_report
Experience(a, child) ==
    LET r == child.report
        c == child.context
        found == MergePhenomena(Phenomena(r)
                     \cup {<<ComponentCode(s), s>> : s \in {t \in Bad : c.wrapper = t}})
    IN  [id |-> IF c.place[1] = "top" THEN <<"whole", <<r>>>> ELSE <<"child", Identity(child)>>,
         repo |-> Known(r.repo, c.repo), date |-> Known(r.date, c.date),
         task |-> Known(r.task, c.task), runner |-> Known(r.runner, c.runner),
         phenomena |-> found, deviations |-> Codes(found), completed |-> Codes(found) = {},
         legacy |-> FALSE, clean |-> ~ContainsPrivateMaterial(r)]

\* _is_evidence_only_experience: nothing private, and what deviates is what is recorded
\* (of a row of the time before phenomena, nothing is).
IsEvidenceOnly(row) ==
    row.clean /\ (row.legacy \/ row.deviations = Codes(row.phenomena))

\* The same row with other phenomena.
With(row, found, completed) ==
    [id |-> row.id, repo |-> row.repo, date |-> row.date, task |-> row.task,
     runner |-> row.runner, clean |-> row.clean, phenomena |-> found,
     deviations |-> Codes(found), completed |-> completed, legacy |-> FALSE]

\* _upgrade_legacy_experience: a row of the time before phenomena.
Upgraded(row) ==
    IF ~row.legacy THEN row
    ELSE With(row, {<<c, "UNKNOWN">> : c \in row.deviations},
              row.completed /\ row.deviations = {})

\* _merge_experiences: one row for an id, with all the phenomena of its rows.
MergedRow(same) ==
    LET found == MergePhenomena(UNION {r.phenomena : r \in same})
    IN  With(CHOOSE r \in same : TRUE, found, Codes(found) = {})
Merged(rows) == {MergedRow({r \in rows : r.id = id}) : id \in {r.id : r \in rows}}

---------------------------------------------------------------------------
ExperienceInit ==
    /\ imported \in InitialStores
    /\ runs = {}
    /\ output = Nothing
    /\ store = {[kind |-> "experiences", rows |-> rows, of |-> {}] : rows \in imported}
    /\ patterns = {}
    /\ produced = {}
    /\ harvested = [changes |-> 0, harvests |-> 0]

Change == /\ harvested.changes < MaxChanges
          /\ harvested' = [harvested EXCEPT !.changes = @ + 1]

\* A command leaves a report in the directory.
Produce ==
    /\ Change
    /\ \E a \in Artifacts \ runs : runs' = runs \cup {a} /\ produced' = produced \cup {a}
    /\ UNCHANGED <<imported, output, store, patterns>>

\* record_feedback: what a user thinks of a run, as codes.
Feedback(run, codes) ==
    [Component("FAIL", "UNKNOWN") EXCEPT
        !.kind = "learning_feedback", !.findings = {}, !.status = "none",
        !.codes = codes, !.repo = run.name, !.date = "today"]
RecordFeedback ==
    /\ Change
    /\ \E a \in runs, codes \in (SUBSET ReasonCodes) \ {{}} :
         /\ a.kind # "learning_feedback"
         /\ Feedback(a, codes) \notin runs
         /\ runs' = runs \cup {Feedback(a, codes)}
         /\ produced' = produced \cup {Feedback(a, codes)}
    /\ UNCHANGED <<imported, output, store, patterns>>

Discard ==
    /\ Change
    /\ \E a \in runs : runs' = runs \ {a}
    /\ UNCHANGED <<imported, output, store, patterns, produced>>

\* harvest, with or without the store; one malformed or private report refuses it all.
Harvestable(artifacts) == {a \in artifacts : a.kind \in HarvestKinds}
ExperiencesOf(artifacts) ==
    UNION {{Experience(a, c) : c \in Children(a)} : a \in Harvestable(artifacts)}
WellFormed == \A a \in Harvestable(runs) : \A c \in Children(a) : c.report.form # "malformed"
Harvest ==
    /\ harvested.harvests < MaxHarvests
    /\ WellFormed /\ \A row \in ExperiencesOf(runs) : IsEvidenceOnly(row)
    /\ \E packs \in {{}, store} :
         /\ \A pack \in packs : \A row \in pack.rows : IsEvidenceOnly(row)
         /\ LET rows == UNION {{Upgraded(row) : row \in pack.rows} : pack \in packs}
                merged == Merged(ExperiencesOf(runs) \cup rows)
            IN  /\ \A row \in merged : IsEvidenceOnly(row)
                /\ output' = [kind |-> "experiences", rows |-> merged,
                              of |-> Harvestable(runs) \cup UNION {pack.of : pack \in packs}]
    /\ harvested' = [harvested EXCEPT !.harvests = @ + 1]
    /\ UNCHANGED <<imported, runs, store, patterns, produced>>

\* collect: a copy of the experiences enters the store.
Collect ==
    /\ output # Nothing /\ output \notin store
    /\ \A row \in output.rows : IsEvidenceOnly(row)
    /\ store' = store \cup {output}
    /\ UNCHANGED <<imported, runs, output, patterns, produced, harvested>>

\* mine: a pattern for every deviation, and one for several of a proof's.
Support(code) == {row \in output.rows : code \in row.deviations}
Confidence(rows) ==
    LET seen == Cardinality({r.id : r \in rows})
    IN  IF /\ seen >= 5
           /\ Cardinality({r.repo : r \in rows}) >= 3 /\ Cardinality({r.task : r \in rows}) >= 3
           /\ Cardinality({r.date : r \in rows}) >= 2
           /\ \E r \in rows : r.runner \notin {"UNKNOWN", "static", "builtin-static-skill"}
        THEN "HIGH" ELSE IF seen >= 3 THEN "MEDIUM" ELSE "LOW"
Pattern(code) ==
    [kind |-> code, refs |-> {r.id : r \in Support(code)}, confidence |-> Confidence(Support(code))]
ProofCodes == {"MISSING_TRACE_PROOF", "UNSUPPORTED_SUCCESS_CLAIM", "MISSING_EVIDENCE_PATH"}
Mine ==
    /\ output # Nothing
    /\ LET codes == UNION {row.deviations : row \in output.rows}
           proof == codes \cap ProofCodes
       IN  patterns' =
             {Pattern(c) : c \in codes}
             \cup {[kind |-> "PROOF_HANDOFF_FAILURE", confidence |-> "LOW",
                    refs |-> UNION {{r.id : r \in Support(c)} : c \in proof}] :
                     n \in {m \in {0} : Cardinality(proof) >= 2}}
    /\ patterns' # patterns
    /\ UNCHANGED <<imported, runs, output, store, produced, harvested>>

ExperienceNext == Produce \/ RecordFeedback \/ Discard \/ Harvest \/ Collect \/ Mine

ExperienceSpec == ExperienceInit /\ [][ExperienceNext]_experienceVars
---------------------------------------------------------------------------
(* Properties.                                                              *)

\* The plain reports in an artifact that harvest reads, wherever they are.
PackHolds(pack) == {c.report : c \in {d \in pack.components : Told(d)}}
ReportsIn(a) ==
    CASE a.kind = "evidence_pack" -> PackHolds(a)
      [] a.kind = "aet_run" ->
           UNION {IF e.report.kind = "evidence_pack" THEN PackHolds(e.report) ELSE {e.report} :
                  e \in {f \in a.entries : f.report.kind \in HarvestKinds}}
      [] a.kind = "learning_observed_replay" ->
           UNION {{ScoreOf(pair, v) : v \in DOMAIN pair.scores} : pair \in a.pairs}
      [] OTHER -> {a}

\* What was harvested, now or into the store, is told: every finding of every report,
\* whatever containers it came in and however often, is a deviation of an experience
\* of that report, at least as severe, and that experience is not completed.
NothingIsLost ==
    output # Nothing =>
        \A a \in output.of : \A r \in ReportsIn(a) : \A f \in r.findings :
            f[2] \in Bad =>
                \E row \in output.rows :
                    /\ row.id[2][1] = r /\ ~row.completed /\ f[1] \in row.deviations
                    /\ \E p \in row.phenomena : p[1] = f[1] /\ Severity(p[2]) >= Severity(f[2])

\* What there ever was to learn from: the experiences of the reports there were, and
\* those the store started with.
Experiences ==
    ExperiencesOf(produced) \cup UNION {{Upgraded(row) : row \in rows} : rows \in imported}
Showing(code) == {e.id : e \in {f \in Experiences : code \in f.deviations}}

\* A pattern of high confidence rests on five observations of its code, seen in three
\* repositories: harvesting, collecting and harvesting again adds none.
ConfidenceIsEarned ==
    \A p \in patterns : p.confidence = "HIGH" =>
        /\ Cardinality(Showing(p.kind)) >= 5
        /\ Cardinality({e.repo : e \in {f \in Experiences : f.id \in Showing(p.kind)}}) >= 3

\* What is private never enters the store, by a harvest or by any later one.
StoreIsClean ==
    \A pack \in store : \A row \in pack.rows : row.clean \/ pack.rows \in imported

\* What was harvested stays told, a pattern's confidence is earned and nothing private
\* is kept.
ExperienceIsKept == NothingIsLost /\ ConfidenceIsEarned /\ StoreIsClean
=============================================================================
