------------------------------ MODULE Planning ------------------------------
(***************************************************************************)
(* One Evidence-Linked Plan from its request to the hand-off of its diff   *)
(* (planning/): `aet plan context` reads the workspace, `validate-         *)
(* candidate` validates the answer of a Host Planner and writes the plan   *)
(* package, and `trace`, `export-skill` and `verification-handoff` read a  *)
(* package.  The user edits files at any time: while a context reads them  *)
(* one by one, and between the commands; and a package may be replaced by  *)
(* a new one between the two reads of a command that uses it.  How the     *)
(* directory of a package is replaced is in PublishDirectory ("plan").     *)
(*                                                                         *)
(* No Atlas is supplied.  The context and the package are what the code    *)
(* recomputes everything else from: the request, the sites read and what   *)
(* was left out; the candidate, its status and its references.             *)
(***************************************************************************)
EXTENDS PlanningContext

CONSTANTS
    SuppliedBundles, Requests,
    Workspaces,   \* what the files may hold at first
    Candidates,   \* what a Host Planner may answer, parsed
    Diffs,        \* external diffs: sequences of [old, new, removed], where removed
                  \* is what a line it removes that begins with "-- " looks like
                  \* to a reader of headers: a path, Text, or Nothing
    Text, MaxEdits, MaxRequests, MaxUses

\* Bundles are validated: what a Claim or an Evidence names is there (bundle/validator.py).
PlanningAssumption ==
    /\ Paths \subseteq Nat /\ Nothing \notin Paths
    /\ Workspaces \subseteq [Paths -> Contents \cup {Nothing}]
    /\ \A r \in Requests : r.maxNodes \in Nat /\ \A x \in r.allowed : x.paths \subseteq Paths
    /\ \A b \in SuppliedBundles :
         /\ \A c \in DOMAIN b.claims : b.claims[c].evidence \cup b.claims[c].counter \subseteq DOMAIN b.evidence
         /\ \A e \in DOMAIN b.evidence :
              b.evidence[e].sources \subseteq DOMAIN b.sources /\ b.evidence[e].paths \subseteq Paths
         /\ \A s \in DOMAIN b.sources : b.sources[s].path \in Paths \cup {Nothing}
         /\ \A ids \in {DOMAIN b.claims, DOMAIN b.evidence, DOMAIN b.sources, b.conflicts} :
              ids \subseteq Nat /\ IsFiniteSet(ids)
    /\ \A k \in Candidates : IsFiniteSet(DOMAIN k.items)
ASSUME PlanningIsBounded == PlanningAssumption

VARIABLES
    bundle,    \* fixed
    files,     \* the workspace
    reading,   \* the context being built, or Nothing
    context,   \* the last context written, or Nothing
    package,   \* the plan package in the output directory, or Nothing
    consumer,  \* a command that has read the plan and not yet its references
    skill,     \* the exported Skill, or Nothing
    answer,    \* of the last other command: Nothing, Refused or its contents
    seen,      \* history: what each file has held since the request
    edits, asked, uses

planVars == <<bundle, files, reading, context, package, consumer, skill, answer, seen, edits, asked, uses>>
Refused == "refused"

PlansInit ==
    /\ bundle \in SuppliedBundles
    /\ files \in Workspaces
    /\ reading = Nothing /\ context = Nothing /\ package = Nothing
    /\ consumer = Nothing /\ skill = Nothing /\ answer = Nothing
    /\ seen = [p \in Paths |-> {}]
    /\ edits = 0 /\ asked = 0 /\ uses = 0

\* The user changes, creates or deletes a file.
Edit(p, content) ==
    /\ edits < MaxEdits /\ content # files[p]
    /\ files' = [files EXCEPT ![p] = content]
    /\ seen' = [seen EXCEPT ![p] = @ \cup {content}]
    /\ edits' = edits + 1
    /\ UNCHANGED <<bundle, reading, context, package, consumer, skill, answer, asked, uses>>

----------------------------------------------------------------------------
(* The context.                                                             *)

\* The identity of the workspace is taken with the request, before the files are read;
\* a context that was there is overwritten in the end.
Request(r) ==
    /\ reading = Nothing
    /\ asked < MaxRequests
    /\ \E relevant \in {Relevant(r, bundle)} : \E seeds \in {Seeds(relevant, r, bundle)} :
         reading' = [request |-> r, relevant |-> relevant, limits |-> Constraints(r, bundle),
                     seeds |-> seeds, todo |-> DOMAIN seeds, sites |-> {}, bytes |-> 0,
                     omitted |-> OmittedNodes(r, bundle)]
    /\ asked' = asked + 1
    /\ seen' = [p \in Paths |-> {files[p]}]
    /\ UNCHANGED <<bundle, files, context, package, consumer, skill, answer, edits, uses>>

\* One seed: left out for the budget before or after it was read, refused by the
\* navigator, which only leaves a diagnostic, or a site.
InspectSeed ==
    /\ reading # Nothing /\ reading.todo # {}
    /\ LET r == reading.request
           p == Min(reading.todo)
           rest == [reading EXCEPT !.todo = @ \ {p}]
           fits == reading.bytes + SizeOf(files[p]) <= r.maxBytes
       IN  reading' =
            IF ~WithinBudget(reading.sites, reading.bytes, r) THEN [rest EXCEPT !.omitted = @ + 1]
            ELSE IF Unreadable(p, reading.limits) THEN rest
            ELSE IF ~fits THEN [rest EXCEPT !.omitted = @ + 1]
            ELSE [rest EXCEPT !.sites = @ \cup {Site(p, files[p], reading.seeds[p], r, bundle)},
                              !.bytes = @ + SizeOf(files[p])]
    /\ UNCHANGED <<bundle, files, context, package, consumer, skill, answer, seen, edits, asked, uses>>

WriteContext ==
    /\ reading # Nothing /\ reading.todo = {}
    /\ context' = [request |-> reading.request, relevant |-> reading.relevant,
                   limits |-> reading.limits, seeds |-> reading.seeds, sites |-> reading.sites,
                   gaps |-> CriticalGaps(reading.relevant, reading.limits, reading.sites,
                                         reading.request, bundle),
                   omitted |-> reading.omitted, seen |-> seen]
    /\ reading' = Nothing
    /\ UNCHANGED <<bundle, files, package, consumer, skill, answer, seen, edits, asked, uses>>

----------------------------------------------------------------------------
(* The candidate.                                                           *)

\* A source site without a record is known by its path and content.
SiteRef(s) == IF s.source # Nothing THEN <<"source", s.source>>
              ELSE <<"file", s.path, s.content>>
SiteOf(ref, c) == CHOOSE s \in c.sites : SiteRef(s) = ref

EvidenceRefs(c) ==
    {<<"claim", x>> : x \in c.relevant.claims}
    \cup {<<"evidence", x>> : x \in c.relevant.evidence}
    \cup {<<"conflict", x>> : x \in c.relevant.conflicts}
SiteRefs(c) == {SiteRef(s) : s \in c.sites}

RefsOf(item) == item.evidence \cup item.sources
Edited(item) == item.disposition # "DO_NOT_EDIT"

\* _validate_item.  An item whose path is not canonical is not looked at further.
ItemBlockers(item, k, c) ==
    IF item.path = Nothing THEN {"PATH_ESCAPE"}
    ELSE {x \in {"PROTECTED_PATH"} : Edited(item) /\ item.path \in c.limits.protected}
         \cup {x \in {"REFERENCE_NOT_FOUND"} :
                 \/ RefsOf(item) \ (EvidenceRefs(c) \cup SiteRefs(c)) # {}
                 \/ item.deps \ DOMAIN k.items # {}}
         \cup {x \in {"REFERENCE_KIND_MISMATCH"} :
                 \/ item.evidence \cap SiteRefs(c) # {}
                 \/ (item.sources \ item.evidence) \cap EvidenceRefs(c) # {}
                 \/ \E ref \in item.sources \cap SiteRefs(c) : SiteOf(ref, c).path # item.path}
         \cup {x \in {"WRITE_ATTEMPT"} : item.claimsDone}

\* Defective variant: what is not confirmed was at least found.
ItemErrorsFound(item, c) ==
    {x \in {"EVIDENCE_REQUIRED"} :
        \/ Edited(item) /\ item.path \notin c.limits.protected
             /\ (~c.limits.resolved \/ item.path \notin c.limits.allowed)
        \/ item.disposition = "REQUIRED" /\ RefsOf(item) = {}}
ItemErrors(item, c) ==
    {x \in {"EVIDENCE_REQUIRED"} :
        \/ Edited(item) /\ item.path \notin c.limits.protected
             /\ (~c.limits.resolved \/ item.path \notin c.limits.allowed)
        \/ item.disposition = "REQUIRED" /\ RefsOf(item) = {}}
    \cup {x \in {"SOURCE_STALE", "SOURCE_MISSING"} :
            \E ref \in item.sources \cap SiteRefs(c) :
                /\ item.disposition = "REQUIRED" /\ SiteOf(ref, c).status # "CONFIRMED"
                /\ (x = "SOURCE_STALE") = (SiteOf(ref, c).status = "STALE")}
    \cup {x \in {"SOURCE_STALE"} :
            \E ref \in item.sources \cap SiteRefs(c) :
                SiteOf(ref, c).lines > 0 /\ item.upTo > SiteOf(ref, c).lines}

\* _validate_dependency_graph.  Below an edit is what it depends on, through others too: what
\* every set has that has its dependencies and theirs.  A dependency that is no edit is
\* an error of its own.
Dependencies(k) == [i \in DOMAIN k.items |-> k.items[i].deps \cap DOMAIN k.items]
Below(i, deps) ==
    {j \in DOMAIN deps : \A C \in SUBSET DOMAIN deps :
        deps[i] \subseteq C /\ (\A x \in C : deps[x] \subseteq C) => j \in C}
CyclicGraph(deps) == \E i \in DOMAIN deps : i \in Below(i, deps)
Cyclic(k) == CyclicGraph(Dependencies(k))

\* validate_plan_candidate: a candidate names the request it answers, whose identity
\* depends on the workspace.
Blockers(k, c) ==
    (UNION {ItemBlockers(k.items[i], k, c) : i \in DOMAIN k.items})
    \cup {x \in {"IDENTITY_MISMATCH"} : ~k.answers}
    \cup {x \in {"INVALID_CANDIDATE"} : Cyclic(k)}
    \cup {x \in {"VERIFICATION_REFERENCE"} : (UNION k.verification) \ DOMAIN k.items # {}}

\* _validate_coverage: what a claim of bounded completeness must not leave open.
Overclaims(k, c) ==
    /\ k.complete
    /\ \/ c.omitted > 0
       \/ \E s \in c.sites : s.status = "UNSUPPORTED"
       \/ c.gaps # {}
       \/ \E i \in DOMAIN k.items : k.items[i].disposition = "REQUIRED" /\ RefsOf(k.items[i]) = {}

Errors(k, c) ==
    (UNION {ItemErrors(k.items[i], c) : i \in {j \in DOMAIN k.items : k.items[j].path # Nothing}})
    \cup {x \in {"NO_VERIFICATION"} : k.verification = {}}
    \cup {x \in {"OVERCLAIMED_COVERAGE"} : Overclaims(k, c)}

\* _derive_status
Status(k, c) ==
    IF Blockers(k, c) # {} THEN "BLOCKED"
    ELSE IF c.omitted > 0 \/ Cardinality(DOMAIN k.items) > c.request.maxItems THEN "PARTIAL"
    ELSE IF Errors(k, c) # {} \/ c.gaps # {} THEN "NEEDS_EVIDENCE"
    ELSE "READY_FOR_HUMAN_REVIEW"

\* references.jsonl: what each reference stood for when the context was built.
EvidenceStatus(ref, b) ==
    CASE ref[1] = "evidence" -> b.evidence[ref[2]].freshness
      [] ref[1] = "claim" -> b.claims[ref[2]].status
      [] OTHER -> "UNKNOWN"
SiteStatus(s) == IF s.status \in {"CONFIRMED", "STALE"} THEN s.status ELSE "UNKNOWN"
References(c, b) ==
    [ref \in EvidenceRefs(c) \cup SiteRefs(c) |->
        IF ref \in SiteRefs(c) THEN SiteStatus(SiteOf(ref, c)) ELSE EvidenceStatus(ref, b)]

Used(k) == UNION {RefsOf(k.items[i]) : i \in DOMAIN k.items}

\* validate-candidate writes a package whatever the status of the plan, but the
\* package validates itself: a reference it cannot resolve leaves the old one there.
Validate(k) ==
    /\ context # Nothing
    /\ Used(k) \subseteq DOMAIN References(context, bundle)
    /\ package' = [context |-> context, candidate |-> k, status |-> Status(k, context),
                   references |-> References(context, bundle)]
    /\ consumer' = IF consumer = Nothing THEN Nothing ELSE [consumer EXCEPT !.torn = @ \/ package' # package]
    /\ UNCHANGED <<bundle, files, reading, context, skill, answer, seen, edits, asked, uses>>

----------------------------------------------------------------------------
(* The users of a package.                                                  *)

\* load_plan, with the package validated: the first half of every command; `subject`
\* is the path that is traced, or the diff.
Load(task, subject) ==
    /\ package # Nothing /\ consumer = Nothing
    /\ uses < MaxUses /\ uses' = uses + 1
    /\ consumer' = [task |-> task, subject |-> subject, plan |-> package, torn |-> FALSE]
    /\ UNCHANGED <<bundle, files, reading, context, package, skill, answer, seen, edits, asked>>

\* The references the plan uses, from the package as it is now; a missing one, or
\* an existing output, is an error.
Export ==
    /\ consumer # Nothing /\ consumer.task = "export"
    /\ consumer' = Nothing
    /\ LET used == Used(consumer.plan.candidate)
       IN  skill' = IF skill = Nothing /\ used \subseteq DOMAIN package.references
                    THEN [plan |-> consumer.plan, torn |-> consumer.torn,
                          references |-> [ref \in used |-> package.references[ref]]]
                    ELSE skill
    /\ UNCHANGED <<bundle, files, reading, context, package, answer, seen, edits, asked, uses>>

\* trace_path: what the edits of a path rest on, as far as the package has it.
Trace ==
    /\ consumer # Nothing /\ consumer.task = "trace"
    /\ consumer' = Nothing
    /\ LET items == consumer.plan.candidate.items
           found == {i \in DOMAIN items : items[i].path = consumer.subject}
           wanted == UNION {RefsOf(items[i]) : i \in found}
       IN  answer' = [task |-> "trace", plan |-> consumer.plan, torn |-> consumer.torn, found |-> found,
                      references |-> [ref \in wanted \cap DOMAIN package.references |->
                                         package.references[ref]]]
    /\ UNCHANGED <<bundle, files, reading, context, package, skill, seen, edits, asked, uses>>

\* _parse_unified_diff, for one file: the lines of the hunks are read as headers too, so
\* that a file may be listed under a path its diff does not touch.
ReadableDiff(d) == \A n \in DOMAIN d : d[n].removed # Text
OldPath(f) == IF f.removed = Nothing THEN f.old ELSE f.removed
ChangedPaths(d) == (UNION {{OldPath(d[n]), d[n].new} : n \in DOMAIN d}) \ {Nothing}

\* build_verification_handoff
ItemPaths(item) == {item.path} \cup item.tests
PlannedItems(k) == {i \in DOMAIN k.items : Edited(k.items[i])}
Mapped(k, changed) ==
    LET planned == UNION {ItemPaths(k.items[i]) : i \in PlannedItems(k)}
        touched == {i \in PlannedItems(k) : ItemPaths(k.items[i]) \cap changed # {}}
    IN  [unplanned |-> changed \ planned, touched |-> touched,
         forbidden |-> changed \cap {k.items[i].path : i \in DOMAIN k.items \ PlannedItems(k)},
         proofs |-> {v \in k.verification : v \cap touched # {}}]

\* A source that was not confirmed needs evidence.
Stale(refs) ==
    {ref \in DOMAIN refs : refs[ref] = "STALE"
                             \/ (ref[1] \in {"source", "file"} /\ refs[ref] = "UNKNOWN")}

HandOff ==
    /\ consumer # Nothing /\ consumer.task = "handoff"
    /\ consumer' = Nothing
    /\ LET Mapping(changed, stale) ==
               [task |-> "handoff", plan |-> consumer.plan, diff |-> consumer.subject,
                changed |-> changed, map |-> Mapped(consumer.plan.candidate, changed),
                stale |-> stale, torn |-> consumer.torn,
                \* Every changed path has an unresolved regression lineage.
                status |-> IF changed # {} \/ stale # {} THEN "NEEDS_REVIEW" ELSE "PENDING"]
       IN  answer' = IF ~ReadableDiff(consumer.subject)
                     THEN [task |-> Refused, diff |-> consumer.subject]
                     ELSE Mapping(ChangedPaths(consumer.subject), Stale(package.references))
    /\ UNCHANGED <<bundle, files, reading, context, package, skill, seen, edits, asked, uses>>

PlansNext ==
    \/ \E p \in Paths, content \in Contents \cup {Nothing} : Edit(p, content)
    \/ \E r \in Requests : Request(r)
    \/ InspectSeed \/ WriteContext
    \/ \E k \in Candidates : Validate(k)
    \/ Load("export", Nothing) \/ (\E p \in Paths : Load("trace", p)) \/ (\E d \in Diffs : Load("handoff", d))
    \/ Export \/ Trace \/ HandOff

PlansSpec == PlansInit /\ [][PlansNext]_planVars
----------------------------------------------------------------------------
(* Properties.                                                              *)

\* What a READY plan rests on (validator.py, gap_detector.py): nothing of the Bundle was
\* left out; every path the user named or the evidence is bound to was read, if it may be
\* read at all; and each of those held, at some moment since the request, what the last
\* record of it says, if that says anything, unless it is of a kind the navigator does not
\* understand.  Its required edits are in scope and rest on sources that were confirmed,
\* and its edits can be put in an order.
Governed(plan, p, b) ==
    LET c == plan.context
        record == c.seeds[p]
    IN  \E x \in {s \in c.sites : s.path = p} :
          \/ x.status = "UNSUPPORTED"
          \/ /\ x.content # Nothing /\ x.content \in c.seen[p]
             /\ record = Nothing \/ b.sources[record].hash \in {Nothing, x.content}
ReadsItAll(plan, b) ==
    LET c == plan.context
    IN  /\ b # NoBundle
        /\ c.relevant.claims = DOMAIN b.claims /\ c.relevant.evidence = DOMAIN b.evidence
        /\ ExplicitPaths(c.request.allowed) \cup UNION {b.evidence[e].paths : e \in DOMAIN b.evidence}
             \subseteq DOMAIN c.seeds
        /\ \A p \in DOMAIN c.seeds : Unreadable(p, c.limits) \/ Governed(plan, p, b)
EditsAreJustified(plan, b) ==
    LET c == plan.context
        items == plan.candidate.items
    IN  \A i \in DOMAIN items :
          /\ Edited(items[i]) =>
               items[i].path \in Matched(Allowed(c.request, b))
                                   \ (Fixtures \cup c.request.protected \cup b.denied)
          /\ items[i].disposition = "REQUIRED" =>
               /\ RefsOf(items[i]) # {}
               /\ \A ref \in items[i].sources \ items[i].evidence :
                    plan.references[ref] = "CONFIRMED"
Orderable(items) ==
    \A S \in SUBSET DOMAIN items : S # {} => \E i \in S : items[i].deps \cap S = {}
ReadyPlan(plan, b) ==
    /\ ReadsItAll(plan, b)
    /\ EditsAreJustified(plan, b)
    /\ Orderable(plan.candidate.items)
ReadyPlansAreGrounded ==
    package # Nothing /\ package.status = "READY_FOR_HUMAN_REVIEW" => ReadyPlan(package, bundle)

\* What is derived from a package agrees with it, unless the package was replaced between
\* the two reads: the Skill and a trace have the plan's own references with the status
\* they have in it, and a READY plan's hand-off calls a path planned only if it is within
\* its scope or a test that an edit names.
SameReferences(x, wanted, b) ==
    x.references = [ref \in wanted |-> References(x.plan.context, b)[ref]]
SkillAgrees(x, b) == ~x.torn => SameReferences(x, Used(x.plan.candidate), b)
AnswerAgrees(x, b) ==
    LET items == x.plan.candidate.items
    IN  /\ x.task = "trace" /\ ~x.torn => SameReferences(x, UNION {RefsOf(items[i]) : i \in x.found}, b)
        /\ x.task = "handoff" /\ x.plan.status = "READY_FOR_HUMAN_REVIEW" =>
             x.changed \ x.map.unplanned
               \subseteq x.plan.context.limits.allowed \cup UNION {items[i].tests : i \in DOMAIN items}
DerivedFromOnePlan ==
    /\ skill # Nothing => SkillAgrees(skill, bundle)
    /\ answer # Nothing => AnswerAgrees(answer, bundle)

\* A READY plan rests on all of the evidence and on sources that held what was recorded,
\* and the Skill, the trace and the hand-off of a plan agree with it.
PlansAreGrounded == ReadyPlansAreGrounded /\ DerivedFromOnePlan
=============================================================================
