# A verification development of the Agent Engineering Toolkit (`aet`)

TLA+ modules that model the stateful core of `aet` (the Python package under
`src/src/aet`), TLC configurations that check them on small instances, and
proofs, checked by TLAPS, of the results that hold for every instance.  Paths
below are relative to `src/src/aet` unless they begin with `src/`.

`aet` is a command-line tool without a server of its own: every command is a
short-lived process that reads files, decides, and replaces files.  What is hard
about it is therefore not a protocol between threads but *what is on disk between
two steps of one process, or of several*: whole-file read-modify-write without a
lock, several renames that belong together, a process that dies between two of
them, a command that is run again over what a dead one left, evidence that was
captured of one workspace and is used for another.

## 1. Inventory

State, operations, interactions and hazards of every part.  * marks the modelled
parts (section 3), (*) those of which the state is modelled and named details are
not; why the others are left out is in section 8.

| part | code | state it keeps | operations | what makes it hard | what makes it correct |
|---|---|---|---|---|---|
| regression promotion * | `quality.py` | bundles named by case digest, `quality.json` sidecars, lock files | `quality promote` | threads and processes, descriptors of directories that are moved, crash, fsync errors | no acknowledged badcase is lost or counted twice |
| decision ledger * | `decision.py` | one JSON file: decisions, history | `decision init, add, supersede` | lost updates, stale copies, crash before rename | chains end at an accepted decision, history agrees |
| asset adoption * | `learn.py`, `policy_targets.py`, `audit_evolution.py` | target asset, asset ledger, prepared ledger, temporary files | `learn adopt` for Skills, policies, rule packs | two files that must change together, rollback, retry | asset and ledger agree |
| observed replay * | `learn.py`, `learn_runners.py` | replay manifest, rollout directories | `learn replay` with a host | kill and resume, edits of fixtures in between | pairs measured once, under the same conditions |
| agent rollouts and scores * | `learn.py`, `learn_runners.py`, `learn_scoring.py`, `evidence.py` | workspace, events, Traces | one rollout, `trace`, its reuse | hosts that repeat, reorder and cut what they report | a score rests on what was run |
| experience store (*) | `learn.py` | store of experiences, patterns | `learn harvest, collect, mine` | the same report in several containers, malformed and private ones | nothing lost, nothing counted twice |
| candidates and their gates (*) | `learn.py`, `evolve.py`, `evolution/**` | candidates, gate files, replays | propose, review, gate, tournament | what was measured is edited before it is used | what is staged was measured as it is |
| evaluation gate (*) | `learn_statistics.py`, `gate_plan.py`, `learn.py` | paired outcomes, looks | plan, planned gate | repeated looks at the data, boundaries, integer division | error probability, soundness of stops |
| gate attempt history (*) | `gate_plan.py` | registry of passed gates | register, assess | entries counted twice, caps | history counts no more than was measured |
| learning cycle (*) | `learn.py` | candidates, gates, `staged/`, `learning-run.json` | `learn sleep` | kill, budget, edits of the target, retry | what is staged is consistent and stays |
| policies and rule packs (*) | `policy_targets.py`, `audit_evolution.py`, `rules.py`, `rulepacks.py` | policies, candidates, gates, shadow reports | propose, gate, stage, shadow, adopt | candidates and suites edited on the way | a policy only becomes stricter, and was measured |
| directory publication * | `run_normalization/core.py`, `atlas/storage.py`, `repository_audit.py`, `planning/package_builder.py` | an output directory and its backups | replace a directory | overlap, failing rename, crash | a whole version survives, no rollback |
| run normalization (*) | `run_normalization/**` | normalized run: records, links, diagnostics | `run normalize` on top of a prior result | overlapping chunks, identities, carried diagnostics | chunks leave no trace |
| portable investigation (*) | `investigation/portable.py`, `verification.py` | result file | `investigate` | four budgets, order of receipts, late imports | result validates, statuses rest on current receipts |
| delivery run * | `run.py`, `evidence.py`, `cli.py` | run manifest, report files | `run init, verify, close`, `--run` of audit, review, trace, pack | several commands on one manifest, edits between reports | a state is earned by its evidence |
| quick proof and freshness * | `quick/proof.py`, `quick/fresh.py` | proof receipt | `quick proof`, `quick fresh` | captures at different moments | a matching verdict is about the workspace now |
| evidence packs, trace reuse (*) | `evidence.py`, `evidence_core/` | traces, seals, packs | trace, reuse, compile | stale snapshots | components share one snapshot |
| evidence bundles * | `bundle/**` | bundle directory | compile, validate, review | selection, budgets, redaction before hashing, overlap, edits | closure of references, nothing hidden |
| improvement lifecycle * | `improvement/**` | issues, constraints, candidate, contract, outcome | `improve`, validate, verify | files named by position, kills between them | a verified improvement was accepted and proved |
| repository atlas (*) | `atlas/**` | Atlas directory | build, rebuild, validate, query | incremental reuse, budgets | a rebuild shows what a build would |
| review graph (*) | `review_graph/**` | review package | build, open, expand, export | workspace edited during and after the build | slices keep what matters, PASS is earned |
| planning packages (*) | `planning/**` | contexts, plan packages | context, validate, build, trace, handoff | plan of an outdated workspace, budgets, two reads of a package | READY is grounded, derivations agree |
| investigation ledger, atlas presentation, behavioural risk, repository audit's rules, quick check, change review, MCP server, command line, observations and narrative, demo, JavaScript packages, evaluation suites | | no state of their own | | | |

Interactions: all of them go through files.  `trace`, `review`, `audit` and
`evidence pack` write report files and, with `--run`, attach them to the run
manifest.  `learn harvest` and `mine` turn reports into patterns, `propose` makes
candidates of them, the gate runs replays of rollouts and decides; `learn sleep`
is one pass through all of these that stages; `learn adopt` takes what was
staged, checks it again and changes the asset and the ledger.  `investigate`
reads a normalized run and the receipts of `quick proof`; its result is compiled
into a bundle, of which atlases, improvements, plans and reviews are made.
Normalized runs, atlases, plans and audits are published as directories.

The hazards themselves, each at its line with the properties that watch it, are
listed in `PROJECT.json`.

## 2. Plan

Order: what may lose the user's data first, then what may give a wrong verdict,
then what is derived from it.

| step | modules | composed in | run | proved |
|---|---|---|---|---|
| 1 | `RegressionStore`, `PromoteRegression` | refinement | `promote` | all but liveness |
| 2 | `LedgerValue`, `DecisionLedger` | `MC_Evaluation` | `evaluation` | all |
| 3 | `AssetAdoption` | `MC_Learning` | `learning` | all |
| 4 | `ObservedReplay` | `MC_Learning` | `learning` | all but liveness |
| | `PlannedGate` | `MC_Learning` | `learning` | `VerdictsAreEarned` |
| | `GatePlan` | `MC_Learning` | `learning` | |
| 5 | `LearningCycle` | `MC_Learning` | `learning` | all |
| 6 | `PolicyTargets` | `MC_Learning` | `learning` | all |
| | `AuditRules` | `MC_Learning` | `learning` | all |
| 7 | `ExperienceStore` | `MC_Evaluation` | `evaluation` | all |
| | `SkillText`, `SkillGate` | `MC_Evaluation` | `evaluation` | all but `PatchesAreReviewed` |
| | `AgentRollout` | `MC_Evaluation` | `evaluation` | all |
| 8 | `PublishDirectory` | `MC_Outputs` | `outputs` | all |
| 9 | `PlanningContext`, `Planning` | `MC_Outputs` | `outputs` | all |
| | `RunNormalization` | `MC_Outputs` | `outputs` | **all** |
| 10 | `DeliveryRun` | `MC_Runs` | `runs` | all |
| 11 | `PortableInvestigation` | `MC_Runs` | `runs` | all |
| 12 | `EvidenceBundle`, `BundleCompiler` | `MC_Bundle` | `bundle` | all |
| 13 | `Improvement` | `MC_Bundle` | `bundle` | all |
| 14 | `EvidenceGraph`, `AtlasViews`, `AtlasStore` | `MC_Atlas` | `atlas` | |
| 15 | `CodeIndex`, `ReviewGraph`, `ReviewPackage` | `MC_Atlas` | `atlas` | |
| 16 | `QuickProof` | `MC_Atlas` | `atlas`, `quick_no_git` | all |

What is left are the modules with recursive operators, and the properties that say
what a recursion computes (section 7).

## 3. Modules and the code

`PROJECT.json` maps every definition to its lines.  What follows is how state and
actions correspond.

**`RegressionStore`, `PromoteRegression`** (`quality.py`, `promote_regression` and
below).  A promotion is a thread of a process: hash the fixture, lock in the
process, lock the file, then either anchor the existing bundle by a directory
descriptor, read, bind, rename the sidecar and check that the bundle is still
where it was, or copy the fixture, write the sidecar and publish by one rename.
Every return and exception releases the locks it holds.  The user may edit the
source and take bundles away or put copies in their place, and a process may die
at any step, which frees its file locks.  `dest` maps a digest to the inode of
the directory: descriptors follow inodes, paths do not.  `RegressionStore` is the
promise: opening a bundle and counting an id are single steps, support only
grows.  `PromoteRegression` implements it with `where <- dest`, `counted <- ids
of the sidecar`.

**`LedgerValue`, `DecisionLedger`** (`decision.py`).  The contents of a ledger
file as a value, with what `add` and `supersede` make of it and what they refuse;
`DecisionLedger` has commands that read the whole file into `draft`, and write it
back or die; a new decision may supersede any number of others.  The history variable `stale` holds the writers whose copy is older
than the file; no guard reads it.

**`AssetAdoption`** (`learn.py` adopt, `policy_targets.py`
adopt_policy_candidate, `audit_evolution.py` adopt_audit_rule).  Two protocols.
For a Skill the ledger is written first and the text installed after; for a
policy the new ledger is prepared beside the old one, the asset is moved in
place, the prepared ledger is moved in place, and an `OSError` puts the old asset
back.  Every file operation is a step that can fail, a process can die between
any two, the owner edits the asset.  The owner's edits fall where nobody is
adopting: one between an adopter's read and its rename is overwritten, as the code
does not look again (`learn.py:548`, `policy_targets.py:214`), and the properties
are of adopters and not of what they overwrite.

**`ObservedReplay`** (`learn.py` replay_observed).  Tasks, rollouts in pairs, a
manifest rewritten after each pair, the binding a resume must match, rollout
directories a killed replay leaves behind.  What the agent does is abstracted to
the fixture it saw; `disturbed` is history, the tasks whose fixture was edited
while a replay ran.

**`AgentRollout`** (`learn.py` _observed_rollout, `learn_runners.py`,
`learn_scoring.py`, `evidence.py` trace).  What one of those rollouts is: the
fixture is copied, an agent moves in the copy, its host (scripted, codex,
claude-code) prints lines that may be repeated or cut, the lines are normalized
into events, and the score is computed from events, the snapshots before and
after, and the Traces left behind.  Codex and Claude Code may leave a command open
(`LeaveOpen`): whether it ran or not, no line says how it ended, and the host may
end after it.  `ran` is history: what was run.

**`ExperienceStore`** (`learn.py` harvest, collect, mine).  `harvest` turns the
reports of a directory and those inside its containers into experiences,
`collect` keeps them in a store that later harvests read, `mine` groups them into
patterns; the user adds and removes reports.

**`SkillText`, `SkillGate`** (`learn.py`, `evolution/**`).  The text of a Skill
as editable and immutable blocks and a rest, the edits proposed to it and their
review; candidates from patterns or by hand, the static gate, gate plans, the
observed gate, a tournament with its held-out suite, and staging, while Skill,
candidates, suites, host and scorer change.  A whole replay is one step here.  The
edit budget counts what differs between two token sequences (`EditBudget`), where
the code counts the opcodes of `difflib`, which is not always the least.

**`PlannedGate`, `GatePlan`** (`learn_statistics.py`, `learn.py`
_execute_planned_gate, `gate_plan.py`).  `GatePlan` makes a plan from a risk class
and the tasks of the suites, validates plans written by hand, and says what the
registry of passed gates counts for.  `PlannedGate` runs a plan: suites one after
another, looks of fresh pairs, at each look infrastructure, hard regression, the
exact paired sign test in integer arithmetic, futility.

**`LearningCycle`** (`learn.py` sleep, stage).  Cycles over one output directory,
each a sequence of file writes with a kill, a failing command or a spent budget
between any two; staging is three copies, the gate's last.  An `OSError` of a copy is
caught by nobody (`learn.py:537`) and ends the process: it is a kill.

**`PolicyTargets`, `AuditRules`** (`policy_targets.py`; `audit_evolution.py`,
`rules.py`, `rulepacks.py`).  Bounded candidates of one to three operations for
audit profiles, review policies, trace validators and triage policies, and of one
rule for a rule pack: what they may not weaken, the gate on four suites, staging
into any number of directories, shadow runs and their aggregate, adoption.  Each command is one step; the owner
edits policies, candidates and suites between them.

**`PublishDirectory`** (`write_normalized_run`, `_publish_directory`,
`_replace_bundle`, `build_planning_package`).  The four ways `aet` replaces a
directory, one per scene; they differ in the name of the backup (random, fixed, by
process), in whether a stale backup is refused, restored or swept, and in what a
failure undoes.  `overlapped` is history: whether two attempts were ever under way
at once.

**`RunNormalization`** (`run_normalization/core.py`, `identity.py`).  A source run
is imported in chunks in any order and overlap; records are named by native id,
content or position exactly as `build_identity` does, merged first-wins, linked,
and diagnostics are recomputed or carried over.  What the loops append to a list is
said by the positions they take, in increasing order (`Picked`).  The adapters are
abstracted to the drafts they extract, and the group of a run, which goes into every
identity of it alike (`identity.py:48`), is left out of them.

**`PortableInvestigation`** (`investigation/portable.py`, `verification.py`).
Observations, candidates, receipts in order, four budgets, the validator
(`Valid`) as the code writes it, what of a secret is redacted and what is refused,
the output file.  What a request is assumed to be (`RequestsAssumption`) is what
`_validate_request` refuses otherwise (a run is declared, budgets are numbers) and
what `_proof_argv` requires of a receipt (it names a command).  Records are those of
a normalized run, whose ids differ, and receipts have the form `quick proof` writes.

**`DeliveryRun`** (`run.py`; the reports as `evidence.py` and `cli.py` produce
them).  Commands load the manifest (`InitIntent`, `Attach`, `StatusLoad`), decide
on their copy, take a snapshot where the code does, and replace the file
(`Write`).  `verify` and `close` are several loads and a snapshot: each is a step.

**`QuickProof`** (`quick/proof.py`, `quick/fresh.py`).  Each capture and each
comparison is a step; the command may rewrite anything, others edit at any moment.
`Hash` distinguishes the hash of a content from the hash of its redacted form,
`NoSnapshot` is a snapshot without a digest.

**`EvidenceBundle`, `BundleCompiler`** (`bundle/**`).  A bundle is a record of its
collections; `EvidenceBundle` selects and redacts for one question and validates,
as operators; `BundleCompiler` runs overlapping compilers (select, redact, write,
validate in a temporary directory, rename) that may die, edits of what is
published, and reviewers whose conclusions are validated against it.  Blobs have
sizes, before redaction and after it; what is redacted besides are the paths of
evidence and sources, and a secret in a reference is refused.  Edits may change the
records, add files and links, be taken back, and seal the manifest again; a load
parses the records first (`Open`) and reads the bytes it hashes later (`Review`).
The records given to a compiler are well formed, as `_validate_records` demands of
them before anything is selected.

**`Improvement`** (`improvement/**`).  One directory of files that the commands
write one after the other, with a kill before any of them: issues and constraints
of a bundle, a candidate and its validators, the contract derived from it, proof
and metrics supplied from outside, the outcome.  Issues have positions for names, and
the paths of scopes and graders are paths where the code has `fnmatch` patterns
(`scope.py:64`, `anti_gaming.py:14`): a pattern stands for the paths it matches.
`accepted`, `judged` and `ran` are history.

**`EvidenceGraph`, `AtlasViews`, `AtlasStore`** (`atlas/**`).  The graph of a
bundle with what its validation asks of it; the eleven perspectives, the
hierarchy of diagrams and what one draws under a budget, the queries; and the
atlas on disk: a rebuild compares record hashes and takes over the pages no
changed record reaches.  A page is modelled by the inputs it was drawn from, so
that staleness is a comparison.

**`CodeIndex`, `ReviewGraph`, `ReviewPackage`** (`review_graph/**`).  The symbol
graph of the changed files; the graph that joins it with the evidence and an
issue's contract, its bounded slices; the package that is built of it, opened,
expanded and exported while workspace and base change during the build and after it.
The index sees what `_python_files` lets it see (`PythonFiles`): no links, nothing
below a directory it skips.

**`PlanningContext`, `Planning`** (`planning/**`).  The context gathered under
budgets from a request, a bundle and files; a candidate of an agent validated
against it, the package, and the trace, export and hand-off derived from a
package that may be replaced between the two reads of one command.

The `MC_` modules give the constants values and put the components side by side: a
behaviour of `MC_Learning`, say, runs one "part", adoption or a cycle or a gate,
on the instance made for it.  A component such a module extends stays in one of its
initial states while another part runs, and its properties are checked under their
own names; the variables of a component it instantiates are `None` then, and the
properties of those components are grouped in properties of the `MC_` module, whose
comments name them.  The parts hand each other files: what one may leave is among
the initial states, or among the edits, of the next.

Several modules have a variable that is chosen by `Init` and never changes:
`scene`, `given`, `req`, `explicit`.  It holds what distinguishes the situations
of a component (how many commands run at once, which code they run, which plan,
which request), so that one run covers them all and a property can say in which of
them it holds.

Operators with the comment "Defective variant" are plausible bugs of a definition;
they are used by no specification, only to see that the properties notice them.

## 4. Runs

| run | instance | shows |
|---|---|---|
| `promote` | 3 promotions in 2 processes, 2 of one badcase, 2 contents, crashes, 2 user steps, fair threads | acknowledged badcases are counted, once; publications match their name; refines `RegressionStore`; no path leaks a lock, so every promotion that gets as far as the locks ends |
| `evaluation` | *ledger*: 2 writers, 7 commands, 3 ids, crashes. *Rollouts*: six scenes of three hosts, up to five moves, commands left open, an edit of the fixture. *Experiences*: four changes of the directory, two harvests. *Patches* and *contest*: two or three turns, one change of what was measured | whatever updates are lost, chains end at an accepted decision and history agrees, and only a stale copy undoes a decision (`DecisionsEndure`); a score rests on proofs, commands and tools as they were (`ScoresAreEarned`); findings are kept and counted once (`ExperienceIsKept`); what the deterministic checks let through was reviewed (`PatchesAreReviewed`) and what passes was measured as it is (`GatesAreEarned`) |
| `runs` | *Deliveries*: one command at a time with 3 reports, 2 at once with 2, 2 contracts, edits. *Investigations*: 1 to 4 records, 0 to 2 receipts in any order and quality, tight budgets, 3 tool lists, late, foreign and secret requests, receipts that repeat, bind twice or hold a secret | every manifest tells a path and holds its evidence; without overlap it only grows and closes on its latest workspace; built results are valid in all cases but five and in none of these, failures disclosed, statuses rest on current receipts |
| `bundle` | *Compilers*: 2 of 681 payloads with Blobs of two sizes, one death, edits at any moment of a review, every conclusion. *Improvements*: 4 bundles, 12 candidates, 4 commands, 1 kill | slicing hides no evidence, redaction keeps bindings, conclusions rest on records; what is verified was accepted and proved by its own plan |
| `atlas` | *Atlas*: 3 versions of a bundle, with and without diagnosis, 2 policies, 3 selections, edits. *Reviews*: 4 files, one where the index does not look, 2 bases, 2 edits at any step, 4 improvement directories, 3 limits. *Quick proofs*: Git, secrets or none, any declaration, 2 edits by others | what a build publishes is valid, current, complete and traceable; every slice keeps its kernel, PASS is earned; a freshness verdict is so |
| `learning` | *adopt*: Skills and policies, 1 or 2 adopters, 3 candidates, 4 or 5 attempts, crashes, faults, edits. *replay*: 2 tasks, 1 or 2 rollouts, 3 kills, 2 edits. *plan*, *gate*: all requests over small suites; one plan that was built and four written by hand, up to 12 pairs a suite, alpha 1/5. *cycle*: 3 cycles, 1 kill, 2 edits. *policy*, *rules*: seven policies of four kinds, a rule pack, 2 edits | see section 3; the properties of each part, those of the instantiated ones named in `MC_Learning` |
| `outputs` | *directories*: each of 4 writers, 2 publishers, 2 attempts each, 2 faults, 1 crash. *runs*: every source of up to 4 records of 8 kinds (3 without a named generation). *plans*: 3 paths, a bundle or none, 3 requests, 2 contexts | which guarantee each protocol keeps, and under what condition; chunks come out as one import; READY is grounded and what is derived agrees |

Five runs expect a violation.  Each checks one sentence of the repository, and TLC
finds the behaviour that refutes it:

| run | sentence | what happens |
|---|---|---|
| `quick_no_git` | an `EXACT_MATCH` is of the recorded snapshot | without Git neither snapshot has a digest: any change of undeclared files is an exact match (`quick/fresh.py:88`) |
| `atlas_rebuild` | hard budgets bound every diagram | a rebuild under a smaller policy takes every drawing over (`atlas/storage.py:264`) |
| `sensitive_paths` | a profile changes severities and sensitive paths monotonically | a candidate takes a sensitive path out and is adopted: findings there are shown as less severe (`policy_targets.py:241`) |
| `review_scope` | a protected path is never downgraded to PASS | a protected file that is removed, is not Python, or is Python where the index does not look (a link, a directory it skips, a name Git quotes), is no scope failure (`review_graph/indexer.py:345`, `:333`) |
| `shadow_adoption` | adoption requires an aggregate of the same candidate | the two hashes of the candidate are of different forms and never agree (`audit_evolution.py:230`) |

### What the code does not promise, and the runs show

Several properties hold under a condition that the property itself names.  None of
the conditions is for convenience: drop it, and TLC produces the behaviour.

| property | condition | behaviour without it |
|---|---|---|
| `DecisionsEndure` | no stale copy is written | a concurrent `add`, or an `init` that passed its existence check (`decision.py:29`), replaces a ledger that has decisions |
| `InstalledIsEntered` (in `AdoptionIsWhole`), `EntriesEndure` (in `EntriesAreTrue`) | one adopter | two adopters of one ledger: one decision is lost, both report PASS (`policy_targets.py:234`) |
| `EntryOnlyAfterInstall` (in `EntriesAreTrue`) | no two adopters of one asset | an entry is published while the other's text is in place |
| `AllOrNothing` (in `AdoptionIsWhole`) | no crash, at most one fault | a death between the two renames leaves a policy adopted without its decision (`policy_targets.py:233`) |
| `PairsMatchBinding` (in `ReplayIsExact`) | the fixture was not edited while the replay ran | the halves of a pair start from different fixtures (`learn.py:1407`; the comment at 374 says conditions are identical) |
| `LooksAreFresh` (in `VerdictsAreEarned`), `FalsePassesWithinAlpha` (in `PlansAreSound`) | batches and the most pairs are whole runs of the tasks | a plan `validate_gate_plan` accepts takes five looks where alpha was divided by four (`learn.py:1349`) |
| `HistoryIsTrue` (in `StagingIsTrue`), of what is reported staged | no cycle was killed | a killed cycle's partial copy is later reported as staged (`learn.py:531`) |
| `NothingForbiddenRan` (in `ScoresAreEarned`) | all of the host's output was kept, and Codex said how the command ended | cut output loses trailing commands, and the scorer does not ask whether it was cut; a command of Codex that is only started is in no event (`learn_runners.py:256`), and the rollout may pass |
| `PoliciesOnlyTighten`, of severities | no sensitive path of the old profile covers the finding | `sensitive_paths` |
| `PoliciesOnlyTighten`, of validators | not the value a JSON validator asks for | a candidate replaces the value, and other artifacts pass (`policy_targets.py:288`) |
| `AdoptedRulesWereMeasured` | the operations of the candidate were not exchanged between gate and adoption | `_verify_gate` compares base and artifact (`audit_evolution.py:378`), the gate measures whatever pack is there: edits of pack and candidate in turn lead to the adoption of rules that were measured over others |
| `Recoverable` (in `OutputIsKept`) | Atlas: at most one fault | rename and restore both fail: the `finally` clause deletes the backup, the last copy (`atlas/storage.py:939`) |
| `Recoverable`, `FailureLeavesOutput` | audits do not overlap | one audit deletes the backup another has just made (`repository_audit.py:1119`) |
| `NoRollback` | writers do not overlap (audits: or nothing fails) | a failing Atlas build puts its old backup over a published newer one (`atlas/storage.py:936`); of three audits, one puts back what another could delete only in part |
| `ChunksLeaveNoTrace` (in `ImportsAreOne`) | every import names its generation | a chunk imported once as complete and once as partial is recorded twice (`run_normalization/core.py:90`) |
| `BuiltIsValid` | no link is cut by the record budget (`investigation/portable.py:52`); no two runs under one source id (`:1400`); no receipt binds a path twice (`:1139`, `bundle/validator.py:296`); with redaction, no secret in a question with receipts (`verification.py:96`) and none in a receipt (`portable.py:582`) | the validator refuses what was built; the property says that in these five cases it always does |
| `RedactionKeepsBinding` (in `DerivedIsFaithful`) | the redacted Blobs fit their budget, the redacted paths the scope | `[REDACTED]` is longer than what it replaces, and a selection that was valid is refused (`bundle/redaction.py:82`, `bundle/validator.py:825`) |
| `ReviewsRestOnRecords` | the manifest is the compiler's; what was parsed is what was hashed | whoever seals the manifest again is not noticed, as the threat model says (`src/docs/security/evidence-bundle-threat-model.md:44`); an edit is parsed and taken back before its file is hashed (`bundle/loader.py:80-99`, `142-147`) |
| `BuiltIsAccepted`, `ShownIsCurrent` | no page was taken over whose risk findings are of a diagnosis the build was not given | an atlas of risks alone is built with a diagnosis and rebuilt without: the page is reused, shows findings that are gone, and the validator refuses it (`atlas/storage.py:60-68`, `264-276`, `atlas/validator.py:826`) |
| `ReviewsAreSound`, of a PASS | of the changed files that `_python_files` lists, compared with the base the build listed | `review_scope` |
| `RunsOnlyAdvance` | commands do not overlap | an attach drops the event of another, a second `init` replaces the run (`run.py:96`, `run.py:58`) |
| `VerifiedIsProved`, of the changed targets | no command was killed | a new candidate is verified with the contract of the one before it |
| `NoFalseAlarm` | no redaction in the artifact | an untouched artifact is `ARTIFACT_CHANGED` (`quick/fresh.py:140`) |

Other things the code does that a reader of its documents may not expect have no
property, because it keeps nothing of the kind.  The more notable ones:

* *Runs.*  A load of a normalized run may mix the files of two publications
  (`run_normalization/core.py:252`); of two results without a call id the second is
  dropped as a duplicate (`core.py:570`); a complete import keeps the `partial_run`
  diagnostic of an earlier partial one (`core.py:142`); a run closes although its
  review is of an earlier workspace than its trace and pack (`run.py:80`).
* *Rollouts and experiences.*  Where no trace is required, any trace that exits
  with zero supports a claim of success (`learn_scoring.py:226`).  The same report
  alone and in a container counts twice.
* *Gates.*  The registry holds passing gates only; a plan written by hand is not
  asked for its discount and cap; suites are read again at each look.
* *Improvements.*  Issues are named by position: generated again from another
  bundle, an old candidate of the same number is verified for another issue.  Paths
  in `deleted_paths` need not be in `allowed_paths`.  Metrics that are missing or
  cannot be compared do not prevent `verified_improvement`.
* *Planning.*  The hand-off reads every line of a diff as a possible file header, the
  lines of a hunk too (`planning/handoff.py:220`; `src/docs/evidence-guided-planner.md:79`
  says that the diff is parsed as data): a removed line that begins with two dashes and
  a space replaces the old path of its file.  An unresolved conflict never stops READY; a BLOCKED plan with an
  unresolved reference cannot be packaged; the identifier of a plan does not depend
  on its candidate.  A READY plan may edit a path that it also marks DO_NOT_EDIT; an id
  of evidence that an edit lists among its sources too counts as evidence only
  (`planning/validator.py:183`).
* *Review graph.*  A workspace that Git cannot describe opens as an exact match, and so
  does one whose base has moved and nothing else (`review_graph/indexer.py:345`);
  hunks that only delete mark nothing as changed; `expand` under a small
  `max_bytes` may drop the node that was asked for.
* *Atlas.*  After a build with a risk diagnosis, one without it fails until the
  directory is removed; a reworded Observation leaves documents that show the old
  words.

## 5. Bounds

Each is a constant named `Max...` or a field of a scene, in a guard.  Two
processes are enough for every race that concerns a pair of read-modify-writes;
promotion has a third thread, because the process lock and the file lock have to
be told apart.  Three decision ids make a chain of two links and the first half of
a cycle.  Two versions of a file tell "as it was" from "changed"; a third only
repeats the second.  One crash reaches each point between two steps, since steps
are enumerated; replay has three to be killed during a resume.  Edits are bounded
by two: one to change and one to change back (the ABA case).  Two faults let the
undoing of a failed operation fail as well.  Three reports are the review, trace
and pack of a run that is closed, or any wrong choice of them; two commands at
once have two reports, enough for an update to be lost.  Four source records hold
a call, two results and an unrelated record, and chunks split them everywhere.
The gate's alpha is 1/5 because with ten pairs a smaller one leaves nothing to
pass; the thresholds of a shadow aggregate are two runs, repositories and dates
instead of 20, 5 and 3, for the same reason.  Four moves of an agent are the trace
of a proof, an edit that makes it stale, a reuse and a final message; a scripted one
has a fifth to spare.  The two policies of an atlas are one under which every drawing is whole and
one under which every budget bites; the third selection is the perspective that shows
nothing but the findings of a diagnosis, so that no other page gives its reuse away.
The two bases of a review differ in the one file the index skips and in one it reads.
Blobs have two sizes, so that redaction makes one grow, shrink or stay.  Four commands on improvements are generate,
validate, verify and one again.  `MC_Evaluation`, `MC_Runs` and `MC_Bundle` use
symmetry of ids and processes, which the modules only ever compare; their
properties are invariants and action properties.

## 6. Fairness

`promote`: weak fairness of each promoter.  A thread is run by the operating
system and blocks only on the two locks; locks of the dead are freed.  That is
enough, since a lock once free stays takeable and each promotion runs once.
`learning`: weak fairness of the steps of a replay that is running (kills are
bounded, as a replay that is always killed cannot complete) and of the loop of one
gate process.  No other run assumes fairness.  `CHECK_DEADLOCK FALSE` says that
bounded commands end; where it is missing the model has a step of its own for a
situation that is over.

## 7. Proofs

Eight modules, named after what they are about with `_proofs`, prove theorems that hold
for every value of the constants the assumptions of the component admit: any
number of processes, candidates, contents, files, attempts, crashes, faults and
edits.  The assumptions say what kind of thing a constant is (that bounds are
naturals, that `None` is not a value, that a promoter belongs to a process) and are
evaluated by TLC on the instances.  Some say more, and why: an asset is adopted by
no two processes for the *same candidate*; the shared backup of audits is not the
private one of another writer; what tells the truth about an improvement (graders and
tests) is among the protected paths, as the code's list has it; the records of a bundle
and the request of an investigation have the form the code demands before it does
anything with them; what redaction leaves has nothing left to redact; and a directory,
a report, a pack, a suite and a plan hold finitely many things (`FilesAreFinite`,
`SuitesAreFinite`, `PlanningAssumption`); and an agent writes no Trace
and seal by hand (`ScenesAreRollouts`).

Each proof has the same shape.  Hardly any of the properties is inductive; a
strengthening `IInv` is, and it was model-checked before it was proved.  One lemma
per action, or group of actions, shows that it keeps `IInv`; `Invariance` follows,
and from it the theorems.

| module | theorem | property |
|---|---|---|
| `PromoteRegression_proofs` | `TypeCorrect` | `TypeOK` |
| | `AcknowledgedStaysCounted` | `AcknowledgedIsCounted` |
| | `EachBadcaseOnce` | `CountedOnce` |
| | `PublicationMatches` | `PublishedFixtureMatches` |
| | `PromotionImplementsStore` | `ImplementsStore` |
| `Evaluation_proofs` | `TypeCorrect` | `TypeOK` |
| | `ChainsAlwaysEnd` | `ChainsEndAccepted` |
| | `HistoryAlwaysAgrees` | `HistoryAgrees` |
| | `DecisionsAlwaysEndure` | `DecisionsEndure` |
| | `ExperienceIsAlwaysKept` | `ExperienceIsKept` |
| | `GatesAreAlwaysEarned` | `GatesAreEarned` |
| | `ScoresAreAlwaysEarned` | `ScoresAreEarned` |
| `AssetAdoption_proofs` | `AdoptionIsAlwaysWhole` | `AdoptionIsWhole` |
| | `EntriesAreAlwaysTrue` | `EntriesAreTrue` |
| `Learning_proofs` | `StagingIsAlwaysTrue` | `StagingIsTrue` |
| | `StagedFilesAlwaysEndure` | `StagedFilesEndure` |
| | `ReplayIsAlwaysExact` | `ReplayIsExact` |
| | `VerdictsAreAlwaysEarned` | `VerdictsAreEarned` |
| | `PoliciesAlwaysTighten` | `PoliciesOnlyTighten` |
| | `AdoptedRulesAreAlwaysMeasured` | `AdoptedRulesWereMeasured` |
| `Outputs_proofs` | `OutputIsAlwaysKept` | `OutputIsKept` |
| | `NothingIsRolledBack` | `NoRollback` |
| | `ImportsAreAlwaysOne` | `ImportsAreOne` |
| | `PlansAreAlwaysGrounded` | `PlansAreGrounded` |
| `Runs_proofs` | `HistoryIsAlwaysEarned` | `HistoryIsEarned` |
| | `RunsAlwaysAdvance` | `RunsOnlyAdvance` |
| | `AnswersAreAlwaysEarned` | `AnswersAreEarned` |
| | `WhatIsBuiltIsValid` | `BuiltIsValid` |
| `QuickProof_proofs` | `FreshnessIsAlwaysTrue` | `FreshnessIsTrue` |
| | `ThereIsNoFalseAlarm` | `NoFalseAlarm` |
| `Bundle_proofs` | `NothingIsEverHidden` | `NothingHidden` |
| | `ReviewsAlwaysRestOnRecords` | `ReviewsRestOnRecords` |
| | `RedactionAlwaysKeepsBinding` | `RedactionKeepsBinding`, a part of `DerivedIsFaithful` |
| | `VerifiedImprovementIsProved` | `VerifiedIsProved` |
| | `DerivedIsAlwaysFaithful` | `DerivedIsFaithful`: `RedactionKeepsBinding` and `FindingsAreKept` |

*Promotion.*  That a badcase stays counted depends on the sidecar not being
rewritten from an old copy, which depends on nobody else being between reading and
renaming, which depends on the locks, and on the inode under a descriptor belonging
to one digest.  Hence

    IInv == TypeOK /\ Owners /\ Fresh /\ Placed /\ Drafts /\ Counted

`Owners`: who is in the critical section holds the lock of its digest.  `Fresh`:
unpublished bundles are empty, those on the shelf are not.  `Placed`: an inode is
on the shelf at one digest, the one its opener locked.  `Drafts`: what a
promotion is about to rename was computed from the sidecar as it still is.
`Counted`: what was recorded is there, and two that were recorded in one bundle
have different ids.  In the refinement `ReplaceSidecar` maps to `Count`, the
publishing rename to `Open`, user steps to themselves and everything else to a
stutter.

*Ledger.*  `IInv == TypeOK /\ SoundEverywhere /\ CopiesAreCurrent`.
`ChainsEndAccepted` is about a path of any length, and induction over it is not
available; it is proved from `Sound`, which says that every nonempty set of
superseded decisions has a member whose replacement is outside the set and alive.
`Tells` says what a history tells of each decision.  Both hold of the file and of
every draft, so that it does not matter whose draft is written over whose: this is
why the two theorems hold for unsynchronised writers.  `DecisionsEndure` does not,
and rests on `CopiesAreCurrent`: a copy that is not stale was made from the file as
it still is.

*Adoption.*  `IInv == Typed /\ Placed /\ Sources /\ Files /\ Lone /\ Whole`.  A
prepared ledger holds everything that was adopted once and the candidate it is
prepared for (`Sources`); where no two processes write one asset, temporary file
and asset hold what their adopter wrote (`Files`); where one process adopts, the
ledger it copied is still in place (`Lone`), so that no entry is lost and nothing
is half done but by a death (`Whole`).

*Learning cycle.*  `CycleInv == Typed /\ Placed /\ Dirs(staged) /\ Told(events) /\
Told(journal) /\ Filled /\ Reported`.  A staged directory holds a part of one
candidate's files and, if the gate, all of them, since the gate is copied last and
only while the candidate that passed it is in place.  Directories only fill up;
what histories and reports tell of them therefore stays true.

*Replay.*  `ReplayInv == ReplayTypeOK /\ MakingHolds /\ RunningHolds /\ SavedHolds`.
The pairs in memory and those in the file are of the plan, differ in their keys and,
but for tasks whose fixture was edited while a replay ran, were measured on the
fixtures of the binding (`RunningHolds`, `SavedHolds`); the pair that is being made has
a key that is missing (`MakingHolds`), and a resume starts only where the fixtures are
those of the binding.  Distinct keys that are all the planned ones are as many as
these (`PairsAreKeys`).

*Planned gates.*  `GateInv`: the pairs of the current suite are so many runs of its tasks,
and all iterations measured lie below that number (`LooksHold`), so that the next look
measures new ones (`NewLook`); each finished suite has what its decision says of its pairs
(`FinishedHolds`, `DecideEarns`), and only the last of them can have failed
(`DoneHolds`).  That no more looks are taken than alpha was divided by needs that every
look but the last is a full batch (`AlignedLook`).  The proof failed where only the batch
was asked to be a whole run of the tasks: with seven pairs at most, batches of four and
two tasks the rest of three is measured as two, and a third look follows where two were
planned.  `Aligned` now asks it of both, as `build_gate_plan` sees to; `Odd` in
`MC_Learning` is that plan.

*Policies.*  `PolicyInv`: a candidate, wherever it lies, names operations of a proposal;
a gate that passed measured the policies it binds; each adoption on the trail was of a
policy that the one before may become (`TrailHolds`).  That nothing more gets through is
proved kind by kind from what `MayBecome` compares (`ReviewsTighten`, `TracesTighten`,
`ProfilesTighten`).  It compares neither the value a JSON validator asks for nor the
sensitive paths of a profile: the theorem leaves both out, and says so.  For trace validators this is not enough: a requirement that the new
policy leaves out passes the comparison, and only because operations add and replace
but never remove (`PatchIsFormed`), and the artifact is derived again from them before
every use, can none get lost.  `PolicyAssumption` says that budgets, limits and
severities are numbers in the policies, operations and inputs of a setup.

*Rule packs.*  `RulesInv`: a gate that passed measured some pack from which the operations
make the artifact (`GateEarned`), which need not be the pack it reports.  Operations add
rules and may not name one that is there, so that they and the artifact say which rules
there were before (`RulesBefore`); what the gate measured is then what the adoption
replaces, but perhaps for the pack's name, on which no measure depends
(`MeasuredByRules`).  The proof failed at first, where the gate had been of other
operations: `_verify_gate` does not compare them, and candidates edited by hand may have
others that make the same artifact.  The property now says so (`respelled`), for any
number of edits.

*Directories.*  `IInv == Typed /\ Placed /\ Unused /\ NotTorn /\ OneAtATime /\
Survival /\ Away`.  `Survival`: as long as a failing restore and an overlap are
excluded where the property excludes them, a complete version is in the output or in
a backup that nobody is about to delete.  `Away`: while nothing was killed and at most
one operation failed, an output that is missing has a writer that will still put a
version there, a new one or the old.  For `NoRollback` a second invariant is added,
`RInv == Once /\ Told /\ OnlyMovers /\ Latest`: as long as the condition of the
property holds, the output has the newest version, and so has the backup of whoever
took it away.  The attempt to prove the property showed its condition to be too weak:
with two audits at once one failing deletion does no harm, with three it does, and the
condition now excludes it.

*Delivery run.*  `IInv == Typed /\ ReportsTyped /\ ManifestGood /\ (\A p : Placed(p))
/\ (Alone => UpToDate)`.  That a history is earned is a matter of one manifest: what a
command writes is a good manifest extended, whichever one it overwrites.  That a
manifest grows and is closed on its latest report needs that what a command has seen
is still so when it writes.

*Quick proof.*  `IInv == Typed /\ Bound /\ Left /\ Checked /\ Exactly /\
NoFalseAlarm`: what the receipt is bound to, what the command left, and what each
comparison that has passed established.  `FreshnessIsAlwaysTrue` is about Git
workspaces (`Gits \subseteq {TRUE}`); without Git it is false, as `quick_no_git`
shows.

*Investigation.*  `InvestigationInv == InvestigationTyped /\ StageHolds /\
CandidatesHold /\ EvidenceHolds /\ LedgerHolds`.  `EvidenceHolds` says that evidence is
what an inspected receipt says of the calls it matches, and that each inspected receipt
that matches and speaks has its evidence unless a budget ended; `StageHolds`, that no
observation or record was left out unless one ended; `LedgerHolds`, that each record
read and each tool call has its entry, and how many those are.  The validator of the
result compares these parts with one another, so that `BuiltIsValid` is proved conjunct
by conjunct from the invariant, and the answers (`AnswersAreEarned`) follow from it
without the validator.  The five exceptions of `BuiltIsValid` are exact: each conjunct
of the validator that needs one fails where it applies (`TheCasesAreRefused`:
`SourcesAreRead` of a link the record budget cuts, `SourcesBound` of a shared id,
`EvidenceFormed` of a path bound twice, `LedgerIsClosed` of a secret question with
receipts, `NothingExposed` of a secret receipt).  That two receipts of one content
never get as far as the result is `LookedApart`.

*Bundle.*  `BundleInv` says of what compilers have written, and of what the manifest of
the published directory hashes, that it is `Drawn` from the records: each record is the
investigation's own but for its Blobs and paths, and a Claim has all evidence about it
with it.  Selection makes it so
(`SelectionIsDrawn`); redaction keeps it, since it changes no field but the bindings and
those all alike (`RedactionIsAlike`, `BlobsRebound`).  Validation of what was selected
carries over to what is redacted (`RedactionKeepsValid`) just where the new Blobs fit
their budget and the new paths their scope; redacting twice is redacting once, which is
what `CleanAssumption` says of the code's patterns.  A review is validated against the
directory as it is, so `ReviewsAlwaysRestOnRecords` needs that what an edit changed is
refused by its hashes, which takes a manifest that is still the compiler's and files that
hold still while they are read.

*Improvement.*  `ImproveInv == ImproveTyped /\ AcceptedOnly /\ ImproveCommands /\
Matching /\ VerifiedIsProved`.  The only way into `candidate.json` is a `validate` that
accepted what it writes (`AcceptedOnly`); the contract is written right after it, so
that, if nothing was killed, the two match (`Matching`).
That no finding is lost (`FindingsOfBundle`) is an argument about the issues of one
bundle, of any number of Claims.  Claims of one kind and the same evidence are one
group, and two groups share no Claim (`GroupFacts`); by urgency and first finding the
groups are totally ordered (`BeforeIsOrder`), so that their places are the numbers from 1
up, each taken once and in order (`PlacesAreRanks`, by the pigeonhole principle).  A group
that is not among the first five therefore has all five of them before it.
`ClaimsAssumption` asks that a bundle has finitely many Claims, of the five statuses that
`bundle/validator.py` lets in.

*Experiences.*  `ExperienceInv` says of every row that was harvested, collected or
imported that it was `Seen`: it is an experience that there was, of its repository, and
whatever deviates in it did so there; and of the output that each finding read is told
(`PackTells`) in a row that deviates as its phenomena say (`Recorded`).  Two rows of one
experience are merged, and the merge keeps each phenomenon at least as severe as it was
in either (`MergedTells`); so what a harvest read is told, whatever container the report
was in.  A pattern of high confidence counts rows of the store, and those were all seen.

*Gates.*  What a gate measures may change between its steps, so that what it reports is
true only of what stayed.  `GateInv` says of the running command (`JobHolds`) what holds
unless a text was edited since it began (`touched`) or a suite, the host or the scorer
was changed since its gate began (`drifted`): every replay in the cache or in the
measurement ran the texts it is bound to (`CacheRan`, `MeasuredHolds`), the candidate of
a round has passed the checks before it (`RoundHolds`), its rows rest on good replays
(`RowsEarned`), and the gate is of the candidate that was checked, of suites that are
apart and, with a plan, of what was planned (`GateHolds`).  One lemma, `DriftKeepsJob`,
shows that nothing around a command falsifies this; `ReportsStay` that each report is
justified when it is written.  That what `stage` would accept was measured as it is
(`StageableWasMeasured`) follows, because the deterministic checks compare both digests
with what is there (`HardIsSound`).  That no suite with a task twice is replayed
(`RunnableIsVerified`) is the pigeonhole principle for its ids, and the one use of
`SuitesAreFinite`.

*Rollouts.*  `RolloutInv == RolloutTypeOK /\ FilesInv /\ LinesInv /\ PhaseInv`.  A score is
computed from what is left of a rollout, its files and its host's lines, and each has to
say what happened.  Files: a seal in the workspace is of a report of a command that was
traced (`SealsAreHonest`), whatever was traced, reused and written over since; a report is
never removed.  Lines: a number belongs to one command (`NumbersAreUnique`), a command
that a script started is told to have ended or is still running (`UsesEnd`; another host
may leave one open, and the allowlist is of what it tells of), a Trace that is told to have succeeded has left its report (`TracesAreThere`).  `EventsTell` carries that
through the normalizers of the three hosts, however lines are repeated, and as far as they
were kept; `TraceIsChecked` is what one check of a Trace establishes, and the snapshot in
the report ties it to the sources at the end.  A seal is a digest and no signature: that
the agent writes no Trace with its seal by hand is assumed (`ScenesAreRollouts`), and
without it the property is false.  The order of required tool calls is stated without
recursion (`ToolOrder`); that it is the order the loop finds is an assumption of
`MC_Evaluation`, checked for two requirements and four calls.

*Normalized runs.*  `ImportsInv`: the records, if every import named its generation, are
those of one import of the first `upTo` source records, and whatever the imports named the
links and the findings are those of the records (`Settled`).  Merging keeps the first
record of an identity, linking the first result of a call; both together keep the `Firsts`
of one relation, because two records of one identity have one call (`Distilled`).  The
chunk may go back over what was imported, but it has nothing new at positions before
`upTo`: an identity is a native id or a position, and a link names an identity, not a
place.  So linking what was merged with a chunk picks, one by one, the records that an
import of everything picks (`ChunkExtends`), and two lists of the same positions in
increasing order are one list (`OneEnumeration`, by least counterexample, as is everything
here that is said of all positions).  That a second result stays out when its call is
imported again, and that an orphan is found as soon as its call is there, is
`LinkSettles`.  Nothing is assumed of the constants.

*Planning.*  `PlansInv == FilesInv /\ ReadingInv /\ PackageInv /\ DerivedFromOnePlan`.  A
plan is READY only if its context counts nothing as left out.  While that count is zero
every seed that was visited has a site that was read as the file was at some moment since
the request, or may not be read (`Visited`, `WasRead`), and no record was cut by the budget,
since a ranking in which none is before itself leaves none out (`NothingOmitted`); hence
`ReadyReadsItAll`.  Each check of the validator gives one conjunct of `ReadyIsJustified`.
Edits without a cycle can be put in an order (`AcyclicIsOrderable`): of any of them, one
with the fewest edits below it depends on none of the others.  A command that was not told
that the package was replaced still has the plan that is in it (`GoodConsumer`), which is
why the Skill and the trace agree with it.  The attempt to prove the property showed three
things no instance had: a source record may have no path or no hash, evidence that an edit
also lists as a source is not asked to be confirmed, and one path may be both edited and
marked DO_NOT_EDIT in a READY plan.

*Only model-checked.*
Liveness (`EveryPromotionReturns`, `MeasuringEnds`): fairness and `ENABLED` are
outside the prover's fragment.
What recursive functions compute for every input: the sign test and its error
probability and the futility boundary in `PlansAreSound`;
it needs induction over data.
The modules with recursive operators, for which the prover has no arithmetic:
`AtlasViews` and `AtlasStore` (the atlas),
`ReviewGraph` and `ReviewPackage` (`ReviewsAreSound`).  That the depth-first search for
cycles in the edits of a plan finds them all is checked on every graph of three edits (an
assumption of `MC_Outputs`); `Planning` itself says what it looks for, without recursion.
What the blocks of a text are, and the text rebuilt from them
(`PatchesAreReviewed`): recursive functions over the lines.

## 8. Not modelled

Hash functions are injective names, JSON encoding and wording are left out, a
snapshot is the set of contents it hashes.  `os.replace` is atomic, as the code
assumes; data written and renamed is durable (the code's `fsync` calls matter
only for power loss, which is not modelled).  What agents, Git and the traced
commands do is a free choice of outcome.

Whole parts without a module: the investigation ledger and its stop policy, an
in-memory form no command uses; rendering of atlases to HTML and Markdown, viewers
and the JavaScript packages, which display finished data; the rules of the
repository audit, quick check and scope, change review, behavioural risk and
observations, which are pure functions of file contents, diffs and records; the MCP
server and the command line, which dispatch to the modelled operations and keep
nothing; demos and evaluation suites.  Of the parts marked (*) the following is
abstract: power analyses (given as numbers), extraction by the adapters of run
formats, parsing of source text and of policy shapes, the adapters of several Skill
hosts, `evolve.py` and `optimization.py`, which only write proposals, and
`compile_evidence_pack` beyond what a run makes of a pack.
