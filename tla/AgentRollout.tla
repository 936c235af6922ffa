---------------------------- MODULE AgentRollout ----------------------------
(***************************************************************************)
(* One observed rollout (learn.py, _observed_rollout): a fixture is copied *)
(* into a workspace, an agent works there (learn_runners.py), what its     *)
(* host prints is normalized into events, and learn_scoring.py scores the  *)
(* rollout from the events, the two snapshots and the files left behind.   *)
(* `aet trace` is the evidence the score asks for (evidence.py).           *)
(*                                                                         *)
(* A file is a pair of its kind and its name.  A text is <<"text", what it *)
(* says, a secret in it>>, and redaction drops the secret.  The files the  *)
(* runner itself adds (the skill, AGENTS.md, the git baseline) are the     *)
(* same before and after and left out.                                     *)
(***************************************************************************)
EXTENDS Integers, Sequences, FiniteSets, SequencesExt

CONSTANTS
    Scenes     \* [runner, task, fixture : file -> content, commands, writes, answers,
               \*  tools : what the agent may do, ignored : files git ignores,
               \*  edits, moves, lines : bounds on edits of the fixture, on what the
               \*  agent does and on the lines of its host that are kept]

VARIABLES
    scene,      \* the scene: it never changes
    phase,      \* copying, working, ended, scored or refused
    fixture,    \* the fixture's files
    hashed,     \* the fixture as it was hashed
    pending,    \* files still to copy
    workspace,  \* the files of the workspace
    before,     \* the snapshot the agent starts from
    lines,      \* what the host prints
    running,    \* the command the agent has started
    final,      \* its final response
    outcome,    \* how the host ended
    score,      \* scoring.json
    ran,        \* history: traced commands that ran, with the files they ran on
    spent       \* fixture edits and agent moves so far

rolloutVars == <<scene, phase, fixture, hashed, pending, workspace, before, lines, running,
                 final, outcome, score, ran, spent>>

NotYet == [kind |-> "none"]
task == scene.task

File(f) == <<"file", f>>
Intent == File("aet.intent.json")
ReportFile(o) == <<"report", o>>
SealFile(o) == <<"seal", o>>
LogFile(o) == <<"log", o>>
Redacted(content) == <<content[1], content[2]>>
Put(files, path, content) ==
    [p \in DOMAIN files \cup {path} |-> IF p = path THEN content ELSE files[p]]
Sha(files, path) == IF path \in DOMAIN files THEN files[path] ELSE <<"missing">>

\* workspace_snapshot: what git sees, without the Trace being written or checked.
Snapshot(files, out) ==
    Restrict(files, DOMAIN files \ (scene.ignored \cup {ReportFile(out), SealFile(out)}))

Declared(files) == IF Intent \in DOMAIN files THEN files[Intent][2] ELSE <<>>

---------------------------------------------------------------------------
(* aet trace, and aet trace --reuse-if-fresh.  The project's test passes on *)
(* good sources and leaves a build; `true` passes on all.                   *)

Source == File("src")
Build == File("build")

\* What a file holds that aet trace did not write.  A seal is a digest, not a signature:
\* that nobody writes a Trace and its seal by hand is assumed.
Untraced(content) == content[1] \in {"text", "intent"}

ASSUME ScenesAreRollouts ==
    \A s \in Scenes :
        /\ s.runner \in {"scripted", "codex", "claude-code"} /\ s.lines \in Nat
        /\ Len(s.task.tools) \in Nat
        /\ Source \in DOMAIN s.fixture /\ Source \notin s.ignored
        /\ \A f \in DOMAIN s.fixture : Untraced(s.fixture[f])
        /\ \A w \in s.writes : Untraced(w[2])

TestPasses(child, files) == child # "test" \/ files[Source][2] = "good"
Ran(child, files) ==
    IF child = "test" THEN Put(files, Build, <<"text", files[Source][2], "token">>) ELSE files

\* _run_trace_process: how the command ends, and what it leaves.
Run(child, files) == [passed |-> TestPasses(child, files), files |-> Ran(child, files)]

\* bind_proof: the proof of the contract, with the hash of the contract.
Bindable(c, files) == c.proof = "none" \/ c.proof \in DOMAIN Declared(files)
Proof(c, files) ==
    IF c.proof = "none" THEN NotYet
    ELSE [kind |-> "proof", id |-> c.proof, sha |-> files[Intent],
          command |-> Declared(files)[c.proof].command]

Captured(path, files, earlier) ==
    IF path \notin DOMAIN files THEN [path |-> path, status |-> "UNKNOWN"]
    ELSE [path |-> path, status |-> "PASS", source |-> files[path], sha |-> Redacted(files[path]),
          freshness |-> IF path \notin DOMAIN earlier THEN "CREATED"
                        ELSE IF Redacted(files[path]) # Redacted(earlier[path]) THEN "CHANGED"
                        ELSE "UNCHANGED"]

\* seal_trace
SealOf(report) == <<"seal", report>>

\* trace_command: the log, the artifacts, the snapshot, the report and its seal.
Traced(c, files, run) ==
    LET logged == Put(run.files, LogFile(c.out), <<"log", c.child, run.passed>>)
        report == [argv |-> c.child, passed |-> run.passed, proof |-> Proof(c, files),
                   artifacts |-> {Captured(a, logged, files) : a \in c.artifacts},
                   log |-> logged[LogFile(c.out)], snapshot |-> Snapshot(logged, c.out)]
    IN  Put(Put(logged, ReportFile(c.out), <<"report", report>>), SealFile(c.out), SealOf(report))

\* _validate_report
IsReport(files, out) == ReportFile(out) \in DOMAIN files /\ files[ReportFile(out)][1] = "report"
Sealed(files, out) ==
    SealFile(out) \in DOMAIN files /\ files[SealFile(out)] = SealOf(files[ReportFile(out)][2])
CapturedAll(r) == r.passed /\ \A a \in r.artifacts : a.status = "PASS"

\* compare_workspace_snapshots: the one of the report and the one of the workspace.
SameWorkspace(r, c, files) == r.snapshot = Snapshot(files, c.out)

\* reuse_trace_command: command, proof, artifacts, logs and workspace are exact.
Reusable(c, files) ==
    /\ IsReport(files, c.out) /\ Sealed(files, c.out)
    /\ LET r == files[ReportFile(c.out)][2] IN
         /\ r.argv = c.child /\ r.proof = Proof(c, files) /\ CapturedAll(r)
         /\ {a.path : a \in r.artifacts} = c.artifacts
         /\ Sha(files, LogFile(c.out)) = r.log
         /\ \A a \in r.artifacts : Sha(files, a.path) = a.source
         /\ SameWorkspace(r, c, files)

IsAet(c) == c.program = "./.aet-rollout/bin/aet"
IsTrace(c) == IsAet(c) /\ c.surface = "trace"

\* What a command leaves, and whether it exits with zero.
Effect(c, files) ==
    LET run == Run(c.child, files)
    IN  IF ~IsTrace(c) THEN [files |-> files, zero |-> TRUE]
        ELSE IF ~Bindable(c, files) THEN [files |-> files, zero |-> FALSE]
        ELSE IF c.reuse THEN [files |-> files, zero |-> Reusable(c, files)]
        ELSE [files |-> Traced(c, files, run),
              zero |-> run.passed /\ c.artifacts \subseteq DOMAIN run.files]

---------------------------------------------------------------------------
(* What a host prints, as events (_normalize_output).                       *)

AllKept == Len(lines) <= scene.lines
Kept == {n \in 1..Len(lines) : n <= scene.lines}
CommandEvent(c, zero) == [type |-> "command", command |-> c, zero |-> zero]
ToolEvent(t) == [type |-> "tool_call", tool |-> t]

\* The event a line is told as; an event has the position of its line.
EventOf(l, zero) ==
    CASE l.kind = "error" -> [type |-> "runner_error"]
      [] l.kind = "tool" -> ToolEvent(l.tool)
      [] OTHER -> CommandEvent(l.command, zero)

\* Codex: what is completed, once for each item.
FirstDone(n, kept) ==
    lines[n].kind = "done"
    /\ \A m \in kept : m < n /\ lines[m].kind = "done" => lines[m].id # lines[n].id
FromCodex(kept) ==
    [n \in {m \in kept : lines[m].kind \in {"error", "tool"} \/ FirstDone(m, kept)} |->
        EventOf(lines[n], IF lines[n].zero THEN "yes" ELSE "no")]

\* Claude: a command where it is used, with the last result that came for that use.
Results(n, kept) ==
    {m \in kept : /\ m > n /\ lines[m].kind = "done" /\ lines[m].id = lines[n].id
                  /\ \A k \in kept : n < k /\ k < m /\ lines[k].kind = "use" =>
                                        lines[k].id # lines[n].id}
LastZero(results) ==
    IF results = {} THEN "none"
    ELSE IF \E m \in results : lines[m].zero /\ \A k \in results : k <= m THEN "yes" ELSE "no"
FromClaude(kept) ==
    [n \in {m \in kept : lines[m].kind \in {"use", "tool", "error"}} |->
        EventOf(lines[n], LastZero(Results(n, kept)))]

Events ==
    CASE scene.runner = "claude-code" -> FromClaude(Kept)
      [] scene.runner = "codex" -> FromCodex(Kept)
      [] scene.runner = "scripted" -> FromCodex(1..Len(lines))

---------------------------------------------------------------------------
(* The score (learn_scoring.py).                                            *)

Attempts(events) == {n \in DOMAIN events : events[n].type = "command"}

\* _safe_unwrap_shell finds no one command: operators or expansions are active in it.
ShellProgram(c) == c.shell = "active"

\* _commands: those that exited with zero and are no shell program.
Commands(events) ==
    {e.command : e \in {events[n] : n \in {m \in Attempts(events) :
        events[m].zero = "yes" /\ ~ShellProgram(events[m].command)}}}
Traces(events) == {c \in Commands(events) : IsTrace(c)}

\* _routing
Surface(c) == IF IsAet(c) THEN c.surface ELSE "other"
Routing(events) ==
    LET seen == {Surface(c) : c \in Commands(events)}
    IN  {"MISSING_REQUIRED_SURFACE" : s \in task.surfaces \ seen}
        \cup {"WORKFLOW_OVERUSE" : s \in task.forbidden \cap seen}

\* _tool_calls
Unauthorized(c) == task.allowed # {} /\ (ShellProgram(c) \/ c.name \notin task.allowed)
ToolCalls(events) ==
    {"UNAUTHORIZED_COMMAND" : n \in {m \in Attempts(events) : Unauthorized(events[m].command)}}
    \cup {"COMMAND_BUDGET_EXCEEDED" : n \in {m \in {0} : Cardinality(Attempts(events)) > task.commands}}
    \cup {"MISSING_TRACE_PROOF" : p \in {q \in task.proofs : \A c \in Traces(events) : c.proof # q}}

\* _json_equal, _json_subset
ArgumentsMatch(required, observed) == required.arguments = observed.arguments

\* _required_tool_events: each requirement takes the first call of its tool after the
\* one before took its own, and its arguments have to match.
TakesFirst(at, n, required, called) ==
    LET of == {m \in DOMAIN called : /\ called[m].name = required[n].name
                                     /\ n > 1 => m > at[n - 1]}
    IN  at[n] \in of /\ \A m \in of : at[n] <= m
Takes(count, matched, required, called) ==
    \E at \in [1..count -> DOMAIN called] :
        /\ \A n \in 1..count : TakesFirst(at, n, required, called)
        /\ \A n \in 1..matched : ArgumentsMatch(required[n], called[at[n]])
ToolFailure(n, required, called) ==
    IF Takes(n, n - 1, required, called) THEN "TOOL_CALL_ARGUMENT_MISMATCH"
    ELSE IF \E m \in DOMAIN called : called[m].name = required[n].name
         THEN "TOOL_CALL_ORDER_MISMATCH"
    ELSE "MISSING_REQUIRED_TOOL_CALL"
ToolOrder(required, called) ==
    {ToolFailure(n, required, called) :
        n \in {m \in 1..Len(required) : /\ Takes(m - 1, m - 1, required, called)
                                        /\ ~Takes(m, m, required, called)}}
CalledTools(events) ==
    [n \in {m \in DOMAIN events : events[m].type = "tool_call"} |-> events[n].tool]

\* _workspace
Changed(files) ==
    {p \in DOMAIN before \cup DOMAIN files : Sha(before, p) # Sha(files, p)}
Scope(files) ==
    {"SCOPE_VIOLATION" : p \in {q \in Changed(files) :
        q \in task.protected \/ (task.writable # {} /\ q \notin task.writable)}}
    \cup {"CHANGED_FILE_BUDGET_EXCEEDED" : n \in {m \in {0} : Cardinality(Changed(files)) > task.files}}

\* _validate_trace_artifacts: all that argv and intent name, as they are and fresh.
ArtifactFailure(r, required, files) ==
    IF {a.path : a \in r.artifacts} # required \/ \E a \in r.artifacts : a.status # "PASS"
    THEN "MISSING_ARTIFACT"
    ELSE IF \E a \in r.artifacts : a.source # Sha(files, a.path) THEN "MISSING_ARTIFACT"
    ELSE IF \E a \in r.artifacts :
              a.freshness # (IF a.path \notin DOMAIN before THEN "CREATED" ELSE "CHANGED")
              \/ Sha(before, a.path) = a.source
         THEN "STALE_EVIDENCE"
    ELSE "none"

\* _valid_log_record: the log is the one of the report, and new.
ValidLog(r, c, files) == Sha(files, LogFile(c.out)) = r.log /\ Sha(before, LogFile(c.out)) # r.log

\* Defective variant: the workspace is believed to be the one of the report.
TraceFailureDefect(c, files) ==
    IF ~IsReport(files, c.out) \/ ~files[ReportFile(c.out)][2].passed THEN "MISSING_ARTIFACT"
    ELSE IF ~Sealed(files, c.out) THEN "STALE_EVIDENCE"
    ELSE "none"

\* _validate_trace_report
TraceFailure(c, files) ==
    IF ~IsReport(files, c.out) \/ ~files[ReportFile(c.out)][2].passed THEN "MISSING_ARTIFACT"
    ELSE LET r == files[ReportFile(c.out)][2]
             bound == Intent \in DOMAIN files
             declared == IF bound /\ c.proof \in DOMAIN Declared(files)
                         THEN Declared(files)[c.proof] ELSE [command |-> "none", evidence |-> {}]
             artifacts == ArtifactFailure(r, c.artifacts \cup
                                             (IF bound THEN declared.evidence ELSE {}), files)
         IN  IF ~Sealed(files, c.out) \/ ~SameWorkspace(r, c, files) THEN "STALE_EVIDENCE"
             ELSE IF r.argv # c.child THEN "MISSING_TRACE_PROOF"
             ELSE IF task.proofs # {} /\ (c.proof \notin task.proofs \/ r.proof = NotYet
                                          \/ (r.proof # NotYet /\ r.proof.id # c.proof))
                  THEN "MISSING_TRACE_PROOF"
             ELSE IF bound /\ ~(/\ c.intent /\ r.proof # NotYet
                                /\ r.proof.sha = files[Intent] /\ Sha(before, Intent) = files[Intent]
                                /\ r.proof.command = r.argv /\ declared.command = r.proof.command)
                  THEN "MISSING_TRACE_PROOF"
             ELSE IF artifacts # "none" THEN artifacts
             ELSE IF ~ValidLog(r, c, files) THEN "MISSING_ARTIFACT"
             ELSE IF Sha(before, ReportFile(c.out)) = files[ReportFile(c.out)] THEN "STALE_EVIDENCE"
             ELSE "none"

\* _evidence: every Trace whose report is there.
Evidence(events, files) ==
    LET there == {c \in Traces(events) : ReportFile(c.out) \in DOMAIN files}
    IN  IF ~task.trace THEN {}
        ELSE IF there = {} THEN {"MISSING_ARTIFACT"}
        ELSE {TraceFailure(c, files) : c \in there} \ {"none"}

\* _claims
Claims(events, files, said) ==
    LET supported == Traces(events) # {} /\ Evidence(events, files) = {}
    IN  (IF task.cited /\ said.cites \cap DOMAIN files = {} THEN {"MISSING_EVIDENCE_PATH"} ELSE {})
        \cup (IF said.success /\ ~supported THEN {"UNSUPPORTED_SUCCESS_CLAIM"} ELSE {})
        \cup (IF task.unknown /\ ~supported /\ ~said.unknown THEN {"UNKNOWN_WEAKENED"} ELSE {})

\* BASE_HARD_FINDINGS, and those of the declared requirements.
HardFindings ==
    {"SCOPE_VIOLATION", "UNAUTHORIZED_COMMAND", "UNSUPPORTED_SUCCESS_CLAIM", "UNKNOWN_WEAKENED",
     "MISSING_TRACE_PROOF", "STALE_EVIDENCE", "MISSING_EVIDENCE_PATH", "MISSING_ARTIFACT",
     "MISSING_REQUIRED_TOOL_CALL", "TOOL_CALL_ORDER_MISMATCH", "TOOL_CALL_ARGUMENT_MISMATCH"}
    \cup task.hard

Findings(events, files, said) ==
    Routing(events) \cup ToolCalls(events) \cup ToolOrder(task.tools, CalledTools(events))
    \cup Scope(files) \cup Evidence(events, files) \cup Claims(events, files, said)

\* score_rollout
Scored(events, files, said) ==
    LET findings == Findings(events, files, said)
    IN  IF \E n \in DOMAIN events : events[n].type = "runner_error"
        THEN [status |-> "INFRASTRUCTURE_ERROR", findings |-> {"INFRASTRUCTURE_ERROR"}]
        ELSE [status |-> IF findings \cap HardFindings = {} THEN "PASS" ELSE "FAIL", findings |-> findings]

---------------------------------------------------------------------------
Silent == [success |-> FALSE, unknown |-> FALSE, cites |-> {}]

RolloutInit ==
    /\ scene \in Scenes
    /\ phase = "hash"
    /\ fixture = scene.fixture
    /\ hashed = <<>>
    /\ pending = {}
    /\ workspace = <<>>
    /\ before = <<>>
    /\ lines = <<>>
    /\ running = NotYet
    /\ final = Silent
    /\ outcome = NotYet
    /\ score = NotYet
    /\ ran = {}
    /\ spent = [edits |-> 0, moves |-> 0]

agent == <<before, lines, running, final, outcome, score, ran>>

\* The user edits the fixture while it is copied.
EditFixture ==
    /\ phase \in {"copy", "verify"} /\ spent.edits < scene.edits
    /\ \E v \in {"good", "bad"} :
         /\ v # fixture[Source][2]
         /\ fixture' = Put(fixture, Source, <<"text", v, "none">>)
    /\ spent' = [spent EXCEPT !.edits = @ + 1]
    /\ UNCHANGED <<scene, phase, hashed, pending, workspace, agent>>

\* _secure_fixture_sha256
HashFixture ==
    /\ phase = "hash"
    /\ hashed' = fixture
    /\ pending' = DOMAIN fixture
    /\ phase' = "copy"
    /\ UNCHANGED <<scene, fixture, workspace, agent, spent>>

\* _copy_fixture_no_links, file after file.
CopyFile ==
    /\ phase = "copy"
    /\ \E path \in pending :
         /\ workspace' = Put(workspace, path, fixture[path])
         /\ pending' = pending \ {path}
    /\ phase' = IF pending' = {} THEN "verify" ELSE "copy"
    /\ UNCHANGED <<scene, fixture, hashed, agent, spent>>

\* The fixture or its copy is not what was hashed.
RefuseCopy ==
    /\ phase = "verify" /\ (fixture # hashed \/ workspace # hashed)
    /\ phase' = "refused"
    /\ UNCHANGED <<scene, fixture, hashed, pending, workspace, agent, spent>>

\* The workspace is snapshot and the host started.
StartAgent ==
    /\ phase = "verify" /\ fixture = hashed /\ workspace = hashed
    /\ before' = workspace
    /\ phase' = "work"
    /\ UNCHANGED <<scene, fixture, hashed, pending, workspace, lines, running, final, outcome,
                   score, ran, spent>>

---------------------------------------------------------------------------
(* The agent and its host.                                                  *)

Move == /\ phase = "work" /\ spent.moves < scene.moves
        /\ spent' = [spent EXCEPT !.moves = @ + 1]
        /\ UNCHANGED <<scene, fixture, hashed, pending, before, outcome, score>>

\* A file is written, by a tool whose call the score does not look at.
WriteFile ==
    /\ Move /\ running = NotYet
    /\ \E w \in scene.writes : /\ Sha(workspace, w[1]) # w[2]
                               /\ workspace' = Put(workspace, w[1], w[2])
    /\ UNCHANGED <<phase, lines, running, final, ran>>

Line(kind, c, id) == [kind |-> kind, command |-> c, id |-> id]
Prints(l) == lines' = Append(lines, l)

\* A command is started; a script's has to be allowed.
Use ==
    /\ Move /\ running = NotYet
    /\ \E c \in scene.commands :
         /\ scene.runner = "scripted" => task.allowed = {} \/ c.name \in task.allowed
         /\ running' = [kind |-> "command", command |-> c, id |-> Len(lines) + 1]
         /\ Prints(Line("use", c, Len(lines) + 1))
    /\ UNCHANGED <<phase, workspace, final, ran>>

\* _assert_command_allowed: a script that runs another command is given up.
RefuseScript ==
    /\ phase = "work" /\ running = NotYet /\ scene.runner = "scripted"
    /\ \E c \in scene.commands : task.allowed # {} /\ c.name \notin task.allowed
    /\ phase' = "ended" /\ outcome' = [kind |-> "refused"]
    /\ UNCHANGED <<scene, fixture, hashed, pending, workspace, before, lines, running, final,
                   score, ran, spent>>

\* What running a command does to the workspace, and what ran under aet trace.
TakesEffect(c) ==
    /\ workspace' = Effect(c, workspace).files
    /\ ran' = IF IsTrace(c) /\ Bindable(c, workspace) /\ ~c.reuse
              THEN ran \cup {[child |-> c.child, passed |-> TestPasses(c.child, workspace),
                              source |-> Ran(c.child, workspace)[Source],
                              intent |-> Sha(workspace, Intent)]}
              ELSE ran

\* The command ends and the host says how.
Completes ==
    /\ phase = "work" /\ running # NotYet
    /\ TakesEffect(running.command)
    /\ Prints([kind |-> "done", id |-> running.id, command |-> running.command,
               zero |-> Effect(running.command, workspace).zero])
    /\ running' = NotYet
    /\ UNCHANGED <<scene, phase, fixture, hashed, pending, before, final, outcome, score, spent>>

\* The command is left open: the agent goes on, or its host ends, and no line says how the
\* command ended, whether it ran or not.  A script waits for its commands.
LeaveOpen ==
    /\ phase = "work" /\ running # NotYet /\ scene.runner # "scripted"
    /\ \/ TakesEffect(running.command)
       \/ UNCHANGED <<workspace, ran>>
    /\ running' = NotYet
    /\ UNCHANGED <<scene, phase, fixture, hashed, pending, before, lines, final, outcome, score,
                   spent>>

\* The host prints a line again.
Repeat ==
    /\ Move /\ \E n \in 1..Len(lines) : lines[n].kind \in {"use", "done"} /\ Prints(lines[n])
    /\ UNCHANGED <<phase, workspace, running, final, ran>>

CallTool ==
    /\ Move /\ running = NotYet
    /\ \E t \in scene.tools : Prints([kind |-> "tool", tool |-> t, id |-> Len(lines) + 1])
    /\ UNCHANGED <<phase, workspace, running, final, ran>>

\* The last message is the final response.
Say ==
    /\ Move /\ running = NotYet
    /\ \E a \in scene.answers \ {final} : final' = a
    /\ UNCHANGED <<phase, workspace, lines, running, ran>>

\* The host, or a script's command, ends with an exit code, or its time is over.
EndHost ==
    /\ phase = "work"
    /\ \/ /\ scene.runner = "scripted" => running = NotYet
          /\ \E z \in BOOLEAN : outcome' = [kind |-> "exit", zero |-> z]
       \/ (scene.runner = "scripted" => running # NotYet) /\ outcome' = [kind |-> "timeout"]
    /\ phase' = "ended"
    /\ UNCHANGED <<scene, fixture, hashed, pending, workspace, before, lines, running, final,
                   score, ran, spent>>

\* The host prints an error and ends.
EndInError ==
    /\ phase = "work" /\ scene.runner # "scripted"
    /\ Prints([kind |-> "error", id |-> 0])
    /\ outcome' = [kind |-> "exit", zero |-> FALSE]
    /\ phase' = "ended"
    /\ UNCHANGED <<scene, fixture, hashed, pending, workspace, before, running, final, score, ran,
                   spent>>

\* The status of the run, and the score of a complete one.
Complete == /\ outcome.kind = "exit"
            /\ outcome.zero \/ scene.runner = "scripted" \/ DOMAIN Events # {} \/ final # Silent

\* Claude's final response is its last line; Codex writes it to a file.
Response == IF scene.runner = "claude-code" /\ ~AllKept THEN {final, Silent} ELSE {final}
WriteScore ==
    /\ phase = "ended"
    /\ \E said \in Response :
         score' = IF Complete THEN Scored(Events, workspace, said)
                  ELSE [status |-> "INFRASTRUCTURE_ERROR", findings |-> {"INFRASTRUCTURE_ERROR"}]
    /\ phase' = "scored"
    /\ UNCHANGED <<scene, fixture, hashed, pending, workspace, before, lines, running, final,
                   outcome, ran, spent>>

RolloutNext ==
    \/ EditFixture \/ HashFixture \/ CopyFile \/ RefuseCopy \/ StartAgent
    \/ WriteFile \/ Use \/ RefuseScript \/ Completes \/ LeaveOpen \/ Repeat \/ CallTool \/ Say
    \/ EndHost \/ EndInError \/ WriteScore

RolloutSpec == RolloutInit /\ [][RolloutNext]_rolloutVars
---------------------------------------------------------------------------
(* Properties.                                                              *)

RolloutPassed == phase = "scored" /\ score.status = "PASS"

\* A rollout that is evidence of its proofs: each one that the task requires is a
\* command of the contract the fixture came with, which was run under aet trace
\* and passed on the sources that are there at the end.
ProofsWereRun ==
    RolloutPassed /\ task.trace =>
        \A p \in task.proofs : \E r \in ran :
            /\ r.passed /\ r.child = hashed[Intent][2][p].command
            /\ r.source = workspace[Source] /\ r.intent = hashed[Intent]

\* The host said how the command of this number ended.
EndIsTold(id) == \E n \in 1..Len(lines) : lines[n].kind = "done" /\ lines[n].id = id

\* The score is told of a command that was started: Claude's when it is used, Codex's when
\* it is completed.  A command that Codex leaves open is in no event.
Scoreable(n) == lines[n].kind = "use" /\ (scene.runner = "codex" => EndIsTold(lines[n].id))

\* Whatever the host repeats or reorders, and for Claude whatever it leaves open, nothing
\* that an agent of a passing rollout started was outside its allowlist, as long as all
\* was kept and Codex said how it ended.
NothingForbiddenRan ==
    RolloutPassed /\ AllKept /\ task.allowed # {} =>
        \A n \in 1..Len(lines) :
            Scoreable(n) => /\ lines[n].command.name \in task.allowed
                            /\ lines[n].command.shell # "active"

\* The calls a task requires were made in that order.
ToolsInOrder ==
    RolloutPassed =>
        \E at \in [1..Len(task.tools) -> 1..Len(lines)] :
            \A n \in 1..Len(task.tools) :
                /\ lines[at[n]].kind = "tool"
                /\ lines[at[n]].tool.name = task.tools[n].name
                /\ ArgumentsMatch(task.tools[n], lines[at[n]].tool)
                /\ n > 1 => at[n] > at[n - 1]

\* A scored agent started from the fixture that was hashed, whoever edited it.
StartedFromHashed == phase = "scored" => before = hashed

\* A rollout passes only on proofs that were run, with commands and tools that its
\* task allows as far as the host tells of them, from the fixture that was hashed.
ScoresAreEarned == ProofsWereRun /\ NothingForbiddenRan /\ ToolsInOrder /\ StartedFromHashed

\* Type invariant.
RolloutTypeOK ==
    /\ scene \in Scenes
    /\ phase \in {"hash", "copy", "verify", "work", "ended", "scored", "refused"}
    /\ pending \subseteq DOMAIN fixture
    /\ phase = "scored" => score.status \in {"PASS", "FAIL", "INFRASTRUCTURE_ERROR"}
=============================================================================
