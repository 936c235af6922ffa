--------------------------- MODULE MC_Evaluation ---------------------------
(***************************************************************************)
(* The decision ledger and the evaluation of Skills, each on a small       *)
(* instance of its own: a behaviour runs one of them ("part").  While      *)
(* another part runs, the ledger, the experiences and the gates stay as    *)
(* they start and the variables of the rollout stay None.                  *)
(***************************************************************************)
EXTENDS DecisionLedger, AgentRollout, ExperienceStore, SkillGate, TLC

VARIABLES
    part

allVars == <<part, vars, rolloutVars, experienceVars, gateVars>>

\* Decision ids are only compared, so they can be permuted.
Interchangeable == Permutations(Ids)

---------------------------------------------------------------------------
(* Rollouts.  The fixture's contract declares a proof, the project's test,  *)
(* with its build as evidence, which git ignores.  Proving: the task wants  *)
(* that proof traced.  Reusing: a Trace may be reused.  Using: the task has *)
(* an allowlist of commands and tools to be called in order.                *)

Text(what) == <<"text", what, "none">>
Declaring(command, evidence) ==
    <<"intent", "p1" :> [command |-> command, evidence |-> evidence]>>
Fixture(v) == Source :> Text(v) @@ Intent :> Declaring("test", {Build})

TraceOf(child) ==
    [program |-> "./.aet-rollout/bin/aet", surface |-> "trace", name |-> "aet", shell |-> "no",
     proof |-> "p1", out |-> "o1", intent |-> TRUE, child |-> child, artifacts |-> {Build},
     reuse |-> FALSE]
Plain(name, shell) ==
    [program |-> name, surface |-> "none", name |-> name, shell |-> shell, proof |-> "none",
     out |-> "o1", intent |-> FALSE, child |-> "true", artifacts |-> {}, reuse |-> FALSE]
Says(success, unknown) == [success |-> success, unknown |-> unknown, cites |-> {}]
Call(name, arguments) == [name |-> name, arguments |-> arguments]

ProofTask ==
    [surfaces |-> {"trace"}, forbidden |-> {"evolve"}, allowed |-> {"aet"}, commands |-> 3,
     proofs |-> {"p1"}, trace |-> TRUE, tools |-> <<>>, protected |-> {Intent},
     writable |-> {}, files |-> 9, cited |-> FALSE, unknown |-> TRUE, hard |-> {}]
ToolTask ==
    [surfaces |-> {}, forbidden |-> {}, allowed |-> {"aet"}, commands |-> 3, proofs |-> {},
     trace |-> FALSE, tools |-> <<Call("read", "a"), Call("edit", "a")>>, protected |-> {},
     writable |-> {}, files |-> 9, cited |-> FALSE, unknown |-> FALSE, hard |-> {}]

Proving(runner, moves) ==
    [runner |-> runner, task |-> ProofTask, fixture |-> Fixture("bad"),
     commands |-> {TraceOf("test"), TraceOf("true")},
     writes |-> {<<Source, Text("good")>>, <<Source, Text("bad")>>, <<Intent, Declaring("true", {})>>},
     answers |-> {Says(TRUE, FALSE)}, tools |-> {}, ignored |-> {Build},
     edits |-> 1, moves |-> moves, lines |-> 8]
Reusing ==
    [runner |-> "codex", task |-> ProofTask, fixture |-> Fixture("good"),
     commands |-> {TraceOf("test"), [TraceOf("test") EXCEPT !.reuse = TRUE]},
     writes |-> {<<Source, Text("good")>>, <<Source, Text("bad")>>},
     answers |-> {Says(TRUE, FALSE), Says(FALSE, TRUE)}, tools |-> {},
     ignored |-> {Build}, edits |-> 0, moves |-> 4, lines |-> 8]
Using(runner, commands, calls, moves) ==
    [runner |-> runner, task |-> ToolTask, fixture |-> Fixture("bad"),
     commands |-> commands,
     writes |-> {<<Source, Text("good")>>}, answers |-> {Says(FALSE, FALSE)},
     tools |-> calls, ignored |-> {}, edits |-> 0, moves |-> moves, lines |-> 5]
FewCommands == {Plain("aet", "no"), Plain("rm", "no")}
SomeCommands == FewCommands \cup {Plain("aet", "active")}
FewCalls == {Call("read", "a"), Call("edit", "a")}
SomeCalls == FewCalls \cup {Call("edit", "b")}
RolloutScenes ==
    {Proving("scripted", 5), Proving("codex", 4), Reusing, Using("claude-code", FewCommands, FewCalls, 4),
     Using("codex", SomeCommands, SomeCalls, 3), Using("scripted", SomeCommands, SomeCalls, 4)}

\* The calls a task requires, matched one after the other.
RECURSIVE Matching(_, _, _)
Matching(required, called, cursor) ==
    IF required = <<>> THEN {}
    ELSE LET of == {n \in DOMAIN called : called[n].name = required[1].name}
             later == {n \in of : n > cursor}
             match == CHOOSE n \in later : \A m \in later : n <= m
         IN  IF later = {}
             THEN {IF of = {} THEN "MISSING_REQUIRED_TOOL_CALL" ELSE "TOOL_CALL_ORDER_MISMATCH"}
             ELSE IF ~ArgumentsMatch(required[1], called[match])
                  THEN {"TOOL_CALL_ARGUMENT_MISMATCH"}
             ELSE Matching(Tail(required), called, match)

\* ToolOrder says what matching one after the other says.
CallsOf(n) == [1..n -> SomeCalls]
ASSUME MatchingIsToolOrder ==
    \A n \in 0..2, k \in 0..3 : \A required \in CallsOf(n), called \in CallsOf(k) :
        ToolOrder(required, called) = Matching(required, called, 0)

(* Experiences.  A Trace without its artifact, alone, in two evidence packs   *)
(* and in a run; a replay of two pairs; a report that is malformed, and one   *)
(* that is private.  The store may hold a pack of the time before phenomena.  *)

AReport(name, kind, findings, status) ==
    [kind |-> kind, name |-> name, findings |-> findings, status |-> status, codes |-> {},
     graded |-> FALSE, gap |-> FALSE, unknowns |-> FALSE, repo |-> "UNKNOWN", date |-> "d1",
     task |-> "UNKNOWN", runner |-> "UNKNOWN", form |-> "well"]
ATrace == [AReport("trace", "trace", {<<"SLOW", "UNKNOWN">>}, "PASS") EXCEPT !.gap = TRUE]
AReview ==
    AReport("review", "review", {<<"SLOW", "FAIL">>, <<"SLOW", "UNKNOWN">>, <<"STYLE", "PASS">>}, "FAIL")
AScore(name, repo, status) ==
    [AReport(name, "learning_observed_score", {<<"MISSING_TRACE_PROOF", status>>}, status)
     EXCEPT !.repo = repo, !.date = "d3"]
NoReport == [kind |-> "none"]
APack(name, date, components) ==
    [kind |-> "evidence_pack", name |-> name, date |-> date, components |-> components]
Holding(name, status, report) == [name |-> name, status |-> status, report |-> report]
Early == APack("early", "d1", {Holding("trace", "FAIL", ATrace), Holding("audit", "UNKNOWN", NoReport)})
WholeRun ==
    [kind |-> "aet_run", name |-> "run", repo |-> "r1", date |-> "d2",
     entries |-> {[name |-> "trace", report |-> ATrace], [name |-> "review", report |-> AReview],
                  [name |-> "pack", report |-> APack("late", "d2", {Holding("trace", "UNKNOWN", ATrace)})]}]
Pair(name, repo) ==
    [task |-> name, scores |-> "baseline" :> AScore("baseline", repo, "FAIL")
                               @@ "candidate" :> AScore("candidate", repo, "UNKNOWN")]
TwoPairs ==
    [kind |-> "learning_observed_replay", name |-> "replay", date |-> "d3", runner |-> "codex",
     pairs |-> {Pair("t1", "r2"), Pair("t2", "r3")}]
Legacy ==
    [id |-> <<"whole", <<ATrace>>>>, repo |-> "r0", date |-> "d0", task |-> "UNKNOWN",
     runner |-> "UNKNOWN", phenomena |-> {}, deviations |-> {"SLOW", "OLD"}, completed |-> TRUE,
     legacy |-> TRUE, clean |-> TRUE]

SomeArtifacts ==
    {ATrace, Early, WholeRun, TwoPairs,
     [AReport("bad", "audit", {}, "PASS") EXCEPT !.form = "malformed"],
     [AReport("leak", "audit", {<<"token", "FAIL">>}, "FAIL") EXCEPT !.form = "private"]}
SomeStores == {{}, {{Legacy}}}

(* Candidates.  The Skill has two editable blocks and an immutable one; in   *)
(* "patches" many candidates are made for it and gated statically, in        *)
(* "contest" few are, and measured.                                         *)

W(w) == <<"word", w>>
Marker(id) == <<"begin", id>>
EndMark == <<"end", "">>
Fixed(w) == <<<<"immutable", "">>, W(w), EndMark>>
Block(id, body) == <<Marker(id)>> \o body \o <<EndMark>>
SkillWith(title, rule, a, b) ==
    <<W(title)>> \o Fixed(rule) \o Block("a", a) \o Block("b", b)
Plainly == SkillWith("title", "rule", <<W("old")>>, <<W("tail")>>)
Twice == Block("a", <<W("old")>>) \o Block("a", <<W("tail")>>)
WithTrace == <<W("old"), W("aet")>>
Op(id, old, new) == [id |-> id, before |-> old, new |-> new]
AddTrace == <<Op("a", <<W("old")>>, WithTrace)>>
Answer(id, new) == <<[id |-> id, new |-> new]>>
Made(text, edits) == [text |-> text, ops |-> edits]

ATask(id, required) ==
    [id |-> id, observed |-> TRUE, valid |-> TRUE, fixture |-> "f1", required |-> {W(w) : w \in required},
     forbidden |-> {}, overuse |-> FALSE]
ThreeSuites(core, validation, held) ==
    [n \in {"core", "validation", "held_out"} |->
        CASE n = "core" -> core [] n = "validation" -> validation [] OTHER -> held]
Apart == ThreeSuites(<<ATask("c", {"old"})>>, <<ATask("v", {"aet"})>>, <<ATask("h", {"title"})>>)
Harder == ThreeSuites(<<ATask("c", {"old"})>>, <<[ATask("v", {"aet"}) EXCEPT !.fixture = "f2"]>>,
                      <<ATask("h", {"title"})>>)
Overlapping == ThreeSuites(<<ATask("c", {"old"})>>, <<ATask("v", {"aet"})>>, <<ATask("v", {"aet"})>>)
Broken == ThreeSuites(<<ATask("c", {"old"}), ATask("c", {"rule"})>>,
                      <<[ATask("v", {"aet"}) EXCEPT !.overuse = TRUE, !.forbidden = {W("much")}],
                        [ATask("x", {"tail"}) EXCEPT !.fixture = "link"]>>,
                      <<[ATask("h", {"title"}) EXCEPT !.fixture = "missing"]>>)
WordLength(w) == IF w[2] = "verbose" THEN 9 ELSE IF w[1] = "word" THEN 2 ELSE 1

Patching == INSTANCE SkillGate WITH
    ForbiddenWords <- {"auto-adopt"}, LengthOf <- WordLength, MaxAdded <- 8, MaxDeleted <- 4,
    MaxOperations <- 3, Dirs <- {"one"}, Forms <- {"v1", "v2", "alone"}, Statuses <- {"PASS"}, FlaggedWords <- {"secret"},
    InitialSkills <- {Plainly, Twice}, Additions <- {<<W("aet")>>, <<W("aet"), W("much")>>},
    Answers <- {Answer("a", n) : n \in {WithTrace, <<>>, <<W("verbose")>>, <<W("old"), W("auto-adopt")>>,
                                       <<W("old"), Marker("c")>>, <<W("old"), EndMark, W("out")>>,
                                       <<W("old")>> \o Fixed("own"), <<W("secret")>>}}
               \cup {Answer("a", WithTrace) \o Answer("b", <<>>), Answer("c", <<>>)},
    HandWritten <-
        {Made(SkillWith("title", "rule", WithTrace, <<W("tail")>>), o) :
            o \in {AddTrace, <<>>, <<Op("a", <<W("tail")>>, WithTrace)>>}}
        \cup {Made(SkillWith("title", "other", WithTrace, <<W("tail")>>), AddTrace),
              Made(SkillWith("other", "rule", WithTrace, <<W("tail")>>), AddTrace),
              Made(SkillWith("title", "rule", WithTrace, <<W("aet")>>), AddTrace),
              Made(Block("a", WithTrace) \o Block("a", <<W("aet")>>), <<Op("a", <<W("tail")>>, <<W("aet")>>)>>)},
    Edits <- {Plainly, SkillWith("title", "rule", WithTrace, <<W("tail")>>)},
    InitialSuites <- {Apart, Overlapping, Broken}, NewSuites <- {Apart}, MaxWordGrowth <- 1,
    Command <- "aet", MaxTurns <- 2, MaxDrifts <- 1

\* In "contest".
SomeForms == {"v1", "v2"}
SomeStatuses == {"PASS", "PRELIMINARY", "FAIL"}
TheSkill == {Plainly}
SomeAnswers == {Answer("b", <<>>)}
ByHand == {Made(SkillWith("title", "rule", WithTrace, <<W("tail")>>), AddTrace)}
SomeEdits == {Plainly, SkillWith("title", "rule", WithTrace, <<>>)}
FirstSuites == {Apart}
LaterSuites == {Apart, Harder}

---------------------------------------------------------------------------
NoGate == GateInit
NoExperience == ExperienceInit /\ imported = {}
NoRollout ==
    /\ phase = None /\ scene = None /\ fixture = None /\ hashed = None /\ pending = None
    /\ workspace = None /\ before = None /\ lines = None /\ running = None /\ final = None
    /\ outcome = None /\ score = None /\ ran = None /\ spent = None

EvaluationInit ==
    /\ Init
    /\ \/ part = "ledger"     /\ NoRollout /\ NoExperience /\ NoGate
       \/ part = "rollout"    /\ RolloutInit /\ NoExperience /\ NoGate
       \/ part = "experience" /\ ExperienceInit /\ NoRollout /\ NoGate
       \/ part = "patches"    /\ Patching!GateInit /\ NoRollout /\ NoExperience
       \/ part = "contest"    /\ GateInit /\ NoRollout /\ NoExperience

EvaluationNext ==
    /\ UNCHANGED part
    /\ \/ part = "ledger"     /\ Next /\ UNCHANGED <<rolloutVars, experienceVars, gateVars>>
       \/ part = "rollout"    /\ RolloutNext /\ UNCHANGED <<vars, experienceVars, gateVars>>
       \/ part = "experience" /\ ExperienceNext /\ UNCHANGED <<vars, rolloutVars, gateVars>>
       \/ part = "patches"    /\ Patching!GateNext /\ UNCHANGED <<vars, rolloutVars, experienceVars>>
       \/ part = "contest"    /\ GateNext /\ UNCHANGED <<vars, rolloutVars, experienceVars>>

Evaluation == EvaluationInit /\ [][EvaluationNext]_allVars
---------------------------------------------------------------------------
(* Properties: those of DecisionLedger, AgentRollout, ExperienceStore and  *)
(* SkillGate, and                                                          *)

\* Whatever candidates are proposed or written by hand for a Skill, and however it is
\* edited, what the deterministic checks let through was reviewed (SkillGate:
\* PatchIsReviewed).
PatchesAreReviewed == part = "patches" => Patching!PatchIsReviewed
=============================================================================
