---------------------------- MODULE DeliveryRun ----------------------------
(***************************************************************************)
(* The Run Manifest (run.py) of a delivery: `aet run init | verify | close`*)
(* and the commands `audit`, `review`, `trace` and `evidence pack`, which  *)
(* take a --run and attach what they have just produced.  Every command    *)
(* loads the manifest, decides on its copy and replaces the file, with no  *)
(* lock; the workspace is edited between any two steps.                    *)
(*                                                                         *)
(* A workspace is its code and its intent contract; a snapshot is all of   *)
(* it.  A report is a numbered file.  Trace seals hold, snapshots are      *)
(* complete and reports are of this repository: the code refuses others    *)
(* before it looks at the manifest's state.                                *)
(***************************************************************************)
EXTENDS Naturals, Sequences, FiniteSets

CONSTANTS
    Procs,       \* commands
    Scenes       \* [procs : the commands that run at the same time,
                 \*  workspaces : contents of the workspace, with code and intent,
                 \*  verdicts : whether reviews and traces pass, a set of Booleans,
                 \*  reports : bound on the reports that are produced]

ASSUME SceneAssumption ==
    \A s \in Scenes : s.procs \subseteq Procs /\ s.verdicts \subseteq BOOLEAN /\ s.reports \in Nat

None == [state |-> "none"]
Nothing == [kind |-> "none"]

VARIABLES
    scene,     \* the scene: it never changes
    ws,        \* the workspace now
    reports,   \* the report files
    manifest,  \* the Run Manifest, or None
    pc,        \* where each command is
    job,       \* the report a command attaches, or what it does
    seen,      \* what run_status found out
    copy       \* the manifest a command is about to write

vars == <<scene, ws, reports, manifest, pc, job, seen, copy>>

Kinds == {"audit", "review", "trace", "evidence_pack"}
States == {"INTENT_BOUND", "AUDITED", "REVIEWED", "PROVEN", "PACKED", "STALE", "CLOSED"}

Attaches(k) == [audit |-> "attach_audit", review |-> "attach_review",
                trace |-> "attach_trace", evidence_pack |-> "attach_evidence_pack"][k]

\* _TRANSITIONS
Transitions ==
    {<<"CREATED", "bind_intent", "INTENT_BOUND">>,
     <<"INTENT_BOUND", "attach_audit", "AUDITED">>,
     <<"INTENT_BOUND", "attach_review", "REVIEWED">>,
     <<"AUDITED", "attach_review", "REVIEWED">>,
     <<"REVIEWED", "attach_trace", "PROVEN">>,
     <<"PROVEN", "attach_evidence_pack", "PACKED">>,
     <<"PACKED", "close", "CLOSED">>}

Event(e, from, to, art) == [event |-> e, from |-> from, to |-> to, art |-> art]
Extended(m, e, to, art) ==
    [m EXCEPT !.history = Append(@, Event(e, m.state, to, art)), !.state = to]

Init ==
    /\ scene \in Scenes
    /\ ws \in scene.workspaces /\ reports = {} /\ manifest = None
    /\ pc = [p \in Procs |-> "idle"]
    /\ job = [p \in Procs |-> Nothing] /\ seen = [p \in Procs |-> None] /\ copy = [p \in Procs |-> None]

\* The workspace is edited, possibly back to what it was.
Edit == /\ ws' \in scene.workspaces /\ UNCHANGED <<reports, manifest, pc, job, seen, copy>>

Done(p) ==
    /\ pc' = [pc EXCEPT ![p] = "idle"] /\ job' = [job EXCEPT ![p] = Nothing]
    /\ seen' = [seen EXCEPT ![p] = None] /\ copy' = [copy EXCEPT ![p] = None]

---------------------------------------------------------------------------
(* init_run: the manifest must not exist; the contract is hashed, then the  *)
(* workspace is captured, then the manifest is written.                     *)
InitIntent(p) ==
    /\ pc[p] = "idle" /\ manifest = None
    /\ pc' = [pc EXCEPT ![p] = "init"]
    /\ copy' = [copy EXCEPT ![p] =
           [run |-> p, state |-> "INTENT_BOUND", intent |-> ws.intent, latest |-> ws, arts |-> {},
            history |-> <<Event("created", "CREATED", "CREATED", 0),
                          Event("bind_intent", "CREATED", "INTENT_BOUND", 0)>>]]
    /\ UNCHANGED <<ws, reports, manifest, job, seen>>
InitSnapshot(p) ==
    /\ pc[p] = "init" /\ pc' = [pc EXCEPT ![p] = "write"]
    /\ copy' = [copy EXCEPT ![p].latest = ws]
    /\ UNCHANGED <<ws, reports, manifest, job, seen>>

---------------------------------------------------------------------------
(* Reports.                                                                 *)

Report(kind, passes, intent, parts) ==
    [id |-> Cardinality(reports) + 1, kind |-> kind, snap |-> ws,
     passes |-> passes, intent |-> intent, parts |-> parts]

\* compile_evidence_pack: at most one report of a kind, bound when all of them
\* and the workspace as it is now have one snapshot.
Packs ==
    {Report("evidence_pack", \A r \in parts : r.snap = ws, "none", {r.id : r \in parts}) :
        parts \in {P \in SUBSET {r \in reports : r.kind # "evidence_pack"} :
            P # {} /\ \A r, s \in P : r.kind = s.kind => r = s}}

\* A review is of the contract in the workspace; a trace is bound to it or to none.
Producible ==
    {Report("audit", TRUE, "none", {})}
    \cup {Report("review", b, ws.intent, {}) : b \in scene.verdicts}
    \cup {Report("trace", b, i, {}) : b \in scene.verdicts, i \in {ws.intent, "none"}}
    \cup Packs

\* A command writes its report and, given a --run, goes on to attach it.
Produce(p) ==
    /\ pc[p] = "idle" /\ Cardinality(reports) < scene.reports
    /\ \E r \in Producible, attach \in BOOLEAN :
         /\ reports' = reports \cup {r}
         /\ IF attach
            THEN pc' = [pc EXCEPT ![p] = "attach"] /\ job' = [job EXCEPT ![p] = r]
            ELSE UNCHANGED <<pc, job>>
    /\ UNCHANGED <<ws, manifest, seen, copy>>

\* reuse_trace_command: a passing trace of the workspace as it is.
Reuse(p) ==
    /\ pc[p] = "idle"
    /\ \E r \in reports :
         /\ r.kind = "trace" /\ r.passes /\ r.snap = ws
         /\ pc' = [pc EXCEPT ![p] = "attach"] /\ job' = [job EXCEPT ![p] = r]
    /\ UNCHANGED <<ws, reports, manifest, seen, copy>>

---------------------------------------------------------------------------
(* attach_artifact.                                                         *)

\* Whether an attached report takes the run on.
Moves(m, r) ==
    \/ r.kind = "audit" /\ m.state = "INTENT_BOUND"
    \/ r.kind \in {"review", "trace", "evidence_pack"} /\ r.passes

\* Defective variant: the contract is not compared.
AcceptableUnbound(m, r) ==
    /\ m.state \notin {"CLOSED", "STALE"}
    /\ r.kind = "trace" => m.state = "REVIEWED"
    /\ r.kind = "evidence_pack" => m.state = "PROVEN" /\ r.passes
    /\ Moves(m, r) => \E t \in Transitions : t[1] = m.state /\ t[2] = Attaches(r.kind)
Acceptable(m, r) ==
    /\ m.state \notin {"CLOSED", "STALE"}
    /\ r.kind = "trace" => m.state = "REVIEWED"
    /\ r.kind = "evidence_pack" => m.state = "PROVEN" /\ r.passes
    /\ r.kind \in {"review", "trace"} /\ Moves(m, r) => r.intent = m.intent
    /\ Moves(m, r) => \E t \in Transitions : t[1] = m.state /\ t[2] = Attaches(r.kind)

Target(m, r) ==
    IF Moves(m, r)
    THEN CHOOSE s \in States : <<m.state, Attaches(r.kind), s>> \in Transitions
    ELSE m.state

Attached(m, r) ==
    Extended([m EXCEPT !.arts = @ \cup {r}, !.latest = r.snap], Attaches(r.kind), Target(m, r), r.id)

Attachable(p) ==
    manifest # None /\ job[p] \notin manifest.arts /\ Acceptable(manifest, job[p])

\* Nothing is written: there is no run, it holds the report, or refuses it.
AttachNothing(p) ==
    /\ pc[p] = "attach"
    /\ ~Attachable(p)
    /\ Done(p)
    /\ UNCHANGED <<ws, reports, manifest>>
Attach(p) ==
    /\ pc[p] = "attach"
    /\ Attachable(p)
    /\ copy' = [copy EXCEPT ![p] = Attached(manifest, job[p])]
    /\ pc' = [pc EXCEPT ![p] = "write"]
    /\ UNCHANGED <<ws, reports, manifest, job, seen>>

---------------------------------------------------------------------------
(* verify_run and close_run: run_status loads the manifest and captures the *)
(* workspace; verify_run loads it again to record that it went stale, and   *)
(* close_run once more to close.                                            *)

StatusLoad(p) ==
    /\ pc[p] = "idle" /\ manifest # None
    /\ \E op \in {"verify", "close"} : job' = [job EXCEPT ![p] = [kind |-> op]]
    /\ seen' = [seen EXCEPT ![p] = manifest]
    /\ pc' = [pc EXCEPT ![p] = "snapshot"]
    /\ UNCHANGED <<ws, reports, manifest, copy>>

\* The status: the run that was loaded, and whether its snapshot is the one of
\* the workspace.
StatusSnapshot(p) ==
    /\ pc[p] = "snapshot"
    /\ seen' = [seen EXCEPT ![p] =
           [snap |-> ws, fresh |-> ws = @.latest,
            state |-> IF ws # @.latest /\ @.state # "CLOSED" THEN "STALE" ELSE @.state]]
    /\ pc' = [pc EXCEPT ![p] = "verify"]
    /\ UNCHANGED <<ws, reports, manifest, job, copy>>

Afterwards(p) == IF job[p].kind = "close" THEN pc' = [pc EXCEPT ![p] = "close"] /\ UNCHANGED <<job, seen, copy>>
                                     ELSE Done(p)

VerifyNothing(p) ==
    /\ pc[p] = "verify"
    /\ seen[p].state # "STALE" \/ manifest.state = "STALE"
    /\ Afterwards(p)
    /\ UNCHANGED <<ws, reports, manifest>>
VerifyStale(p) ==
    /\ pc[p] = "verify"
    /\ seen[p].state = "STALE" /\ manifest.state # "STALE"
    /\ copy' = [copy EXCEPT ![p] =
           Extended([manifest EXCEPT !.latest = seen[p].snap], "repository_changed", "STALE", 0)]
    /\ pc' = [pc EXCEPT ![p] = "writestale"]
    /\ UNCHANGED <<ws, reports, manifest, job, seen>>

\* Defective variant: a run that is not packed is closed.
ClosableAnywhere(p) == seen[p].fresh
Closable(p) == manifest.state = "PACKED" /\ seen[p].fresh

CloseRefused(p) ==
    /\ pc[p] = "close" /\ ~Closable(p) /\ Done(p)
    /\ UNCHANGED <<ws, reports, manifest>>
Close(p) ==
    /\ pc[p] = "close" /\ Closable(p)
    /\ copy' = [copy EXCEPT ![p] = Extended(manifest, "close", "CLOSED", 0)]
    /\ pc' = [pc EXCEPT ![p] = "write"]
    /\ UNCHANGED <<ws, reports, manifest, job, seen>>

---------------------------------------------------------------------------
(* _write_json: the whole manifest is replaced by the copy.                 *)
Write(p) ==
    /\ pc[p] = "write" /\ manifest' = copy[p] /\ Done(p)
    /\ UNCHANGED <<ws, reports>>
WriteStale(p) ==
    /\ pc[p] = "writestale" /\ manifest' = copy[p] /\ Afterwards(p)
    /\ UNCHANGED <<ws, reports>>

Next ==
    \/ Edit
    \/ \E p \in scene.procs :
        \/ InitIntent(p) \/ InitSnapshot(p)
        \/ Produce(p) \/ Reuse(p) \/ AttachNothing(p) \/ Attach(p)
        \/ StatusLoad(p) \/ StatusSnapshot(p) \/ VerifyNothing(p) \/ VerifyStale(p)
        \/ CloseRefused(p) \/ Close(p)
        \/ Write(p) \/ WriteStale(p)

Spec == Init /\ [][Next /\ UNCHANGED scene]_vars
---------------------------------------------------------------------------
(* Properties.                                                              *)

Exists == manifest # None
Reached(s) == \E i \in DOMAIN manifest.history : manifest.history[i].to = s
Holds(kind) == \E r \in manifest.arts : r.kind = kind /\ r.passes

\* Type invariant: a manifest is of the seven states and of attached reports.
TypeOK ==
    /\ scene \in Scenes
    /\ ws \in scene.workspaces /\ Cardinality(reports) <= scene.reports
    /\ Exists => manifest.state \in States /\ manifest.arts \subseteq reports /\ manifest.latest \in scene.workspaces

\* The history is one path of the lifecycle: every event starts where the one
\* before ended, and moves only along _TRANSITIONS or to STALE.
HistoryIsAPath ==
    /\ TypeOK
    /\ Exists =>
        LET h == manifest.history
        IN  /\ h[1].from = "CREATED" /\ h[Len(h)].to = manifest.state
            /\ \A i \in 2..Len(h) : h[i].from = h[i - 1].to
            /\ \A i \in DOMAIN h : \/ h[i].from = h[i].to /\ h[i].to # "CLOSED"
                                   \/ h[i].to = "STALE"
                                   \/ <<h[i].from, h[i].event, h[i].to>> \in Transitions

\* No state without its evidence: whatever a run went through, it holds a passing
\* review and a passing trace bound to its own contract, and a pack that was
\* bound to one workspace.
StatesAreEarned ==
    Exists =>
        /\ Reached("REVIEWED") => \E r \in manifest.arts :
               r.kind = "review" /\ r.passes /\ r.intent = manifest.intent
        /\ Reached("PROVEN") => Reached("REVIEWED") /\ \E r \in manifest.arts :
               r.kind = "trace" /\ r.passes /\ r.intent = manifest.intent
        /\ Reached("PACKED") => Reached("PROVEN") /\ Holds("evidence_pack")
        /\ Reached("CLOSED") => Reached("PACKED")

\* Every manifest on disk tells a path of the lifecycle and holds the evidence of the
\* states on it, also when commands overlap and one overwrites what another wrote.
HistoryIsEarned == HistoryIsAPath /\ StatesAreEarned

\* One command at a time.
Alone == \A p, q \in scene.procs : p = q

\* The run is not replaced, no event and no artifact of it is lost, and once it is
\* stale or closed it stays as it is.
KeepsAll ==
    Exists =>
        /\ manifest'.run = manifest.run
        /\ Len(manifest'.history) >= Len(manifest.history)
        /\ SubSeq(manifest'.history, 1, Len(manifest.history)) = manifest.history
        /\ manifest.arts \subseteq manifest'.arts
        /\ manifest.state \in {"STALE", "CLOSED"} => manifest' = manifest

LastAttached == LET h == manifest.history
                    attached == {i \in DOMAIN h : h[i].art # 0}
                    last == CHOOSE i \in attached : \A j \in attached : j <= i
                IN  CHOOSE r \in manifest.arts : r.id = h[last].art

\* A run is closed only on the workspace that run_status has just seen, and that
\* is the workspace of the report attached last.
ClosesOnLatest ==
    \A p \in scene.procs : (pc[p] = "write" /\ pc'[p] = "idle" /\ job[p].kind = "close") =>
        /\ Exists /\ manifest.state = "PACKED" /\ manifest'.state = "CLOSED"
        /\ LastAttached.snap = seen[p].snap /\ manifest.latest = seen[p].snap

\* run.py: "append-only lifecycle manifests": as long as commands do not overlap a
\* run loses nothing, ends once, and is closed on the workspace of its last report.
RunsOnlyAdvance == [][Alone => KeepsAll /\ ClosesOnLatest]_vars
=============================================================================
