----------------------------- MODULE QuickProof -----------------------------
(***************************************************************************)
(* `aet quick proof` and `aet quick fresh` (quick/proof.py, quick/fresh.py *)
(* on trace_command and workspace_snapshot of evidence.py): a receipt that *)
(* binds one command to declared files, declared artifacts, its environment*)
(* and a snapshot of the workspace, each captured at a moment of its own,  *)
(* and the later comparison, step by step, with the workspace as it is.    *)
(*                                                                         *)
(* The workspace has a file "rel" that the command reads, a file "out" it  *)
(* writes, any "other" file, and "env": the interpreter, lockfiles and     *)
(* variables that are bound.  Version 0 is a file that is absent, or a     *)
(* variable that is not set.                                               *)
(***************************************************************************)
EXTENDS Naturals, FiniteSets

CONSTANTS
    Versions,     \* of a file, not 0
    Heads,        \* commits, not 0
    Declarations, \* what may be declared: sets of "rel" and "out"
    Gits,         \* whether the workspace is a Git repository: a set of Booleans
    Redactions,   \* whether redaction changes the artifact: a set of Booleans
    MaxEdits      \* bound on the edits of others: phases and items they touch

Gone == 0
QuickAssumption ==
    /\ Gone \notin Versions \cup Heads /\ 1 \in Versions
    /\ Declarations \subseteq SUBSET {"rel", "out"}
    /\ Gits \subseteq BOOLEAN /\ Redactions \subseteq BOOLEAN /\ MaxEdits \in Nat

Files == {"rel", "out", "other"}
Items == Files \cup {"env"}
Contents == Versions \cup {Gone}

VARIABLES
    file,      \* versions of the items
    head,      \* the commit
    given,     \* [declared, git, redacted]: fixed
    pc,        \* where `quick proof`, and later `quick fresh`, is
    receipt,   \* what the receipt holds
    verdict,   \* the freshness state, or "none"
    ran,       \* history: the items as the command was started
    after,     \* history: the workspace when the receipt was completed
    edits      \* history: the items edited by others, and in which phase

quickVars == <<file, head, given, pc, receipt, verdict, ran, after, edits>>
history == <<ran, after, edits>>
workspace == <<file, head>>

\* A snapshot without Git has neither a digest nor a commit.
NoSnapshot == [head |-> Gone, files |-> [f \in Files |-> Gone]]
Workspace == [head |-> head, files |-> [f \in Files |-> file[f]]]
Snapshot == IF given.git THEN Workspace ELSE NoSnapshot

\* The hash of a content, as it is or with its secrets redacted.
Hash(v, redacted) == [version |-> v, redacted |-> redacted]

QuickInit ==
    /\ \E rel, out, env \in {Gone, 1} :
         file = [i \in Items |-> CASE i = "rel" -> rel [] i = "out" -> out [] i = "env" -> env [] OTHER -> 1]
    /\ head \in Heads
    /\ given \in [declared : Declarations, git : Gits, redacted : Redactions]
    /\ pc = "relevant" /\ verdict = "none"
    /\ receipt = [rel |-> Gone, env |-> Gone, out |-> Hash(Gone, FALSE),
                  snap |-> NoSnapshot, status |-> "none"]
    /\ ran = file /\ after = Workspace /\ edits = {}

Phase == CASE pc \in {"relevant", "environment", "command", "artifacts", "snapshot"} -> "proof"
           [] pc = "idle" -> "between"
           [] OTHER -> "fresh"

\* Somebody else edits the workspace, or moves to another commit.
Edits(i) ==
    /\ pc # "end" /\ Cardinality(edits) < MaxEdits
    /\ edits' = edits \cup {<<Phase, i>>}
    /\ UNCHANGED <<given, pc, receipt, verdict, ran, after>>
EditItem ==
    \E i \in Items : \E v \in Contents \ {file[i]} :
       Edits(i) /\ file' = [file EXCEPT ![i] = v] /\ UNCHANGED head
MoveHead == Edits("head") /\ given.git /\ head' \in Heads \ {head} /\ UNCHANGED file

---------------------------------------------------------------------------
(* quick_proof.                                                             *)

Captures(at, next) == pc = at /\ pc' = next /\ UNCHANGED <<workspace, given, verdict, ran, edits>>

CaptureRelevant ==
    /\ Captures("relevant", "environment") /\ UNCHANGED after
    /\ receipt' = [receipt EXCEPT !.rel = file["rel"]]

CaptureEnvironment ==
    /\ Captures("environment", "command") /\ UNCHANGED after
    /\ receipt' = [receipt EXCEPT !.env = file["env"]]

\* Declared files and variables must have been there.
BindingUnknown == receipt.env = Gone \/ ("rel" \in given.declared /\ receipt.rel = Gone)

\* The command reads the workspace, writes what it likes, and passes or not.
Outcome(passed) == IF ~passed THEN "FAIL" ELSE IF BindingUnknown THEN "UNKNOWN" ELSE "PASS"

\* Defective variant: the relevant file is hashed once the command has ended.
RunThenCapture ==
    /\ pc = "command" /\ pc' = "artifacts" /\ ran' = file
    /\ \E w \in SUBSET Items, v \in Versions, passed \in BOOLEAN :
         /\ file' = [i \in Items |-> IF i \in w THEN v ELSE file[i]]
         /\ receipt' = [receipt EXCEPT !.status = Outcome(passed), !.rel = file'["rel"]]
    /\ UNCHANGED <<head, given, verdict, after, edits>>
RunCommand ==
    /\ pc = "command" /\ pc' = "artifacts" /\ ran' = file
    /\ \E w \in SUBSET Items, v \in Versions, passed \in BOOLEAN :
         /\ file' = [i \in Items |-> IF i \in w THEN v ELSE file[i]]
         /\ receipt' = [receipt EXCEPT !.status = Outcome(passed)]
    /\ UNCHANGED <<head, given, verdict, after, edits>>

\* The hash of a declared artifact is that of its redacted content.
\* Defective variant: the artifact as it was before the command is kept.
CaptureArtifactsBefore ==
    /\ Captures("artifacts", "snapshot") /\ UNCHANGED after
    /\ receipt' = IF "out" \in given.declared
                  THEN [receipt EXCEPT !.out = Hash(ran["out"], given.redacted /\ ran["out"] # Gone)]
                  ELSE receipt
CaptureArtifacts ==
    /\ Captures("artifacts", "snapshot") /\ UNCHANGED after
    /\ receipt' = IF "out" \in given.declared
                  THEN [receipt EXCEPT !.out = Hash(file["out"], given.redacted /\ file["out"] # Gone)]
                  ELSE receipt

CaptureSnapshot ==
    /\ Captures("snapshot", "idle") /\ after' = Workspace
    /\ receipt' = [receipt EXCEPT !.snap = Snapshot]

---------------------------------------------------------------------------
(* quick_fresh, later: artifacts, environment, relevant files, snapshot.    *)

\* A comparison ends the check with a verdict, or lets it go on.
Compare(at, next, different, changed, unknown) ==
    /\ pc = at
    /\ \/ unknown /\ pc' = "end" /\ verdict' = "UNKNOWN"
       \/ ~unknown /\ different /\ pc' = "end" /\ verdict' = changed
       \/ ~unknown /\ ~different /\ pc' = next /\ UNCHANGED verdict
    /\ UNCHANGED <<workspace, given, receipt, history>>

StartFresh == Compare("idle", "freshartifacts", FALSE, "UNKNOWN", BindingUnknown)

\* The file is hashed as it is, without redaction.
CompareArtifacts ==
    Compare("freshartifacts", "freshenvironment",
            "out" \in given.declared /\ Hash(file["out"], FALSE) # receipt.out, "ARTIFACT_CHANGED",
            "out" \in given.declared /\ receipt.out.version = Gone)

CompareEnvironment ==
    Compare("freshenvironment", "freshrelevant", file["env"] # receipt.env, "ENVIRONMENT_CHANGED", FALSE)

CompareRelevant ==
    Compare("freshrelevant", "freshsnapshot",
            "rel" \in given.declared /\ file["rel"] # receipt.rel, "RELEVANT_FILES_CHANGED",
            "rel" \in given.declared /\ file["rel"] = Gone)

\* Two snapshots without a digest are equal.
Exact == receipt.snap = Snapshot
HeadChanged == receipt.snap.head # Snapshot.head
CompareSnapshot ==
    /\ pc = "freshsnapshot" /\ pc' = "end"
    /\ verdict' = CASE Exact -> "EXACT_MATCH"
                    [] ~Exact /\ HeadChanged -> "HEAD_CHANGED_RELEVANT_FILES_MATCH"
                    [] ~Exact /\ ~HeadChanged /\ "rel" \in given.declared -> "RELEVANT_FILES_MATCH"
                    [] OTHER -> "UNKNOWN"
    /\ UNCHANGED <<workspace, given, receipt, history>>

QuickNext ==
    \/ EditItem \/ MoveHead
    \/ CaptureRelevant \/ CaptureEnvironment \/ RunCommand \/ CaptureArtifacts \/ CaptureSnapshot
    \/ StartFresh \/ CompareArtifacts \/ CompareEnvironment \/ CompareRelevant \/ CompareSnapshot

QuickSpec == QuickInit /\ [][QuickNext]_quickVars
---------------------------------------------------------------------------
(* Properties.                                                              *)

Matching == {"EXACT_MATCH", "RELEVANT_FILES_MATCH", "HEAD_CHANGED_RELEVANT_FILES_MATCH"}
Changed == {"RELEVANT_FILES_CHANGED", "ARTIFACT_CHANGED", "ENVIRONMENT_CHANGED"}
Undisturbed(phase) == \A i \in Items \cup {"head"} : <<phase, i>> \notin edits
EditedByOthers(i) == \E phase \in {"proof", "between", "fresh"} : <<phase, i>> \in edits

\* Type invariant: versions and hashes, and one of the seven freshness states
\* exactly when the check has ended.
TypeOK ==
    /\ file \in [Items -> Contents] /\ head \in Heads
    /\ receipt \in [rel : Contents, env : Contents, out : [version : Contents, redacted : BOOLEAN],
                    snap : [head : Heads \cup {Gone}, files : [Files -> Contents]],
                    status : {"none", "PASS", "FAIL", "UNKNOWN"}]
    /\ pc = "end" <=> verdict \in Matching \cup Changed \cup {"UNKNOWN"}

\* A matching verdict holds of the workspace as it is: the declared file and the
\* environment are what the command ran on, also when the command rewrites them,
\* and the declared artifact is what it left.
CurrentHoldsNow ==
    /\ TypeOK
    /\ (verdict \in Matching /\ Undisturbed("proof") /\ Undisturbed("fresh")) =>
        /\ "rel" \in given.declared => file["rel"] = ran["rel"] /\ file["rel"] # Gone
        /\ "out" \in given.declared => file["out"] = after.files["out"] /\ file["out"] # Gone
        /\ file["env"] = ran["env"]

\* "`EXACT_MATCH` means the recorded workspace snapshot still matches"
\* (docs/reference/status-and-authority.md): the commit and all files are those
\* of the moment the receipt was completed.
ExactMatchIsExact == (verdict = "EXACT_MATCH" /\ Undisturbed("fresh")) => Workspace = after

\* What a freshness verdict says of the workspace is so, and an exact match is exact.
FreshnessIsTrue == CurrentHoldsNow /\ ExactMatchIsExact

\* A verdict that something changed is given only when it did: somebody edited
\* it, or the command itself rewrote what it had been bound to.  (Redaction is a
\* cause of its own: the artifact was hashed redacted and is compared as it is.)
NoFalseAlarm ==
    /\ verdict = "ARTIFACT_CHANGED" => EditedByOthers("out") \/ given.redacted
    /\ verdict = "ENVIRONMENT_CHANGED" =>
         EditedByOthers("env") \/ ran["env"] # file["env"]
    /\ verdict = "RELEVANT_FILES_CHANGED" =>
         EditedByOthers("rel") \/ ran["rel"] # file["rel"]
=============================================================================
