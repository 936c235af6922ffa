-------------------------- MODULE QuickProof_proofs --------------------------
(***************************************************************************)
(* Proofs about quick proofs and their freshness, for any versions,        *)
(* commits, declarations and any number of edits at any moment.            *)
(*                                                                         *)
(* A verdict compares the workspace, item by item, with a receipt that was *)
(* itself captured item by item.  So the invariant says of every item what *)
(* the receipt holds (Bound, Left), what has been compared so far          *)
(* (Checked), and which edit of that item, and in which phase, would undo  *)
(* it.                                                                     *)
(***************************************************************************)
EXTENDS QuickProof, TLAPS

Running == {"artifacts", "snapshot"}
Later == {"idle", "freshartifacts", "freshenvironment", "freshrelevant", "freshsnapshot", "end"}
Points == {"relevant", "environment", "command"} \cup Running \cup Later
Phases == {"proof", "between", "fresh"}

Untouched(phase, i) == <<phase, i>> \notin edits
Redacted(v) == Hash(v, given.redacted /\ v # Gone)

Typed ==
    /\ TypeOK
    /\ pc \in Points /\ verdict \in {"none", "UNKNOWN"} \cup Matching \cup Changed
    /\ given \in [declared : SUBSET {"rel", "out"}, git : BOOLEAN, redacted : BOOLEAN]
    /\ ran \in [Items -> Contents]
    /\ after \in [head : Heads, files : [Files -> Contents]]

\* The receipt holds what the command ran on.
Bound ==
    /\ pc \in {"environment", "command"} /\ Untouched("proof", "rel") => receipt.rel = file["rel"]
    /\ pc = "command" /\ Untouched("proof", "env") => receipt.env = file["env"]
    /\ pc \in Running \cup Later =>
         /\ Untouched("proof", "rel") => receipt.rel = ran["rel"]
         /\ Untouched("proof", "env") => receipt.env = ran["env"]

\* It holds what the command left.
Left ==
    /\ pc = "snapshot" /\ "out" \in given.declared /\ Untouched("proof", "out") =>
         receipt.out = Redacted(file["out"])
    /\ pc \in Later /\ "out" \in given.declared /\ Untouched("proof", "out") =>
         receipt.out = Redacted(after.files["out"])
    /\ pc \in Later /\ Untouched("between", "out") /\ Untouched("fresh", "out") =>
         file["out"] = after.files["out"]
    /\ pc \in Later => receipt.snap = IF given.git THEN after ELSE NoSnapshot

\* What has been compared is the same.
Passed(points) == pc \in points \/ (pc = "end" /\ verdict \in Matching)
Checked ==
    /\ Passed({"freshenvironment", "freshrelevant", "freshsnapshot"})
         /\ "out" \in given.declared /\ Untouched("fresh", "out") =>
             receipt.out = Hash(file["out"], FALSE) /\ file["out"] # Gone
    /\ Passed({"freshrelevant", "freshsnapshot"}) /\ Untouched("fresh", "env") =>
         receipt.env = file["env"]
    /\ Passed({"freshsnapshot"}) /\ "rel" \in given.declared /\ Untouched("fresh", "rel") =>
         receipt.rel = file["rel"] /\ file["rel"] # Gone

Exactly == verdict = "EXACT_MATCH" /\ given.git => Workspace = after

IInv == Typed /\ Bound /\ Left /\ Checked /\ Exactly /\ NoFalseAlarm

(***************************************************************************)
(* The steps.                                                              *)
(***************************************************************************)

\* In which phase an edit is noted.
LEMMA PhaseIs ==
  ASSUME pc \in Points
  PROVE  /\ pc \in {"relevant", "environment", "command"} \cup Running => Phase = "proof"
         /\ pc = "idle" => Phase = "between"
         /\ pc \in Later \ {"idle"} => Phase = "fresh"
  BY DEF Points, Phase, Running, Later

\* An edit undoes only what is said of its item in its phase.
LEMMA EditHolds == IInv /\ EditItem => IInv'
<1> SUFFICES ASSUME IInv, EditItem PROVE IInv'
  OBVIOUS
<1>1. PICK i \in Items, v \in Contents :
        /\ file' = [file EXCEPT ![i] = v] /\ UNCHANGED head
        /\ pc # "end" /\ edits' = edits \cup {<<Phase, i>>}
        /\ UNCHANGED <<given, pc, receipt, verdict, ran, after>>
  BY DEF EditItem, Edits
<1>2. /\ \A j \in Items : j # i => file'[j] = file[j]
      /\ file' \in [Items -> Contents]
      /\ {"rel", "out", "env"} \subseteq Items
  BY <1>1 DEF IInv, Typed, TypeOK, Items, Files
<1>3. \A phase, j : Untouched(phase, j)' => Untouched(phase, j) /\ ~(phase = Phase /\ j = i)
  BY <1>1 DEF Untouched
<1>4. Typed'
  BY <1>1, <1>2 DEF IInv, Typed, TypeOK
<1>5. Bound'
  BY <1>1, <1>2, <1>3, PhaseIs DEF IInv, Typed, Bound, Running, Later
<1>6. Left'
  BY <1>1, <1>2, <1>3, PhaseIs DEF IInv, Typed, Left, Running, Later, Redacted, NoSnapshot
<1>7. Checked'
  BY <1>1, <1>2, <1>3, PhaseIs DEF IInv, Typed, Checked, Passed, Later
<1>8. Exactly' /\ NoFalseAlarm'
  <2>1. verdict \notin Matching \cup Changed
    BY <1>1 DEF IInv, Typed, TypeOK
  <2> QED BY <1>1, <2>1 DEF Exactly, NoFalseAlarm, Matching, Changed
<1> QED BY <1>4, <1>5, <1>6, <1>7, <1>8 DEF IInv

LEMMA MoveHeadHolds == IInv /\ MoveHead => IInv'
<1> SUFFICES ASSUME IInv, MoveHead PROVE IInv'
  OBVIOUS
<1>1. /\ UNCHANGED <<file, given, pc, receipt, verdict, ran, after>> /\ head' \in Heads
      /\ pc # "end" /\ edits \subseteq edits'
  BY DEF MoveHead, Edits
<1>2. \A phase, j : Untouched(phase, j)' => Untouched(phase, j)
  BY <1>1 DEF Untouched
<1>3. Typed'
  BY <1>1 DEF IInv, Typed, TypeOK
<1>4. Bound' /\ Checked'
  BY <1>1, <1>2 DEF IInv, Bound, Checked, Passed
<1>5. Left'
  BY <1>1, <1>2 DEF IInv, Left, Redacted, NoSnapshot
<1>6. Exactly' /\ NoFalseAlarm'
  <2>1. verdict \notin Matching \cup Changed
    BY <1>1 DEF IInv, Typed, TypeOK
  <2> QED BY <1>1, <2>1 DEF Exactly, NoFalseAlarm, Matching, Changed
<1> QED BY <1>3, <1>4, <1>5, <1>6 DEF IInv

\* Until the check of freshness there is no verdict.
LEMMA NoVerdictYet ==
  ASSUME IInv, pc # "end", verdict' = verdict
  PROVE  Exactly' /\ NoFalseAlarm' /\ verdict \notin Matching \cup Changed
<1>1. verdict \notin Matching \cup Changed
  BY DEF IInv, Typed, TypeOK
<1> QED BY <1>1 DEF Exactly, NoFalseAlarm, Matching, Changed

\* quick_proof captures one item after the other.
LEMMA CapturesHold ==
  ASSUME IInv, CaptureRelevant \/ CaptureEnvironment \/ CaptureArtifacts
  PROVE  IInv'
<1>1. /\ UNCHANGED <<file, head, given, verdict, ran, edits, after>> /\ pc # "end"
  BY DEF CaptureRelevant, CaptureEnvironment, CaptureArtifacts, Captures, workspace
<1>2. \A phase, j : Untouched(phase, j)' <=> Untouched(phase, j)
  BY <1>1 DEF Untouched
<1>3. Typed' /\ Bound' /\ Left'
  <2>1. CASE CaptureRelevant
    <3>1. pc = "relevant" /\ pc' = "environment" /\ receipt' = [receipt EXCEPT !.rel = file["rel"]]
      BY <2>1 DEF CaptureRelevant, Captures
    <3>2. Typed'
      BY <1>1, <3>1 DEF IInv, Typed, TypeOK, Points, Items, Files
    <3> QED BY <1>1, <1>2, <3>1, <3>2 DEF IInv, Typed, TypeOK, Bound, Left, Running, Later
  <2>2. CASE CaptureEnvironment
    <3>1. pc = "environment" /\ pc' = "command" /\ receipt' = [receipt EXCEPT !.env = file["env"]]
      BY <2>2 DEF CaptureEnvironment, Captures
    <3>2. Typed'
      BY <1>1, <3>1 DEF IInv, Typed, TypeOK, Points, Items, Files
    <3> QED BY <1>1, <1>2, <3>1, <3>2 DEF IInv, Typed, TypeOK, Bound, Left, Running, Later
  <2>3. CASE CaptureArtifacts
    <3>1. /\ pc = "artifacts" /\ pc' = "snapshot"
          /\ receipt' = IF "out" \in given.declared
                        THEN [receipt EXCEPT !.out = Redacted(file["out"])] ELSE receipt
      BY <2>3 DEF CaptureArtifacts, Captures, Redacted
    <3>2. Redacted(file["out"]) \in [version : Contents, redacted : BOOLEAN]
      BY DEF IInv, Typed, TypeOK, Redacted, Hash, Items, Files
    <3>3. Typed'
      BY <1>1, <3>1, <3>2 DEF IInv, Typed, TypeOK, Points, Running
    <3>4. Bound'
      BY <1>1, <1>2, <3>1 DEF IInv, Typed, TypeOK, Bound, Running, Later
    <3>5. Left'
      BY <1>1, <1>2, <3>1 DEF IInv, Typed, TypeOK, Left, Redacted, Later
    <3> QED BY <3>3, <3>4, <3>5
  <2> QED BY <2>1, <2>2, <2>3
<1>4. Checked'
  <2>1. pc' \notin Later
    BY DEF CaptureRelevant, CaptureEnvironment, CaptureArtifacts, Captures, Later
  <2> QED BY <2>1 DEF Checked, Passed, Later
<1> QED BY <1>1, <1>3, <1>4, NoVerdictYet DEF IInv

\* The command runs on what has been captured, if nobody has edited it since.
LEMMA RunHolds == IInv /\ RunCommand => IInv'
<1> SUFFICES ASSUME IInv, RunCommand PROVE IInv'
  OBVIOUS
<1>1. PICK w \in SUBSET Items, v \in Versions, passed \in BOOLEAN :
        /\ pc = "command" /\ pc' = "artifacts" /\ ran' = file
        /\ file' = [i \in Items |-> IF i \in w THEN v ELSE file[i]]
        /\ receipt' = [receipt EXCEPT !.status = Outcome(passed)]
        /\ UNCHANGED <<head, given, verdict, after, edits>>
  BY DEF RunCommand
<1>2. \A phase, j : Untouched(phase, j)' <=> Untouched(phase, j)
  BY <1>1 DEF Untouched
<1>3. Outcome(passed) \in {"FAIL", "UNKNOWN", "PASS"}
  BY DEF Outcome
<1>4. file' \in [Items -> Contents]
  BY <1>1 DEF IInv, Typed, TypeOK, Contents
<1>5. Typed'
  BY <1>1, <1>3, <1>4 DEF IInv, Typed, TypeOK, Points, Running
<1>6. Bound'
  BY <1>1, <1>2, <1>3 DEF IInv, Typed, TypeOK, Bound
<1>7. Left' /\ Checked'
  BY <1>1 DEF Left, Checked, Passed, Later
<1> QED BY <1>1, <1>5, <1>6, <1>7, NoVerdictYet DEF IInv

LEMMA CaptureSnapshotHolds == IInv /\ CaptureSnapshot => IInv'
<1> SUFFICES ASSUME IInv, CaptureSnapshot PROVE IInv'
  OBVIOUS
<1>1. /\ pc = "snapshot" /\ pc' = "idle" /\ after' = Workspace
      /\ receipt' = [receipt EXCEPT !.snap = Snapshot]
      /\ UNCHANGED <<file, head, given, verdict, ran, edits>>
  BY DEF CaptureSnapshot, Captures, workspace
<1>2. \A phase, j : Untouched(phase, j)' <=> Untouched(phase, j)
  BY <1>1 DEF Untouched
<1>3. /\ Workspace \in [head : Heads, files : [Files -> Contents]]
      /\ Workspace.files["out"] = file["out"]
  BY DEF IInv, Typed, TypeOK, Workspace, Items, Files
<1>4. Snapshot \in [head : Heads \cup {Gone}, files : [Files -> Contents]]
  BY <1>3 DEF Snapshot, NoSnapshot, Contents
<1>5. Typed'
  BY <1>1, <1>3, <1>4 DEF IInv, Typed, TypeOK, Points, Later
<1>6. Bound'
  BY <1>1, <1>2 DEF IInv, Typed, TypeOK, Bound, Running
<1>7. Left'
  <2>1. receipt'.snap = (IF given.git THEN after' ELSE NoSnapshot) /\ receipt'.out = receipt.out
    BY <1>1 DEF IInv, Typed, TypeOK, Snapshot
  <2>2. NoSnapshot' = NoSnapshot
    BY DEF NoSnapshot
  <2>3. "out" \in given.declared /\ Untouched("proof", "out") => receipt.out = Redacted(file["out"])
    BY <1>1 DEF IInv, Left
  <2> QED BY <1>1, <1>2, <1>3, <2>1, <2>2, <2>3 DEF Left, Later, Redacted
<1>8. Checked'
  BY <1>1 DEF Checked, Passed
<1> QED BY <1>1, <1>5, <1>6, <1>7, <1>8, NoVerdictYet DEF IInv

\* A comparison leaves workspace and receipt, and what was said of them, as they are.
LEMMA ComparisonKeeps ==
  ASSUME IInv, UNCHANGED <<workspace, given, receipt, history>>,
         pc \in Later \ {"end"}, pc' \in Later \ {"idle"},
         verdict' \in {"none", "UNKNOWN"} \cup Matching \cup Changed,
         pc' = "end" <=> verdict' \in Matching \cup Changed \cup {"UNKNOWN"}
  PROVE  /\ Typed' /\ Bound' /\ Left'
         /\ \A phase, j : Untouched(phase, j)' <=> Untouched(phase, j)
         /\ UNCHANGED <<file, head, given, receipt, ran, after, edits>>
<1>1. UNCHANGED <<file, head, given, receipt, ran, after, edits>>
  BY DEF workspace, history
<1>2. \A phase, j : Untouched(phase, j)' <=> Untouched(phase, j)
  BY <1>1 DEF Untouched
<1>3. Typed'
  BY <1>1 DEF IInv, Typed, TypeOK, Points
<1>4. Bound'
  BY <1>1, <1>2 DEF IInv, Bound, Running, Later
<1>5. Left'
  BY <1>1, <1>2 DEF IInv, Left, Redacted, NoSnapshot, Later
<1> QED BY <1>1, <1>2, <1>3, <1>4, <1>5

\* A comparison that ends the check without a match, or lets it go on.
LEMMA CompareHolds ==
  ASSUME IInv, NEW at \in Later \ {"end"}, NEW next \in Later \ {"idle", "end"},
         NEW different \in BOOLEAN, NEW unknown \in BOOLEAN,
         NEW changed \in Changed \cup {"UNKNOWN"},
         Compare(at, next, different, changed, unknown)
  PROVE  /\ Typed' /\ Bound' /\ Left' /\ Exactly'
         /\ \A phase, j : Untouched(phase, j)' <=> Untouched(phase, j)
         /\ UNCHANGED <<file, head, given, receipt, ran, after, edits>>
         /\ pc = at
         /\ \/ pc' = "end" /\ verdict' = "UNKNOWN"
            \/ pc' = "end" /\ verdict' = changed /\ different /\ ~unknown
            \/ pc' = next /\ verdict' = "none" /\ ~different /\ ~unknown
<1>1. /\ pc = at /\ UNCHANGED <<workspace, given, receipt, history>>
      /\ \/ pc' = "end" /\ verdict' = "UNKNOWN"
         \/ pc' = "end" /\ verdict' = changed /\ different /\ ~unknown
         \/ pc' = next /\ verdict' = verdict /\ ~different /\ ~unknown
  BY DEF Compare
<1>2. verdict = "none"
  BY <1>1 DEF IInv, Typed, TypeOK
<1>3. /\ pc \in Later \ {"end"} /\ pc' \in Later \ {"idle"}
      /\ verdict' \in {"none", "UNKNOWN"} \cup Changed
      /\ pc' = "end" <=> verdict' \in Matching \cup Changed \cup {"UNKNOWN"}
  BY <1>1, <1>2 DEF Later, Matching, Changed
<1>4. Exactly'
  BY <1>3 DEF Exactly, Changed
<1> QED BY <1>1, <1>2, <1>3, <1>4, ComparisonKeeps

\* quick_fresh compares one item after the other.
LEMMA StartFreshHolds == IInv /\ StartFresh => IInv'
<1> SUFFICES ASSUME IInv, StartFresh PROVE IInv'
  OBVIOUS
<1>1. /\ Typed' /\ Bound' /\ Left' /\ Exactly' /\ pc' \in {"freshartifacts", "end"}
      /\ verdict' \in {"none", "UNKNOWN"}
  BY CompareHolds DEF StartFresh, BindingUnknown, Later
<1> QED BY <1>1 DEF IInv, Checked, Passed, NoFalseAlarm, Matching

LEMMA CompareArtifactsHolds == IInv /\ CompareArtifacts => IInv'
<1> SUFFICES ASSUME IInv, CompareArtifacts PROVE IInv'
  OBVIOUS
<1> DEFINE different == "out" \in given.declared /\ Hash(file["out"], FALSE) # receipt.out
           unknown == "out" \in given.declared /\ receipt.out.version = Gone
<1>1. /\ Typed' /\ Bound' /\ Left' /\ Exactly'
      /\ \A phase, j : Untouched(phase, j)' <=> Untouched(phase, j)
      /\ UNCHANGED <<file, given, receipt, ran, after, edits>> /\ pc = "freshartifacts"
      /\ \/ pc' = "end" /\ verdict' = "UNKNOWN"
         \/ pc' = "end" /\ verdict' = "ARTIFACT_CHANGED" /\ different /\ ~unknown
         \/ pc' = "freshenvironment" /\ verdict' = "none" /\ ~different /\ ~unknown
  BY CompareHolds DEF CompareArtifacts, Later, Changed
<1>2. Checked'
  BY <1>1 DEF Checked, Passed, Matching, Hash
<1>3. NoFalseAlarm'
  <2>1. ASSUME different, ~given.redacted, ~EditedByOthers("out") PROVE FALSE
    <3>1. \A phase \in Phases : Untouched(phase, "out")
      BY <2>1 DEF EditedByOthers, Untouched, Phases
    <3>2. receipt.out = Redacted(after.files["out"]) /\ file["out"] = after.files["out"]
      BY <1>1, <2>1, <3>1 DEF IInv, Left, Later, Phases
    <3> QED BY <2>1, <3>2 DEF Redacted, Hash, IInv, Typed
  <2> HIDE DEF different
  <2> QED BY <1>1, <2>1 DEF NoFalseAlarm, EditedByOthers
<1> QED BY <1>1, <1>2, <1>3 DEF IInv

LEMMA CompareEnvironmentHolds == IInv /\ CompareEnvironment => IInv'
<1> SUFFICES ASSUME IInv, CompareEnvironment PROVE IInv'
  OBVIOUS
<1>1. /\ Typed' /\ Bound' /\ Left' /\ Exactly'
      /\ \A phase, j : Untouched(phase, j)' <=> Untouched(phase, j)
      /\ UNCHANGED <<file, given, receipt, ran, after, edits>> /\ pc = "freshenvironment"
      /\ \/ pc' = "end" /\ verdict' = "UNKNOWN"
         \/ pc' = "end" /\ verdict' = "ENVIRONMENT_CHANGED" /\ file["env"] # receipt.env
         \/ pc' = "freshrelevant" /\ verdict' = "none" /\ file["env"] = receipt.env
  BY CompareHolds DEF CompareEnvironment, Later, Changed
<1>2. Checked'
  BY <1>1 DEF IInv, Checked, Passed, Matching
<1>3. NoFalseAlarm'
  <2>1. ~EditedByOthers("env") => receipt.env = ran["env"]
    BY <1>1 DEF IInv, Bound, Later, EditedByOthers, Untouched
  <2> QED BY <1>1, <2>1 DEF NoFalseAlarm, EditedByOthers
<1> QED BY <1>1, <1>2, <1>3 DEF IInv

LEMMA CompareRelevantHolds == IInv /\ CompareRelevant => IInv'
<1> SUFFICES ASSUME IInv, CompareRelevant PROVE IInv'
  OBVIOUS
<1> DEFINE different == "rel" \in given.declared /\ file["rel"] # receipt.rel
           unknown == "rel" \in given.declared /\ file["rel"] = Gone
<1>1. /\ Typed' /\ Bound' /\ Left' /\ Exactly'
      /\ \A phase, j : Untouched(phase, j)' <=> Untouched(phase, j)
      /\ UNCHANGED <<file, given, receipt, ran, after, edits>> /\ pc = "freshrelevant"
      /\ \/ pc' = "end" /\ verdict' = "UNKNOWN"
         \/ pc' = "end" /\ verdict' = "RELEVANT_FILES_CHANGED" /\ different /\ ~unknown
         \/ pc' = "freshsnapshot" /\ verdict' = "none" /\ ~different /\ ~unknown
  BY CompareHolds DEF CompareRelevant, Later, Changed
<1>2. Checked'
  BY <1>1 DEF IInv, Checked, Passed, Matching
<1>3. NoFalseAlarm'
  <2>1. ~EditedByOthers("rel") => receipt.rel = ran["rel"]
    BY <1>1 DEF IInv, Bound, Later, EditedByOthers, Untouched
  <2> QED BY <1>1, <2>1 DEF NoFalseAlarm, EditedByOthers
<1> QED BY <1>1, <1>2, <1>3 DEF IInv

LEMMA CompareSnapshotHolds == IInv /\ CompareSnapshot => IInv'
<1> SUFFICES ASSUME IInv, CompareSnapshot PROVE IInv'
  OBVIOUS
<1>1. /\ pc = "freshsnapshot" /\ pc' = "end"
      /\ verdict' \in Matching \cup {"UNKNOWN"}
      /\ verdict' = "EXACT_MATCH" => receipt.snap = Snapshot
      /\ UNCHANGED <<workspace, given, receipt, history>>
  BY DEF CompareSnapshot, Exact, Matching
<1>2. /\ Typed' /\ Bound' /\ Left'
      /\ \A phase, j : Untouched(phase, j)' <=> Untouched(phase, j)
      /\ UNCHANGED <<file, head, given, receipt, ran, after, edits>>
  BY <1>1, ComparisonKeeps DEF Later, Matching
<1>3. Checked'
  BY <1>1, <1>2 DEF IInv, Checked, Passed
<1>4. Exactly'
  <2>1. given.git => receipt.snap = after /\ Snapshot = Workspace
    BY <1>1 DEF IInv, Left, Later, Snapshot
  <2> QED BY <1>1, <1>2, <2>1 DEF Exactly, Workspace
<1>5. NoFalseAlarm'
  BY <1>1 DEF NoFalseAlarm, Matching
<1> QED BY <1>2, <1>3, <1>4, <1>5 DEF IInv

LEMMA InitHolds ==
  ASSUME QuickAssumption
  PROVE  QuickInit => IInv
<1> SUFFICES ASSUME QuickInit PROVE IInv
  OBVIOUS
<1>1. file \in [Items -> Contents]
  BY DEF QuickAssumption, QuickInit, Contents, Items
<1>2. NoSnapshot \in [head : Heads \cup {Gone}, files : [Files -> Contents]]
  BY DEF NoSnapshot, Contents
<1>3. Workspace \in [head : Heads, files : [Files -> Contents]]
  BY <1>1 DEF QuickInit, Workspace, Items
<1>4. given \in [declared : SUBSET {"rel", "out"}, git : BOOLEAN, redacted : BOOLEAN]
  BY DEF QuickAssumption, QuickInit
<1>5. Hash(Gone, FALSE) \in [version : Contents, redacted : BOOLEAN]
  BY DEF Hash, Contents
<1>6. Typed
  BY <1>1, <1>2, <1>3, <1>4, <1>5 DEF QuickInit, Typed, TypeOK, Points, Matching, Changed, Contents
<1> QED BY <1>6 DEF QuickInit, IInv, Bound, Left, Checked, Passed, Exactly, NoFalseAlarm, Running, Later

\* Every step keeps the invariant.
LEMMA StepHolds == IInv /\ [QuickNext]_quickVars => IInv'
<1> SUFFICES ASSUME IInv, [QuickNext]_quickVars PROVE IInv'
  OBVIOUS
<1>1. CASE UNCHANGED quickVars
  <2>1. \A phase, j : Untouched(phase, j)' <=> Untouched(phase, j)
    BY <1>1 DEF quickVars, Untouched
  <2>2. Typed' /\ Exactly' /\ NoFalseAlarm'
    BY <1>1 DEF quickVars, IInv, Typed, TypeOK, Exactly, Workspace, NoFalseAlarm, EditedByOthers
  <2>3. Bound' /\ Left' /\ Checked'
    BY <1>1, <2>1 DEF quickVars, IInv, Bound, Left, Checked, Passed, Redacted, NoSnapshot
  <2> QED BY <2>2, <2>3 DEF IInv
<1> QED BY <1>1, EditHolds, MoveHeadHolds, CapturesHold, RunHolds, CaptureSnapshotHolds,
           StartFreshHolds, CompareArtifactsHolds, CompareEnvironmentHolds, CompareRelevantHolds,
           CompareSnapshotHolds DEF QuickNext

(***************************************************************************)
(* The results.                                                            *)
(***************************************************************************)

\* In every state the receipt and what was compared are as the invariant says.
THEOREM Invariance ==
  ASSUME QuickAssumption
  PROVE  QuickSpec => []IInv
<1> QED BY InitHolds, StepHolds, PTL DEF QuickSpec

OfGit == given.git

\* A matching verdict of `quick fresh` holds of the workspace as it is: what is
\* declared and the environment are what the command ran on, and what it left, if
\* nobody edited during `quick proof` or `quick fresh` themselves.  Of a Git repository,
\* EXACT_MATCH says that the whole workspace is the one the receipt was completed in.
THEOREM FreshnessIsAlwaysTrue ==
  ASSUME QuickAssumption, Gits \subseteq {TRUE}
  PROVE  QuickSpec => []FreshnessIsTrue
<1>1. IInv => CurrentHoldsNow
  <2> SUFFICES ASSUME IInv, verdict \in Matching, Undisturbed("proof"), Undisturbed("fresh")
               PROVE  /\ "rel" \in given.declared => file["rel"] = ran["rel"] /\ file["rel"] # Gone
                      /\ "out" \in given.declared => file["out"] = after.files["out"] /\ file["out"] # Gone
                      /\ file["env"] = ran["env"]
    BY DEF IInv, Typed, CurrentHoldsNow
  <2>1. /\ \A i \in Items : Untouched("proof", i) /\ Untouched("fresh", i)
        /\ {"rel", "out", "env"} \subseteq Items
    BY DEF Undisturbed, Untouched, Items, Files
  <2>2. pc = "end"
    BY DEF IInv, Typed, TypeOK
  <2>3. file["env"] = ran["env"]
    BY <2>1, <2>2 DEF IInv, Bound, Checked, Passed, Later
  <2>4. "rel" \in given.declared => file["rel"] = ran["rel"] /\ file["rel"] # Gone
    BY <2>1, <2>2 DEF IInv, Bound, Checked, Passed, Later
  <2>5. "out" \in given.declared => file["out"] = after.files["out"] /\ file["out"] # Gone
    BY <2>1, <2>2 DEF IInv, Left, Checked, Passed, Later, Redacted, Hash
  <2> QED BY <2>3, <2>4, <2>5
<1>2. IInv /\ given.git => ExactMatchIsExact
  BY DEF IInv, Exactly, ExactMatchIsExact
<1>3. QuickInit => OfGit
  BY DEF QuickInit, OfGit
<1>4. OfGit /\ [QuickNext]_quickVars => OfGit'
  <2>1. QuickNext => given' = given
    BY DEF QuickNext, EditItem, MoveHead, Edits, CaptureRelevant, CaptureEnvironment, RunCommand, CaptureArtifacts,
           CaptureSnapshot, Captures, StartFresh, CompareArtifacts, CompareEnvironment,
           CompareRelevant, CompareSnapshot, Compare
  <2> QED BY <2>1 DEF quickVars, OfGit
<1>5. QuickSpec => []OfGit
  BY <1>3, <1>4, PTL DEF QuickSpec
<1>6. IInv /\ OfGit => FreshnessIsTrue
  BY <1>1, <1>2 DEF FreshnessIsTrue, OfGit
<1> QED BY <1>5, <1>6, Invariance, PTL

\* `quick fresh` reports a change of an item only if it was edited or the command
\* itself had rewritten it, or, for an artifact, if it was redacted: whatever else was
\* edited at whatever moment.
THEOREM ThereIsNoFalseAlarm ==
  ASSUME QuickAssumption
  PROVE  QuickSpec => []NoFalseAlarm
<1>1. IInv => NoFalseAlarm
  BY DEF IInv
<1> QED BY <1>1, Invariance, PTL
=============================================================================
