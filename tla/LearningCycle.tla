--------------------------- MODULE LearningCycle ---------------------------
(***************************************************************************)
(* `aet learn sleep` (learn.py): one bounded cycle after another over the  *)
(* same output directory - harvest, mine, propose, gate, stage - that may  *)
(* leave a candidate for human review under staged/ and never adopts it.   *)
(*                                                                         *)
(* A cycle keeps its event list in memory and saves it at a few points; it *)
(* may run out of its time budget or be killed anywhere, and the target is *)
(* edited by its owner at any time.  One cycle runs at a time.             *)
(*                                                                         *)
(* A candidate is named by the hash of its text (and of the target's path),*)
(* so a candidate is here its own id.  What the experiences say is         *)
(* abstract: mining finds patterns or none, proposing picks a text.        *)
(***************************************************************************)
EXTENDS Naturals, Sequences

CONSTANTS
    Bases,        \* contents the owner gives the target
    Revisions,    \* candidate texts
    Proposable,   \* Proposable[b]: the candidates proposing may give for b
    Unset,
    MaxCycles, MaxEdits, MaxKills   \* bounds

VARIABLES
    phase,      \* where the cycle is, "idle" between cycles
    before,     \* the target when the cycle began
    proposal,   \* the proposed candidate and the contents it was proposed for
    events,     \* the events of the learning run, in memory
    skill,      \* the production Skill
    artifact,   \* candidates/candidate/candidate.SKILL.md
    manifest,   \* candidates/candidate/candidate.json: [id, base] or Unset
    gates,      \* gates/<id>.json: [status, base] or Unset
    staged,     \* staged/<id>: Unset, or the files copied so far
    journal,    \* learning-run.json
    report,     \* what the last cycle returned: Unset, or its outcome
    used        \* cycles, edits and kills so far

cycleVars == <<phase, before, proposal, events, skill, artifact, manifest, gates, staged,
          journal, report, used>>

Manifests == [id : Revisions, base : Bases]
GateFiles == [status : {"PASS", "FAIL"}, base : Bases]
Files == [artifact : Revisions \cup {Unset},
          manifest : Manifests \cup {Unset},
          gate     : GateFiles \cup {Unset}]
NoFiles == [artifact |-> Unset, manifest |-> Unset, gate |-> Unset]

CycleAssumption ==
    /\ Proposable \in [Bases -> SUBSET Revisions]
    /\ Unset \notin Bases \cup Revisions \cup Manifests \cup GateFiles \cup Files
    /\ {MaxCycles, MaxEdits, MaxKills} \subseteq Nat

CycleInit ==
    /\ phase = "idle" /\ before = Unset /\ proposal = Unset /\ events = <<>>
    /\ skill \in Bases
    /\ artifact = Unset /\ manifest = Unset
    /\ gates = [c \in Revisions |-> Unset]
    /\ staged = [c \in Revisions |-> Unset]
    /\ journal = <<>> /\ report = Unset
    /\ used = [cycles |-> 0, edits |-> 0, kills |-> 0]

Noted(state, id) == [state |-> state, id |-> id]
Record(es) == events' = events \o es

Proceed(from, to) == phase = from /\ phase' = to

---------------------------------------------------------------------------
(* The cycle.                                                               *)

\* Load the journal, note HARVESTED, harvest, and save the journal.
Begin ==
    /\ used.cycles < MaxCycles
    /\ Proceed("idle", "mine")
    /\ before' = skill
    /\ events' = Append(journal, Noted("HARVESTED", Unset))
    /\ journal' = events'
    /\ report' = Unset /\ proposal' = Unset
    /\ used' = [used EXCEPT !.cycles = @ + 1]
    /\ UNCHANGED <<skill, artifact, manifest, gates, staged>>

\* No deviation recurs: the cycle ends NOT_APPLICABLE.
MineNothing ==
    /\ Proceed("mine", "idle")
    /\ Record(<<Noted("MINED", Unset), Noted("NOT_APPLICABLE", Unset)>>)
    /\ journal' = events'
    /\ report' = [outcome |-> "NOT_APPLICABLE", stage |-> Unset]
    /\ UNCHANGED <<before, proposal, skill, artifact, manifest, gates, staged, used>>

Mine ==
    /\ Proceed("mine", "propose")
    /\ Record(<<Noted("MINED", Unset)>>)
    /\ UNCHANGED <<before, proposal, skill, artifact, manifest, gates, staged, journal, report, used>>

\* propose reads the target anew and writes the text before the manifest.
WriteArtifact ==
    /\ Proceed("propose", "proposed")
    /\ \E c \in Proposable[skill] :
         /\ proposal' = [id |-> c, base |-> skill]
         /\ artifact' = c
    /\ UNCHANGED <<before, events, skill, manifest, gates, staged, journal, report, used>>
WriteManifest ==
    /\ Proceed("proposed", "gate")
    /\ manifest' = proposal
    /\ Record(<<Noted("PROPOSED", proposal.id), Noted("REPLAYED", Unset)>>)
    /\ UNCHANGED <<before, proposal, skill, artifact, gates, staged, journal, report, used>>

\* The candidate's files agree and the target is what it was proposed for.
Bound == artifact = manifest.id /\ skill = manifest.base

\* gate evaluates the candidate; it can only pass when Bound, and whether it
\* does is up to the suites.
Gate ==
    /\ Proceed("gate", "gated")
    /\ \E status \in IF Bound THEN {"PASS", "FAIL"} ELSE {"FAIL"} :
         gates' = [gates EXCEPT ![manifest.id] = [status |-> status, base |-> manifest.base]]
    /\ Record(<<Noted("GATED", manifest.id)>>)
    /\ UNCHANGED <<before, proposal, skill, artifact, manifest, staged, journal, report, used>>

Refuse ==
    /\ phase = "gated" /\ gates[proposal.id].status # "PASS"
    /\ phase' = "finish"
    /\ Record(<<Noted("REJECTED", Unset)>>)
    /\ UNCHANGED <<before, proposal, skill, artifact, manifest, gates, staged, journal, report, used>>

\* The target is not what it was when the cycle began.
Stale ==
    /\ \/ phase = "gated" /\ gates[proposal.id].status = "PASS"
       \/ phase = "finish"
    /\ before # skill
    /\ phase' = "idle"
    /\ Record(<<Noted("STALE", Unset)>>)
    /\ journal' = events'
    /\ report' = [outcome |-> "ERROR", stage |-> Unset]
    /\ UNCHANGED <<before, proposal, skill, artifact, manifest, gates, staged, used>>

ProceedToStage ==
    /\ phase = "gated" /\ gates[proposal.id].status = "PASS" /\ before = skill
    /\ phase' = "stage"
    /\ UNCHANGED <<before, proposal, events, skill, artifact, manifest, gates, staged, journal, report, used>>

---------------------------------------------------------------------------
(* stage: copytree of the candidate directory, then the gate.               *)

\* What stage asks of the candidate and the gate before it looks further.
StageAllowed ==
    /\ Bound
    /\ gates[manifest.id] = [status |-> "PASS", base |-> manifest.base]

\* Defective variant: an older staging is copied over.
StageOver ==
    /\ phase = "stage" /\ StageAllowed
    /\ phase' = "copying"
    /\ staged' = [staged EXCEPT ![proposal.id] = IF @ = Unset THEN NoFiles ELSE @]
    /\ UNCHANGED <<before, proposal, events, skill, artifact, manifest, gates, journal, report, used>>
StageNew ==
    /\ phase = "stage" /\ StageAllowed /\ staged[proposal.id] = Unset
    /\ phase' = "copying"
    /\ staged' = [staged EXCEPT ![proposal.id] = NoFiles]
    /\ UNCHANGED <<before, proposal, events, skill, artifact, manifest, gates, journal, report, used>>

\* copytree lists the directory in any order.
CopyArtifact ==
    /\ phase = "copying" /\ staged[proposal.id].artifact # artifact
    /\ staged' = [staged EXCEPT ![proposal.id].artifact = artifact]
    /\ UNCHANGED <<phase, before, proposal, events, skill, artifact, manifest, gates, journal, report, used>>

CopyManifest ==
    /\ phase = "copying" /\ staged[proposal.id].manifest # manifest
    /\ staged' = [staged EXCEPT ![proposal.id].manifest = manifest]
    /\ UNCHANGED <<phase, before, proposal, events, skill, artifact, manifest, gates, journal, report, used>>
CopyGate ==
    /\ phase = "copying"
    /\ staged[proposal.id].artifact = artifact /\ staged[proposal.id].manifest = manifest
    /\ phase' = "finish"
    /\ staged' = [staged EXCEPT ![proposal.id].gate = gates[proposal.id]]
    /\ Record(<<Noted("STAGED", proposal.id)>>)
    /\ UNCHANGED <<before, proposal, skill, artifact, manifest, gates, journal, report, used>>

\* Defective variant: the directory is there, so the candidate is staged.
StageExists ==
    /\ phase = "stage" /\ StageAllowed /\ staged[proposal.id] # Unset
    /\ phase' = "finish"
    /\ Record(<<Noted("STAGED", proposal.id)>>)
    /\ UNCHANGED <<before, proposal, skill, artifact, manifest, gates, staged, journal, report, used>>
\* The candidate is staged already: its candidate.json names the same text.
StageIdempotent ==
    /\ phase = "stage" /\ StageAllowed
    /\ staged[proposal.id] # Unset /\ staged[proposal.id].manifest # Unset
    /\ phase' = "finish"
    /\ Record(<<Noted("STAGED", proposal.id)>>)
    /\ UNCHANGED <<before, proposal, skill, artifact, manifest, gates, staged, journal, report, used>>

---------------------------------------------------------------------------
(* The end of a cycle.                                                      *)

Staged == events # <<>> /\ events[Len(events)].state = "STAGED"

Finish ==
    /\ phase = "finish" /\ before = skill
    /\ phase' = "idle"
    /\ journal' = events
    /\ report' = [outcome |-> gates[proposal.id].status, stage |-> IF Staged THEN proposal.id ELSE Unset]
    /\ UNCHANGED <<before, proposal, events, skill, artifact, manifest, gates, staged, used>>

\* An error leaves the journal as it was last saved: proposing fails, the time
\* budget is spent after a phase, or stage refuses.
Fail ==
    /\ \/ phase \in {"propose", "gate", "gated"}
       \/ phase = "finish" /\ Staged
       \/ phase = "stage" /\ ~StageAllowed
       \/ /\ phase = "stage" /\ StageAllowed
          /\ staged[proposal.id] # Unset /\ staged[proposal.id].manifest = Unset
    /\ phase' = "idle"
    /\ report' = [outcome |-> "ERROR", stage |-> Unset]
    /\ UNCHANGED <<before, proposal, events, skill, artifact, manifest, gates, staged, journal, used>>

\* The process dies: it is killed, or ends with an OSError that nothing catches, of the
\* copying for one (learn.py:537-538).
Kill ==
    /\ phase # "idle" /\ used.kills < MaxKills
    /\ phase' = "idle" /\ report' = Unset
    /\ used' = [used EXCEPT !.kills = @ + 1]
    /\ UNCHANGED <<before, proposal, events, skill, artifact, manifest, gates, staged, journal>>

\* The owner edits the target.
Edit ==
    /\ used.edits < MaxEdits
    /\ skill' \in Bases \ {skill}
    /\ used' = [used EXCEPT !.edits = @ + 1]
    /\ UNCHANGED <<phase, before, proposal, events, artifact, manifest, gates, staged, journal, report>>

CycleNext ==
    \/ Begin \/ MineNothing \/ Mine \/ WriteArtifact \/ WriteManifest
    \/ Gate \/ Refuse \/ Stale \/ ProceedToStage
    \/ StageNew \/ CopyArtifact \/ CopyManifest \/ CopyGate \/ StageIdempotent
    \/ Finish \/ Fail \/ Kill \/ Edit

CycleSpec == CycleInit /\ [][CycleNext]_cycleVars
---------------------------------------------------------------------------
(* Properties.                                                              *)

\* Type invariant: the files are files, and the manifest is never older than
\* the candidate a gate is about to read.
CycleTypeOK ==
    /\ skill \in Bases /\ before \in Bases \cup {Unset}
    /\ artifact \in Revisions \cup {Unset}
    /\ manifest \in Manifests \cup {Unset}
    /\ \A c \in Revisions : staged[c] # Unset => staged[c] \in Files
    /\ phase \in {"gate", "gated", "stage", "copying"} => manifest = proposal /\ artifact = proposal.id

\* What is under review was gated as it stands: a staged gate is a PASS of the
\* text and of the base that are staged with it, whatever was proposed, killed
\* or edited before and after.
StagedGateIsItsOwn ==
    /\ CycleTypeOK
    /\ \A c \in Revisions :
        (staged[c] # Unset /\ staged[c].gate # Unset) =>
            /\ staged[c].artifact = c
            /\ staged[c].manifest # Unset /\ staged[c].manifest.id = c
            /\ staged[c].gate = [status |-> "PASS", base |-> staged[c].manifest.base]

\* The copy under review does not change: what a staging has written, later
\* cycles leave alone ("a different staged candidate already exists").
StagedStay ==
    \A c \in Revisions : staged[c] # Unset =>
        \A f \in DOMAIN NoFiles :
            staged[c][f] # Unset => staged'[c] # Unset /\ staged'[c][f] = staged[c][f]
StagedFilesEndure == [][StagedStay]_cycleVars

\* The saved history does not tell of a staging that is not there, and each one
\* it tells of came right after the gate of the same candidate.  A cycle that
\* reports a staging left the candidate, its manifest and its gate there ("Stage
\* copies a hash-verified candidate for review", docs/evolution-boundary.md), as
\* long as no cycle was killed: what a killed one has copied is taken for a
\* staging by the next one.
HistoryIsTrue ==
    /\ \A i \in DOMAIN journal : journal[i].state = "STAGED" =>
         /\ staged[journal[i].id] # Unset /\ staged[journal[i].id].manifest # Unset
         /\ i > 1 /\ journal[i - 1] = Noted("GATED", journal[i].id)
    /\ (report # Unset /\ report.stage # Unset /\ used.kills = 0) =>
         \A f \in DOMAIN NoFiles : staged[report.stage][f] # Unset

\* Together: what is staged, and what is told of it.
StagingIsTrue == StagedGateIsItsOwn /\ HistoryIsTrue
=============================================================================
