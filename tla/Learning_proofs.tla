-------------------------- MODULE Learning_proofs --------------------------
(***************************************************************************)
(* Proofs about the learning cycle, for any candidates, contents of the    *)
(* target and bounds, about observed replays, for any suite, fixtures and  *)
(* bounds, about policies, for any setup, about rule packs, for any packs, *)
(* suites, workspaces and bounds, and about gates, for any applicable      *)
(* plans, alpha and smallest gain.                                         *)
(*                                                                         *)
(* The cycle: everything rests on what a staged directory can hold: a part *)
(* of one candidate's files, and with the gate all of them (Good), because *)
(* the gate is copied last and only while the candidate that passed it is  *)
(* in place (Placed).  Directories only fill up (Fills), so what histories *)
(* and reports tell of them (Told, Reported) stays true.                   *)
(*                                                                         *)
(* A replay: the pairs of the process and those of the file are planned,   *)
(* differ in their keys, and were measured on the fixtures of the binding  *)
(* (Recorded), since a pair is made only for a missing key (MakingHolds)   *)
(* and only a replay of the same binding goes on (RunningHolds).           *)
(*                                                                         *)
(* Policies: an operation leaves a policy formed and takes no requirement  *)
(* away (PatchedIsFormed), and a policy that another may become lets       *)
(* through nothing that one stops (ReviewsTighten, TracesTighten,          *)
(* ProfilesTighten).                                                       *)
(*                                                                         *)
(* Rule packs: the operations and the artifact say which rules there were  *)
(* before (RulesBefore), whatever pack the gate found, and a pack is       *)
(* measured by its rules alone (MeasuredByRules).                          *)
(*                                                                         *)
(* Gates: the pairs of the current suite are some number of runs of its    *)
(* tasks, and the iterations measured are below that number (LooksHold);   *)
(* aligned, they are one full batch for each look (AlignedLook).  A pass   *)
(* is what the comparison shows (DecideEarns), and the first suite that    *)
(* does not pass is the last (DoneHolds).                                  *)
(***************************************************************************)
EXTENDS LearningCycle, ObservedReplay, PolicyTargets, AuditRules, PlannedGate,
        FiniteSetTheorems, TLAPS

Phases == {"idle", "mine", "propose", "proposed", "gate", "gated", "stage", "copying", "finish"}
EventStates == {"HARVESTED", "MINED", "NOT_APPLICABLE", "PROPOSED", "REPLAYED", "GATED", "REJECTED",
                "STALE", "STAGED"}
Events == [state : EventStates, id : Revisions \cup {Unset}]

\* What the directory of candidate c can hold.
Good(c, f) ==
    /\ f \in Files
    /\ f.artifact \in {Unset, c}
    /\ f.manifest # Unset => f.manifest.id = c
    /\ f.gate # Unset => /\ f.artifact = c /\ f.manifest # Unset
                        /\ f.gate = [status |-> "PASS", base |-> f.manifest.base]
Dirs(st) == \A c \in Revisions : st[c] # Unset => Good(c, st[c])
Full(f) == f.artifact # Unset /\ f.manifest # Unset /\ f.gate # Unset

\* No file is removed or replaced.
Fills(st, new) ==
    \A c \in Revisions : st[c] # Unset =>
        /\ new[c] # Unset
        /\ st[c].artifact # Unset => new[c].artifact = st[c].artifact
        /\ st[c].manifest # Unset => new[c].manifest = st[c].manifest
        /\ st[c].gate # Unset => new[c].gate = st[c].gate

\* A staging of h is there, and came right after the gate.
ToldAt(h, st, i) ==
    h[i].state = "STAGED" =>
        /\ h[i].id \in Revisions
        /\ st[h[i].id] # Unset /\ st[h[i].id].manifest # Unset
        /\ i > 1 /\ h[i - 1] = Noted("GATED", h[i].id)
Told(h, st) == \A i \in 1..Len(h) : ToldAt(h, st, i)

(***************************************************************************)
(* The invariant.                                                          *)
(***************************************************************************)

Typed ==
    /\ phase \in Phases
    /\ skill \in Bases /\ before \in Bases \cup {Unset}
    /\ proposal \in Manifests \cup {Unset}
    /\ artifact \in Revisions \cup {Unset} /\ manifest \in Manifests \cup {Unset}
    /\ gates \in [Revisions -> GateFiles \cup {Unset}]
    /\ staged \in [Revisions -> Files \cup {Unset}]
    /\ events \in Seq(Events) /\ journal \in Seq(Events)
    /\ used \in [cycles : Nat, edits : Nat, kills : Nat]

\* Where the candidate is while the cycle handles it.
Placed ==
    /\ phase \in {"proposed", "gate", "gated", "stage", "copying", "finish"} => proposal \in Manifests
    /\ phase \in {"proposed", "gate", "gated", "stage", "copying"} => artifact = proposal.id
    /\ phase \in {"gate", "gated", "stage", "copying"} => manifest = proposal
    /\ phase \in {"gated", "stage", "copying"} =>
         events # <<>> /\ events[Len(events)] = Noted("GATED", proposal.id)
    /\ phase = "copying" => /\ gates[proposal.id] = [status |-> "PASS", base |-> proposal.base]
                         /\ staged[proposal.id] # Unset /\ staged[proposal.id].gate = Unset
                         /\ staged[proposal.id].manifest \in {Unset, proposal}

\* Without kills every directory but the one being copied is complete.
Filled ==
    used.kills = 0 => \A c \in Revisions :
        staged[c] # Unset => Full(staged[c]) \/ (phase = "copying" /\ c = proposal.id)

Reported ==
    /\ (report # Unset /\ report.stage # Unset) =>
         /\ report.stage \in Revisions
         /\ used.kills = 0 => staged[report.stage] # Unset /\ Full(staged[report.stage])
    /\ (phase = "finish" /\ Staged /\ used.kills = 0) =>
         staged[proposal.id] # Unset /\ Full(staged[proposal.id])

CycleInv ==
    /\ Typed /\ Placed
    /\ Dirs(staged)
    /\ Told(events, staged) /\ Told(journal, staged)
    /\ Filled /\ Reported

\* The invariant after a step, and what the step does to the directories.
After ==
    /\ Typed' /\ Placed'
    /\ Dirs(staged')
    /\ Told(events', staged') /\ Told(journal', staged')
    /\ Filled' /\ Reported'
    /\ Fills(staged, staged')

LEMMA AfterIsInvariant == After => CycleInv'
BY DEF After, CycleInv, Dirs, Told, ToldAt, Good, Noted

(***************************************************************************)
(* Lemmas about histories.                                                 *)
(***************************************************************************)

\* Adding one or two events is appending them one after another.
LEMMA Joined ==
    ASSUME NEW h \in Seq(Events), NEW e \in Events, NEW f \in Events
    PROVE  /\ h \o <<e>> = Append(h, e)
           /\ h \o <<e, f>> = Append(Append(h, e), f)
OBVIOUS

\* A history stays true when an event other than a staging is added to it.
LEMMA ToldPlain ==
    ASSUME NEW h \in Seq(Events), NEW st, NEW e \in Events,
           Told(h, st), e.state # "STAGED"
    PROVE  /\ Append(h, e) \in Seq(Events)
           /\ Told(Append(h, e), st)
           /\ Append(h, e) # <<>>
           /\ Append(h, e)[Len(Append(h, e))] = e
<1> DEFINE g == Append(h, e)
<1>1. g \in Seq(Events) /\ Len(g) = Len(h) + 1 /\ g[Len(g)] = e /\ g # <<>> /\ Len(h) \in Nat
  OBVIOUS
<1>2. \A i \in 1..Len(h) : g[i] = h[i]
  OBVIOUS
<1>3. ASSUME NEW i \in 1..Len(g)
      PROVE  ToldAt(g, st, i)
  <2>1. CASE i = Len(g)
    BY <2>1, <1>1 DEF ToldAt
  <2>2. CASE i # Len(g)
    <3>1. i \in 1..Len(h) /\ (i > 1 => i - 1 \in 1..Len(h))
      BY <2>2, <1>1
    <3>2. ToldAt(h, st, i)
      BY <3>1 DEF Told
    <3> QED
      BY <3>1, <3>2, <1>2 DEF ToldAt
  <2> QED
    BY <2>1, <2>2
<1> QED
  BY <1>1, <1>3 DEF Told

\* A staging right after the gate of the same candidate, and there, may be told.
LEMMA ToldStaged ==
    ASSUME NEW h \in Seq(Events), NEW st, NEW c \in Revisions,
           Told(h, st),
           h # <<>>, h[Len(h)] = Noted("GATED", c),
           st[c] # Unset, st[c].manifest # Unset
    PROVE  /\ Append(h, Noted("STAGED", c)) \in Seq(Events)
           /\ Told(Append(h, Noted("STAGED", c)), st)
<1> DEFINE e == Noted("STAGED", c)
           g == Append(h, e)
<1>1. e \in Events /\ e.id = c
  BY DEF Noted, Events, EventStates
<1> HIDE DEF e
<1>2. g \in Seq(Events) /\ Len(g) = Len(h) + 1 /\ g[Len(g)] = e /\ Len(h) \in Nat /\ Len(h) > 0
  BY <1>1
<1>3. \A i \in 1..Len(h) : g[i] = h[i]
  BY <1>1
<1>4. ASSUME NEW i \in 1..Len(g)
      PROVE  ToldAt(g, st, i)
  <2>1. CASE i = Len(g)
    <3>1. g[i] = e /\ i > 1 /\ g[i - 1] = h[Len(h)]
      BY <2>1, <1>2, <1>3
    <3> QED
      BY <3>1, <1>1 DEF ToldAt
  <2>2. CASE i # Len(g)
    <3>1. i \in 1..Len(h) /\ (i > 1 => i - 1 \in 1..Len(h))
      BY <2>2, <1>2
    <3>2. ToldAt(h, st, i)
      BY <3>1 DEF Told
    <3> QED
      BY <3>1, <3>2, <1>3 DEF ToldAt
  <2> QED
    BY <2>1, <2>2
<1> QED
  BY <1>2, <1>4 DEF Told, e

\* What a history tells stays true while directories fill up.
LEMMA ToldMore ==
    ASSUME NEW h \in Seq(Events), NEW st, NEW new, Told(h, st), Fills(st, new)
    PROVE  Told(h, new)
BY DEF Told, ToldAt, Fills

\* Unset fills nothing up.
LEMMA FillsSame == \A st : Fills(st, st)
BY DEF Fills

\* The events the cycle notes are events.
LEMMA EventsAre ==
    /\ \A s \in EventStates, c \in Revisions \cup {Unset} :
         Noted(s, c) \in Events /\ Noted(s, c).state = s /\ Noted(s, c).id = c
BY DEF Noted, Events

(***************************************************************************)
(* Every step keeps the invariant: the phases that leave staged/ alone.    *)
(***************************************************************************)

\* A cycle begins: the saved history, with one event.
LEMMA BeginKeeps ==
    ASSUME CycleAssumption, CycleInv, Begin
    PROVE  After
<1>0. Typed /\ Placed /\ Dirs(staged) /\ Told(events, staged) /\ Told(journal, staged) /\ Filled /\ Reported
  BY DEF CycleInv
<1>a. Noted("HARVESTED", Unset) \in Events /\ Noted("HARVESTED", Unset).state = "HARVESTED"
  BY <1>0, EventsAre DEF EventStates
<1>b. events' = Append(journal, Noted("HARVESTED", Unset))
  BY DEF Begin
<1>c. journal \in Seq(Events)
  BY <1>0 DEF Typed
<1>1. /\ staged' = staged
      /\ events' \in Seq(Events) /\ Told(events', staged)
      /\ journal' \in Seq(Events) /\ Told(journal', staged)
      /\ events' # <<>> /\ events'[Len(events')] = Noted("HARVESTED", Unset)
      /\ Noted("HARVESTED", Unset).state = "HARVESTED"
  BY <1>0, <1>a, <1>b, <1>c, ToldPlain DEF Begin, Typed
<1>2. used' \in [cycles : Nat, edits : Nat, kills : Nat]
  <2>1. used \in [cycles : Nat, edits : Nat, kills : Nat]
    BY <1>0 DEF Typed
  <2>2. used' = [used EXCEPT !.cycles = @ + 1]
    BY DEF Begin
  <2> QED
    BY <2>1, <2>2
<1>3. Typed'
  BY <1>0, <1>1, <1>2 DEF Begin, Proceed, Typed, Phases
<1>4. Placed'
  BY <1>0, <1>1 DEF Begin, Proceed, Typed, Placed, Phases, Manifests
<1>5. Filled' /\ Reported'
  BY <1>0, <1>1 DEF Begin, Proceed, Typed, Filled, Reported, Staged, Full
<1> QED
  BY <1>0, <1>1, <1>3, <1>4, <1>5, FillsSame DEF After, Begin

\* Unset is mined: the cycle ends.
LEMMA MineNothingKeeps ==
    ASSUME CycleAssumption, CycleInv, MineNothing
    PROVE  After
<1>0. Typed /\ Placed /\ Dirs(staged) /\ Told(events, staged) /\ Told(journal, staged) /\ Filled /\ Reported
  BY DEF CycleInv
<1>a. /\ Noted("MINED", Unset) \in Events /\ Noted("MINED", Unset).state = "MINED"
      /\ Noted("NOT_APPLICABLE", Unset) \in Events /\ Noted("NOT_APPLICABLE", Unset).state = "NOT_APPLICABLE"
  BY <1>0, EventsAre DEF EventStates
<1>c. events \in Seq(Events)
  BY <1>0 DEF Typed
<1> DEFINE g == Append(events, Noted("MINED", Unset))
<1>b. events' = Append(g, Noted("NOT_APPLICABLE", Unset))
  BY <1>a, <1>c, Joined DEF MineNothing, Record
<1>d. g \in Seq(Events) /\ Told(g, staged)
  BY <1>0, <1>a, <1>c, ToldPlain
<1> HIDE DEF g
<1>1. /\ staged' = staged
      /\ events' \in Seq(Events) /\ Told(events', staged)
      /\ journal' \in Seq(Events) /\ Told(journal', staged)
      /\ events' # <<>> /\ events'[Len(events')] = Noted("NOT_APPLICABLE", Unset)
      /\ Noted("NOT_APPLICABLE", Unset).state = "NOT_APPLICABLE"
  BY <1>0, <1>a, <1>b, <1>d, ToldPlain DEF MineNothing, Typed
<1>3. Typed'
  BY <1>0, <1>1 DEF MineNothing, Proceed, Typed, Phases
<1>4. Placed'
  BY <1>0, <1>1 DEF MineNothing, Proceed, Typed, Placed, Phases, Manifests
<1>5. Filled' /\ Reported'
  BY <1>0, <1>1 DEF MineNothing, Proceed, Typed, Filled, Reported, Staged, Full
<1> QED
  BY <1>0, <1>1, <1>3, <1>4, <1>5, FillsSame DEF After, MineNothing

\* Patterns are mined.
LEMMA MineKeeps ==
    ASSUME CycleAssumption, CycleInv, Mine
    PROVE  After
<1>0. Typed /\ Placed /\ Dirs(staged) /\ Told(events, staged) /\ Told(journal, staged) /\ Filled /\ Reported
  BY DEF CycleInv
<1>a. Noted("MINED", Unset) \in Events /\ Noted("MINED", Unset).state = "MINED"
  BY <1>0, EventsAre DEF EventStates
<1>b. events' = Append(events, Noted("MINED", Unset))
  BY <1>0, <1>a, Joined DEF Mine, Record, Typed
<1>c. events \in Seq(Events)
  BY <1>0 DEF Typed
<1>1. /\ staged' = staged
      /\ events' \in Seq(Events) /\ Told(events', staged)
      /\ journal' \in Seq(Events) /\ Told(journal', staged)
      /\ events' # <<>> /\ events'[Len(events')] = Noted("MINED", Unset)
      /\ Noted("MINED", Unset).state = "MINED"
  BY <1>0, <1>a, <1>b, <1>c, ToldPlain DEF Mine, Typed
<1>3. Typed'
  BY <1>0, <1>1 DEF Mine, Proceed, Typed, Phases
<1>4. Placed'
  BY <1>0, <1>1 DEF Mine, Proceed, Typed, Placed, Phases, Manifests
<1>5. Filled' /\ Reported'
  BY <1>0, <1>1 DEF Mine, Proceed, Typed, Filled, Reported, Staged, Full
<1> QED
  BY <1>0, <1>1, <1>3, <1>4, <1>5, FillsSame DEF After, Mine

\* The candidate's text is written.
LEMMA WriteArtifactKeeps ==
    ASSUME CycleAssumption, CycleInv, WriteArtifact
    PROVE  After
<1>0. Typed /\ Placed /\ Dirs(staged) /\ Told(events, staged) /\ Told(journal, staged) /\ Filled /\ Reported
  BY DEF CycleInv
<1>1. /\ staged' = staged
      /\ events' \in Seq(Events) /\ Told(events', staged) /\ events' = events
      /\ journal' \in Seq(Events) /\ Told(journal', staged)
  BY <1>0 DEF WriteArtifact, Typed
<1>3. Typed'
  BY <1>0, <1>1 DEF WriteArtifact, Proceed, Typed, Phases, CycleAssumption, Manifests
<1>4. Placed'
  <2>1. PICK c \in Proposable[skill] : proposal' = [id |-> c, base |-> skill] /\ artifact' = c
    BY DEF WriteArtifact
  <2>2. c \in Revisions /\ skill \in Bases /\ phase' = "proposed"
    BY <1>0 DEF WriteArtifact, Proceed, Typed, CycleAssumption
  <2>3. proposal' \in Manifests /\ artifact' = proposal'.id
    BY <2>1, <2>2 DEF Manifests
  <2> QED
    BY <2>2, <2>3 DEF Placed
<1>5. Filled' /\ Reported'
  BY <1>0, <1>1 DEF WriteArtifact, Proceed, Typed, Filled, Reported, Staged, Full
<1> QED
  BY <1>0, <1>1, <1>3, <1>4, <1>5, FillsSame DEF After, WriteArtifact

\* Its manifest is written.
LEMMA WriteManifestKeeps ==
    ASSUME CycleAssumption, CycleInv, WriteManifest
    PROVE  After
<1>0. Typed /\ Placed /\ Dirs(staged) /\ Told(events, staged) /\ Told(journal, staged) /\ Filled /\ Reported
  BY DEF CycleInv
<1>i. proposal.id \in Revisions
  BY <1>0 DEF WriteManifest, Proceed, Placed, Manifests
<1>a. /\ Noted("PROPOSED", proposal.id) \in Events /\ Noted("PROPOSED", proposal.id).state = "PROPOSED"
      /\ Noted("REPLAYED", Unset) \in Events /\ Noted("REPLAYED", Unset).state = "REPLAYED"
  BY <1>0, <1>i, EventsAre DEF EventStates
<1>c. events \in Seq(Events)
  BY <1>0 DEF Typed
<1> DEFINE g == Append(events, Noted("PROPOSED", proposal.id))
<1>b. events' = Append(g, Noted("REPLAYED", Unset))
  BY <1>a, <1>c, Joined DEF WriteManifest, Record
<1>d. g \in Seq(Events) /\ Told(g, staged)
  BY <1>0, <1>a, <1>c, ToldPlain
<1> HIDE DEF g
<1>1. /\ staged' = staged
      /\ events' \in Seq(Events) /\ Told(events', staged)
      /\ journal' \in Seq(Events) /\ Told(journal', staged)
      /\ events' # <<>> /\ events'[Len(events')] = Noted("REPLAYED", Unset)
      /\ Noted("REPLAYED", Unset).state = "REPLAYED"
  BY <1>0, <1>a, <1>b, <1>d, ToldPlain DEF WriteManifest, Typed
<1>3. Typed'
  BY <1>0, <1>1 DEF WriteManifest, Proceed, Typed, Phases, Placed
<1>4. Placed'
  BY <1>0, <1>1 DEF WriteManifest, Proceed, Typed, Placed, Phases, Manifests
<1>5. Filled' /\ Reported'
  BY <1>0, <1>1 DEF WriteManifest, Proceed, Typed, Filled, Reported, Staged, Full
<1> QED
  BY <1>0, <1>1, <1>3, <1>4, <1>5, FillsSame DEF After, WriteManifest

\* The candidate is gated.
LEMMA GateKeeps ==
    ASSUME CycleAssumption, CycleInv, Gate
    PROVE  After
<1>0. Typed /\ Placed /\ Dirs(staged) /\ Told(events, staged) /\ Told(journal, staged) /\ Filled /\ Reported
  BY DEF CycleInv
<1>i. manifest.id \in Revisions /\ manifest.base \in Bases /\ manifest = proposal
  BY <1>0 DEF Gate, Proceed, Placed, Manifests
<1>a. Noted("GATED", manifest.id) \in Events /\ Noted("GATED", manifest.id).state = "GATED"
  BY <1>0, <1>i, EventsAre DEF EventStates
<1>b. events' = Append(events, Noted("GATED", manifest.id))
  BY <1>0, <1>a, Joined DEF Gate, Record, Typed
<1>c. events \in Seq(Events)
  BY <1>0 DEF Typed
<1>1. /\ staged' = staged
      /\ events' \in Seq(Events) /\ Told(events', staged)
      /\ journal' \in Seq(Events) /\ Told(journal', staged)
      /\ events' # <<>> /\ events'[Len(events')] = Noted("GATED", manifest.id)
      /\ Noted("GATED", manifest.id).state = "GATED"
  BY <1>0, <1>a, <1>b, <1>c, ToldPlain DEF Gate, Typed
<1>3. Typed'
  BY <1>0, <1>1, <1>i DEF Gate, Proceed, Typed, Phases, GateFiles, Bound
<1>4. Placed'
  BY <1>0, <1>1, <1>i DEF Gate, Proceed, Typed, Placed, Phases, Manifests
<1>5. Filled' /\ Reported'
  BY <1>0, <1>1, <1>i DEF Gate, Proceed, Typed, Filled, Reported, Staged, Full
<1> QED
  BY <1>0, <1>1, <1>3, <1>4, <1>5, FillsSame DEF After, Gate

\* A candidate that did not pass is refused.
LEMMA RefuseKeeps ==
    ASSUME CycleAssumption, CycleInv, Refuse
    PROVE  After
<1>0. Typed /\ Placed /\ Dirs(staged) /\ Told(events, staged) /\ Told(journal, staged) /\ Filled /\ Reported
  BY DEF CycleInv
<1>a. Noted("REJECTED", Unset) \in Events /\ Noted("REJECTED", Unset).state = "REJECTED"
  BY <1>0, EventsAre DEF EventStates
<1>b. events' = Append(events, Noted("REJECTED", Unset))
  BY <1>0, <1>a, Joined DEF Refuse, Record, Typed
<1>c. events \in Seq(Events)
  BY <1>0 DEF Typed
<1>1. /\ staged' = staged
      /\ events' \in Seq(Events) /\ Told(events', staged)
      /\ journal' \in Seq(Events) /\ Told(journal', staged)
      /\ events' # <<>> /\ events'[Len(events')] = Noted("REJECTED", Unset)
      /\ Noted("REJECTED", Unset).state = "REJECTED"
  BY <1>0, <1>a, <1>b, <1>c, ToldPlain DEF Refuse, Typed
<1>3. Typed'
  BY <1>0, <1>1 DEF Refuse, Proceed, Typed, Phases
<1>4. Placed'
  BY <1>0, <1>1 DEF Refuse, Proceed, Typed, Placed, Phases, Manifests
<1>5. Filled' /\ Reported'
  BY <1>0, <1>1 DEF Refuse, Proceed, Typed, Filled, Reported, Staged, Full
<1> QED
  BY <1>0, <1>1, <1>3, <1>4, <1>5, FillsSame DEF After, Refuse

\* The target was edited: the cycle ends.
LEMMA StaleKeeps ==
    ASSUME CycleAssumption, CycleInv, Stale
    PROVE  After
<1>0. Typed /\ Placed /\ Dirs(staged) /\ Told(events, staged) /\ Told(journal, staged) /\ Filled /\ Reported
  BY DEF CycleInv
<1>a. Noted("STALE", Unset) \in Events /\ Noted("STALE", Unset).state = "STALE"
  BY <1>0, EventsAre DEF EventStates
<1>b. events' = Append(events, Noted("STALE", Unset))
  BY <1>0, <1>a, Joined DEF Stale, Record, Typed
<1>c. events \in Seq(Events)
  BY <1>0 DEF Typed
<1>1. /\ staged' = staged
      /\ events' \in Seq(Events) /\ Told(events', staged)
      /\ journal' \in Seq(Events) /\ Told(journal', staged)
      /\ events' # <<>> /\ events'[Len(events')] = Noted("STALE", Unset)
      /\ Noted("STALE", Unset).state = "STALE"
  BY <1>0, <1>a, <1>b, <1>c, ToldPlain DEF Stale, Typed
<1>3. Typed'
  BY <1>0, <1>1 DEF Stale, Proceed, Typed, Phases
<1>4. Placed'
  BY <1>0, <1>1 DEF Stale, Proceed, Typed, Placed, Phases, Manifests
<1>5. Filled' /\ Reported'
  BY <1>0, <1>1 DEF Stale, Proceed, Typed, Filled, Reported, Staged, Full
<1> QED
  BY <1>0, <1>1, <1>3, <1>4, <1>5, FillsSame DEF After, Stale

\* The candidate goes on to staging.
LEMMA ProceedToStageKeeps ==
    ASSUME CycleAssumption, CycleInv, ProceedToStage
    PROVE  After
<1>0. Typed /\ Placed /\ Dirs(staged) /\ Told(events, staged) /\ Told(journal, staged) /\ Filled /\ Reported
  BY DEF CycleInv
<1>1. /\ staged' = staged
      /\ events' \in Seq(Events) /\ Told(events', staged) /\ events' = events
      /\ journal' \in Seq(Events) /\ Told(journal', staged)
  BY <1>0 DEF ProceedToStage, Typed
<1>3. Typed'
  BY <1>0, <1>1 DEF ProceedToStage, Proceed, Typed, Phases
<1>4. Placed'
  BY <1>0, <1>1 DEF ProceedToStage, Proceed, Typed, Placed, Phases, Manifests
<1>5. Filled' /\ Reported'
  BY <1>0, <1>1 DEF ProceedToStage, Proceed, Typed, Filled, Reported, Staged, Full
<1> QED
  BY <1>0, <1>1, <1>3, <1>4, <1>5, FillsSame DEF After, ProceedToStage

\* The cycle ends and saves its history.
LEMMA FinishKeeps ==
    ASSUME CycleAssumption, CycleInv, Finish
    PROVE  After
<1>0. Typed /\ Placed /\ Dirs(staged) /\ Told(events, staged) /\ Told(journal, staged) /\ Filled /\ Reported
  BY DEF CycleInv
<1>1. /\ staged' = staged
      /\ events' \in Seq(Events) /\ Told(events', staged) /\ events' = events
      /\ journal' \in Seq(Events) /\ Told(journal', staged)
  BY <1>0 DEF Finish, Typed
<1>3. Typed'
  BY <1>0, <1>1 DEF Finish, Proceed, Typed, Phases
<1>4. Placed'
  BY <1>0, <1>1 DEF Finish, Proceed, Typed, Placed, Phases, Manifests
<1>5. Filled' /\ Reported'
  <2>1. /\ phase = "finish" /\ phase' = "idle" /\ staged' = staged /\ used' = used /\ proposal' = proposal
        /\ report'.stage = IF Staged THEN proposal.id ELSE Unset
    BY DEF Finish, Proceed
  <2>2. proposal.id \in Revisions
    BY <1>0, <2>1 DEF Placed, Manifests
  <2>3. Filled'
    BY <1>0, <2>1 DEF Filled, Full
  <2>4. CASE Staged
    <3>1. report'.stage = proposal.id
      BY <2>1, <2>4
    <3>2. used.kills = 0 => staged[proposal.id] # Unset /\ Full(staged[proposal.id])
      BY <1>0, <2>1, <2>4 DEF Reported
    <3> QED
      BY <2>1, <2>2, <2>3, <3>1, <3>2 DEF Reported, Full
  <2>5. CASE ~Staged
    <3>1. report'.stage = Unset
      BY <2>1, <2>5
    <3> QED
      BY <2>1, <2>3, <3>1 DEF Reported
  <2> QED
    BY <2>3, <2>4, <2>5
<1> QED
  BY <1>0, <1>1, <1>3, <1>4, <1>5, FillsSame DEF After, Finish

\* The cycle ends in an error.
LEMMA FailKeeps ==
    ASSUME CycleAssumption, CycleInv, Fail
    PROVE  After
<1>0. Typed /\ Placed /\ Dirs(staged) /\ Told(events, staged) /\ Told(journal, staged) /\ Filled /\ Reported
  BY DEF CycleInv
<1>1. /\ staged' = staged
      /\ events' \in Seq(Events) /\ Told(events', staged) /\ events' = events
      /\ journal' \in Seq(Events) /\ Told(journal', staged)
  BY <1>0 DEF Fail, Typed
<1>3. Typed'
  BY <1>0, <1>1 DEF Fail, Proceed, Typed, Phases
<1>4. Placed'
  BY <1>0, <1>1 DEF Fail, Proceed, Typed, Placed, Phases, Manifests
<1>5. Filled' /\ Reported'
  BY <1>0, <1>1 DEF Fail, Proceed, Typed, Filled, Reported, Staged, Full
<1> QED
  BY <1>0, <1>1, <1>3, <1>4, <1>5, FillsSame DEF After, Fail

\* The cycle is killed: what it staged need no longer be complete.
LEMMA KillKeeps ==
    ASSUME CycleAssumption, CycleInv, Kill
    PROVE  After
<1>0. Typed /\ Placed /\ Dirs(staged) /\ Told(events, staged) /\ Told(journal, staged) /\ Filled /\ Reported
  BY DEF CycleInv
<1>1. /\ staged' = staged
      /\ events' \in Seq(Events) /\ Told(events', staged) /\ events' = events
      /\ journal' \in Seq(Events) /\ Told(journal', staged)
  BY <1>0 DEF Kill, Typed
<1>3. Typed'
  BY <1>0, <1>1 DEF Kill, Proceed, Typed, Phases
<1>4. Placed'
  BY <1>0, <1>1 DEF Kill, Proceed, Typed, Placed, Phases, Manifests
<1>5. Filled' /\ Reported'
  BY <1>0, <1>1 DEF Kill, Proceed, Typed, Filled, Reported, Staged, Full
<1> QED
  BY <1>0, <1>1, <1>3, <1>4, <1>5, FillsSame DEF After, Kill

\* The owner edits the target.
LEMMA EditKeeps ==
    ASSUME CycleAssumption, CycleInv, Edit
    PROVE  After
<1>0. Typed /\ Placed /\ Dirs(staged) /\ Told(events, staged) /\ Told(journal, staged) /\ Filled /\ Reported
  BY DEF CycleInv
<1>1. /\ staged' = staged
      /\ events' \in Seq(Events) /\ Told(events', staged) /\ events' = events
      /\ journal' \in Seq(Events) /\ Told(journal', staged)
  BY <1>0 DEF Edit, Typed
<1>3. Typed'
  BY <1>0, <1>1 DEF Edit, Proceed, Typed, Phases
<1>4. Placed'
  BY <1>0, <1>1 DEF Edit, Proceed, Typed, Placed, Phases, Manifests
<1>5. Filled' /\ Reported'
  BY <1>0, <1>1 DEF Edit, Proceed, Typed, Filled, Reported, Staged, Full
<1> QED
  BY <1>0, <1>1, <1>3, <1>4, <1>5, FillsSame DEF After, Edit

(***************************************************************************)
(* Every step keeps the invariant: staging.                                *)
(***************************************************************************)

\* A directory of its own for the candidate.
LEMMA StageNewKeeps ==
    ASSUME CycleAssumption, CycleInv, StageNew
    PROVE  After
<1>0. Typed /\ Placed /\ Dirs(staged) /\ Told(events, staged) /\ Told(journal, staged) /\ Filled /\ Reported
  BY DEF CycleInv
<1> DEFINE c == proposal.id
<1>i. /\ c \in Revisions /\ proposal \in Manifests /\ artifact = c /\ manifest = proposal
      /\ events # <<>> /\ events[Len(events)] = Noted("GATED", c)
      /\ staged \in [Revisions -> Files \cup {Unset}]
      /\ Unset \notin Revisions \cup Manifests \cup GateFiles \cup Files
      /\ events \in Seq(Events) /\ journal \in Seq(Events)
      /\ c # Unset /\ proposal # Unset
  BY <1>0 DEF StageNew, Placed, Manifests, Typed, CycleAssumption
<1>j. /\ staged[c] = Unset /\ gates[c] = [status |-> "PASS", base |-> proposal.base]
  BY <1>i DEF StageNew, StageAllowed
<1>k. staged' = [staged EXCEPT ![c] = NoFiles]
  BY DEF StageNew
<1>l. /\ NoFiles \in Files /\ Good(c, NoFiles)
      /\ NoFiles # Unset /\ NoFiles.gate = Unset /\ NoFiles.manifest = Unset
  BY <1>i DEF NoFiles, Files, Good
<1>m. /\ staged' \in [Revisions -> Files \cup {Unset}]
      /\ staged'[c] = NoFiles /\ \A d \in Revisions : d # c => staged'[d] = staged[d]
  BY <1>i, <1>k, <1>l
<1>n. Dirs(staged') /\ Fills(staged, staged')
  BY <1>0, <1>m, <1>l, <1>j DEF Dirs, Fills
<1>o. Told(events, staged') /\ Told(journal, staged')
  BY <1>0, <1>i, <1>n, ToldMore
<1>q. /\ phase = "stage" /\ phase' = "copying"
      /\ UNCHANGED <<before, proposal, events, skill, artifact, manifest, gates, journal, report, used>>
  BY DEF StageNew
<1>3. Typed'
  BY <1>0, <1>q, <1>m DEF Typed, Phases
<1>4. Placed'
  BY <1>0, <1>i, <1>j, <1>q, <1>l, <1>m DEF Placed
<1>5. Filled' /\ Reported'
  <2>1. ASSUME NEW d \in Revisions, staged[d] # Unset, Full(staged[d])
        PROVE  staged'[d] # Unset /\ Full(staged'[d])
    BY <2>1, <1>n DEF Fills, Full
  <2> QED
    BY <1>0, <1>q, <2>1, <1>i, <1>j, <1>l, <1>m DEF Filled, Reported
<1> QED
  BY <1>o, <1>q, <1>n, <1>3, <1>4, <1>5 DEF After

\* The text is copied.
LEMMA CopyArtifactKeeps ==
    ASSUME CycleAssumption, CycleInv, CopyArtifact
    PROVE  After
<1>0. Typed /\ Placed /\ Dirs(staged) /\ Told(events, staged) /\ Told(journal, staged) /\ Filled /\ Reported
  BY DEF CycleInv
<1> DEFINE c == proposal.id
<1>i. /\ c \in Revisions /\ proposal \in Manifests /\ artifact = c /\ manifest = proposal
      /\ events # <<>> /\ events[Len(events)] = Noted("GATED", c)
      /\ staged \in [Revisions -> Files \cup {Unset}]
      /\ Unset \notin Revisions \cup Manifests \cup GateFiles \cup Files
      /\ events \in Seq(Events) /\ journal \in Seq(Events)
      /\ c # Unset /\ proposal # Unset
  BY <1>0 DEF CopyArtifact, Placed, Manifests, Typed, CycleAssumption
<1>j. /\ staged[c] # Unset /\ staged[c] \in Files /\ Good(c, staged[c])
      /\ staged[c].gate = Unset /\ staged[c].manifest \in {Unset, proposal}
      /\ gates[c] = [status |-> "PASS", base |-> proposal.base]
  BY <1>0, <1>i DEF CopyArtifact, Placed, Dirs
<1> DEFINE f == [staged[c] EXCEPT !.artifact = artifact]
<1>k. staged' = [staged EXCEPT ![c] = f]
  BY DEF CopyArtifact
<1>l. /\ f \in Files /\ Good(c, f) /\ f # Unset
      /\ staged[c].artifact # Unset => f.artifact = staged[c].artifact
      /\ staged[c].manifest # Unset => f.manifest = staged[c].manifest
      /\ staged[c].gate # Unset => f.gate = staged[c].gate
  BY <1>i, <1>j DEF Files, Good
<1> HIDE DEF f
<1>m. /\ staged' \in [Revisions -> Files \cup {Unset}]
      /\ staged'[c] = f /\ \A d \in Revisions : d # c => staged'[d] = staged[d]
  BY <1>i, <1>k, <1>l
<1>n. Dirs(staged') /\ Fills(staged, staged')
  BY <1>0, <1>m, <1>l DEF Dirs, Fills
<1>o. Told(events, staged') /\ Told(journal, staged')
  BY <1>0, <1>i, <1>n, ToldMore
<1>q. events' = events /\ events' \in Seq(Events) /\ Told(events', staged')
  BY <1>i, <1>o DEF CopyArtifact
<1>3. Typed'
  BY <1>0, <1>q, <1>m DEF CopyArtifact, Typed, Phases
<1>4. Placed'
  BY <1>0, <1>i, <1>j, <1>q, <1>l, <1>m DEF CopyArtifact, Placed, f
<1>5. Filled' /\ Reported'
  <2>1. /\ report' = report /\ used' = used /\ proposal' = proposal /\ phase = "copying" /\ phase' = "copying"
    BY DEF CopyArtifact
  <2>2. ASSUME NEW d \in Revisions, staged[d] # Unset, Full(staged[d])
        PROVE  staged'[d] # Unset /\ Full(staged'[d])
    BY <2>2, <1>n DEF Fills, Full
  <2> QED
    BY <1>0, <2>1, <2>2, <1>i, <1>j, <1>l, <1>m DEF Filled, Reported
<1> QED
  BY <1>o, <1>q, <1>n, <1>3, <1>4, <1>5 DEF After, CopyArtifact

\* The manifest is copied.
LEMMA CopyManifestKeeps ==
    ASSUME CycleAssumption, CycleInv, CopyManifest
    PROVE  After
<1>0. Typed /\ Placed /\ Dirs(staged) /\ Told(events, staged) /\ Told(journal, staged) /\ Filled /\ Reported
  BY DEF CycleInv
<1> DEFINE c == proposal.id
<1>i. /\ c \in Revisions /\ proposal \in Manifests /\ artifact = c /\ manifest = proposal
      /\ events # <<>> /\ events[Len(events)] = Noted("GATED", c)
      /\ staged \in [Revisions -> Files \cup {Unset}]
      /\ Unset \notin Revisions \cup Manifests \cup GateFiles \cup Files
      /\ events \in Seq(Events) /\ journal \in Seq(Events)
      /\ c # Unset /\ proposal # Unset
  BY <1>0 DEF CopyManifest, Placed, Manifests, Typed, CycleAssumption
<1>j. /\ staged[c] # Unset /\ staged[c] \in Files /\ Good(c, staged[c])
      /\ staged[c].gate = Unset /\ staged[c].manifest \in {Unset, proposal}
      /\ gates[c] = [status |-> "PASS", base |-> proposal.base]
  BY <1>0, <1>i DEF CopyManifest, Placed, Dirs
<1> DEFINE f == [staged[c] EXCEPT !.manifest = manifest]
<1>k. staged' = [staged EXCEPT ![c] = f]
  BY DEF CopyManifest
<1>l. /\ f \in Files /\ Good(c, f) /\ f # Unset
      /\ staged[c].artifact # Unset => f.artifact = staged[c].artifact
      /\ staged[c].manifest # Unset => f.manifest = staged[c].manifest
      /\ staged[c].gate # Unset => f.gate = staged[c].gate
  BY <1>i, <1>j DEF Files, Good, Manifests
<1> HIDE DEF f
<1>m. /\ staged' \in [Revisions -> Files \cup {Unset}]
      /\ staged'[c] = f /\ \A d \in Revisions : d # c => staged'[d] = staged[d]
  BY <1>i, <1>k, <1>l
<1>n. Dirs(staged') /\ Fills(staged, staged')
  BY <1>0, <1>m, <1>l DEF Dirs, Fills
<1>o. Told(events, staged') /\ Told(journal, staged')
  BY <1>0, <1>i, <1>n, ToldMore
<1>q. events' = events /\ events' \in Seq(Events) /\ Told(events', staged')
  BY <1>i, <1>o DEF CopyManifest
<1>3. Typed'
  BY <1>0, <1>q, <1>m DEF CopyManifest, Typed, Phases
<1>4. Placed'
  BY <1>0, <1>i, <1>j, <1>q, <1>l, <1>m DEF CopyManifest, Placed, f
<1>5. Filled' /\ Reported'
  <2>1. /\ report' = report /\ used' = used /\ proposal' = proposal /\ phase = "copying" /\ phase' = "copying"
    BY DEF CopyManifest
  <2>2. ASSUME NEW d \in Revisions, staged[d] # Unset, Full(staged[d])
        PROVE  staged'[d] # Unset /\ Full(staged'[d])
    BY <2>2, <1>n DEF Fills, Full
  <2> QED
    BY <1>0, <2>1, <2>2, <1>i, <1>j, <1>l, <1>m DEF Filled, Reported
<1> QED
  BY <1>o, <1>q, <1>n, <1>3, <1>4, <1>5 DEF After, CopyManifest

\* The gate is copied, and the staging is whole.
LEMMA CopyGateKeeps ==
    ASSUME CycleAssumption, CycleInv, CopyGate
    PROVE  After
<1>0. Typed /\ Placed /\ Dirs(staged) /\ Told(events, staged) /\ Told(journal, staged) /\ Filled /\ Reported
  BY DEF CycleInv
<1> DEFINE c == proposal.id
<1>i. /\ c \in Revisions /\ proposal \in Manifests /\ artifact = c /\ manifest = proposal
      /\ events # <<>> /\ events[Len(events)] = Noted("GATED", c)
      /\ staged \in [Revisions -> Files \cup {Unset}]
      /\ Unset \notin Revisions \cup Manifests \cup GateFiles \cup Files
      /\ events \in Seq(Events) /\ journal \in Seq(Events)
      /\ c # Unset /\ proposal # Unset
  BY <1>0 DEF CopyGate, Placed, Manifests, Typed, CycleAssumption
<1>j. /\ staged[c] # Unset /\ staged[c] \in Files /\ Good(c, staged[c])
      /\ staged[c].gate = Unset /\ staged[c].manifest \in {Unset, proposal}
      /\ gates[c] = [status |-> "PASS", base |-> proposal.base]
  BY <1>0, <1>i DEF CopyGate, Placed, Dirs
<1>g. /\ gates[c] \in GateFiles /\ gates[c] # Unset
      /\ staged[c].artifact = artifact /\ staged[c].manifest = manifest
  BY <1>i, <1>j DEF GateFiles, Manifests, CopyGate
<1> DEFINE f == [staged[c] EXCEPT !.gate = gates[c]]
<1>k. staged' = [staged EXCEPT ![c] = f]
  BY DEF CopyGate
<1>l. /\ f \in Files /\ Good(c, f) /\ f # Unset
      /\ staged[c].artifact # Unset => f.artifact = staged[c].artifact
      /\ staged[c].manifest # Unset => f.manifest = staged[c].manifest
      /\ staged[c].gate # Unset => f.gate = staged[c].gate
  BY <1>i, <1>j, <1>g DEF Files, Good, Manifests
<1>r. f.artifact # Unset /\ f.manifest # Unset /\ f.gate # Unset
  BY <1>i, <1>j, <1>g DEF Files
<1> HIDE DEF f
<1>m. /\ staged' \in [Revisions -> Files \cup {Unset}]
      /\ staged'[c] = f /\ \A d \in Revisions : d # c => staged'[d] = staged[d]
  BY <1>i, <1>k, <1>l
<1>n. Dirs(staged') /\ Fills(staged, staged')
  BY <1>0, <1>m, <1>l DEF Dirs, Fills
<1>o. Told(events, staged') /\ Told(journal, staged')
  BY <1>0, <1>i, <1>n, ToldMore
<1>p. events' = Append(events, Noted("STAGED", c))
  BY <1>i, EventsAre, Joined DEF CopyGate, Record, EventStates
<1>q. events' \in Seq(Events) /\ Told(events', staged')
  BY <1>i, <1>o, <1>p, <1>m, <1>l, <1>r, ToldStaged
<1>3. Typed'
  BY <1>0, <1>q, <1>m DEF CopyGate, Typed, Phases
<1>4. Placed'
  BY <1>0, <1>i, <1>j, <1>q, <1>l, <1>m, <1>r DEF CopyGate, Placed
<1>5. Filled' /\ Reported'
  <2>1. /\ report' = report /\ used' = used /\ proposal' = proposal /\ phase = "copying" /\ phase' = "finish"
    BY DEF CopyGate
  <2>2. ASSUME NEW d \in Revisions, staged[d] # Unset, Full(staged[d])
        PROVE  staged'[d] # Unset /\ Full(staged'[d])
    BY <2>2, <1>n DEF Fills, Full
  <2> QED
    BY <1>0, <2>1, <2>2, <1>i, <1>j, <1>l, <1>m, <1>r DEF Filled, Reported, Full
<1> QED
  BY <1>o, <1>q, <1>n, <1>3, <1>4, <1>5 DEF After, CopyGate

\* The candidate is staged already.
LEMMA StageIdempotentKeeps ==
    ASSUME CycleAssumption, CycleInv, StageIdempotent
    PROVE  After
<1>0. Typed /\ Placed /\ Dirs(staged) /\ Told(events, staged) /\ Told(journal, staged) /\ Filled /\ Reported
  BY DEF CycleInv
<1> DEFINE c == proposal.id
<1>i. /\ c \in Revisions /\ proposal \in Manifests /\ artifact = c /\ manifest = proposal
      /\ events # <<>> /\ events[Len(events)] = Noted("GATED", c)
      /\ staged \in [Revisions -> Files \cup {Unset}]
      /\ Unset \notin Revisions \cup Manifests \cup GateFiles \cup Files
      /\ events \in Seq(Events) /\ journal \in Seq(Events)
      /\ c # Unset /\ proposal # Unset
  BY <1>0 DEF StageIdempotent, Placed, Manifests, Typed, CycleAssumption
<1>j. /\ staged[c] # Unset /\ staged[c].manifest # Unset /\ staged' = staged
      /\ phase = "stage" /\ phase' = "finish"
      /\ UNCHANGED <<before, proposal, skill, artifact, manifest, gates, staged, journal, report, used>>
  BY DEF StageIdempotent
<1>p. events' = Append(events, Noted("STAGED", c))
  BY <1>i, EventsAre, Joined DEF StageIdempotent, Record, EventStates
<1>q. events' \in Seq(Events) /\ Told(events', staged)
  BY <1>0, <1>i, <1>j, <1>p, ToldStaged
<1>3. Typed'
  BY <1>0, <1>q, <1>j DEF Typed, Phases
<1>4. Placed'
  BY <1>0, <1>i, <1>j DEF Placed
<1>5. Filled' /\ Reported'
  BY <1>0, <1>i, <1>j DEF Filled, Reported
<1> QED
  BY <1>0, <1>j, <1>q, <1>3, <1>4, <1>5, FillsSame DEF After

(***************************************************************************)
(* The theorems.                                                           *)
(***************************************************************************)

\* A step keeps the invariant, and no staged file is removed or replaced.
LEMMA StepKeeps ==
    ASSUME CycleAssumption, CycleInv, CycleNext
    PROVE  After
BY BeginKeeps, MineNothingKeeps, MineKeeps, WriteArtifactKeeps, WriteManifestKeeps, GateKeeps,
   RefuseKeeps, StaleKeeps, ProceedToStageKeeps, StageNewKeeps, CopyArtifactKeeps,
   CopyManifestKeeps, CopyGateKeeps, StageIdempotentKeeps, FinishKeeps, FailKeeps, KillKeeps,
   EditKeeps DEF CycleNext

LEMMA InitInvariant == CycleAssumption /\ CycleInit => CycleInv
<1> SUFFICES ASSUME CycleAssumption, CycleInit PROVE CycleInv
  OBVIOUS
<1>1. Typed
  BY DEF CycleInit, Typed, Phases
<1>2. Placed /\ Dirs(staged) /\ Filled
  BY DEF CycleInit, Placed, Dirs, Filled
<1>3. Told(events, staged) /\ Told(journal, staged) /\ Reported
  BY DEF CycleInit, Told, ToldAt, Reported, Staged
<1> QED
  BY <1>1, <1>2, <1>3 DEF CycleInv

LEMMA StutterKeeps == CycleInv /\ UNCHANGED cycleVars => CycleInv'
<1> SUFFICES ASSUME CycleInv, UNCHANGED cycleVars PROVE CycleInv'
  OBVIOUS
<1>1. Typed' /\ Placed' /\ Filled' /\ Reported'
  BY DEF cycleVars, CycleInv, Typed, Placed, Filled, Reported, Staged
<1>2. Dirs(staged') /\ Told(events', staged') /\ Told(journal', staged')
  BY DEF cycleVars, CycleInv
<1> QED
  BY <1>1, <1>2 DEF CycleInv, Dirs, Told, ToldAt, Good, Noted

\* The invariant holds in every state of the learning cycle.
THEOREM Invariance == ASSUME CycleAssumption PROVE CycleSpec => []CycleInv
<1>1. CycleInit => CycleInv
  BY CycleAssumption, InitInvariant
<1>2. CycleInv /\ [CycleNext]_cycleVars => CycleInv'
  BY CycleAssumption, StepKeeps, AfterIsInvariant, StutterKeeps
<1> QED
  BY <1>1, <1>2, PTL DEF CycleSpec

LEMMA InvariantIsStaging == CycleAssumption /\ CycleInv => StagingIsTrue
<1> SUFFICES ASSUME CycleAssumption, CycleInv PROVE StagingIsTrue
  OBVIOUS
<1>0. Typed /\ Placed /\ Dirs(staged) /\ Told(journal, staged) /\ Reported
  BY DEF CycleInv
<1>1. CycleTypeOK
  BY <1>0 DEF Typed, Placed, CycleTypeOK
<1>2. StagedGateIsItsOwn
  BY <1>0, <1>1 DEF StagedGateIsItsOwn, Dirs, Good
<1>3. \A i \in DOMAIN journal : journal[i].state = "STAGED" =>
         /\ staged[journal[i].id] # Unset /\ staged[journal[i].id].manifest # Unset
         /\ i > 1 /\ journal[i - 1] = Noted("GATED", journal[i].id)
  <2>1. DOMAIN journal = 1..Len(journal)
    BY <1>0 DEF Typed
  <2> QED
    BY <2>1, <1>0 DEF Told, ToldAt
<1>4. (report # Unset /\ report.stage # Unset /\ used.kills = 0) =>
         \A f \in DOMAIN NoFiles : staged[report.stage][f] # Unset
  <2>1. DOMAIN NoFiles = {"artifact", "manifest", "gate"}
    BY DEF NoFiles
  <2> QED
    BY <2>1, <1>0 DEF Reported, Full
<1>5. HistoryIsTrue
  BY <1>3, <1>4 DEF HistoryIsTrue
<1> QED
  BY <1>2, <1>5 DEF StagingIsTrue

\* What is under review was gated as it stands and the history tells of no
\* staging that is not there, whatever the cycle is killed in or the owner
\* edits.
THEOREM StagingIsAlwaysTrue == ASSUME CycleAssumption PROVE CycleSpec => []StagingIsTrue
<1>1. CycleInv => StagingIsTrue
  BY CycleAssumption, InvariantIsStaging
<1>2. CycleSpec => []CycleInv
  BY CycleAssumption, Invariance
<1> QED
  BY <1>1, <1>2, PTL

LEMMA FillsEndure == Fills(staged, staged') => StagedStay
<1>1. DOMAIN NoFiles = {"artifact", "manifest", "gate"}
  BY DEF NoFiles
<1> QED
  BY <1>1 DEF Fills, StagedStay

\* No step of any cycle removes or replaces a file that is staged for review.
THEOREM StagedFilesAlwaysEndure ==
    ASSUME CycleAssumption PROVE CycleSpec => StagedFilesEndure
<1>1. CycleInv /\ [CycleNext]_cycleVars => [StagedStay]_cycleVars
  BY CycleAssumption, StepKeeps, FillsEndure DEF After
<1>2. CycleSpec => []CycleInv
  BY CycleAssumption, Invariance
<1> QED
  BY <1>1, <1>2, PTL DEF CycleSpec, StagedFilesEndure

---------------------------------------------------------------------------
(* Observed replays.                                                        *)

\* The pairs recorded under binding b: one for a key, of the plan, and measured on the
\* fixtures of b unless these were edited meanwhile (D).
SawBound(p, v, b, D) == p.key[1] \notin D => p.saw[v] = b.fixtures[p.key[1]]
Recorded(ps, b, D) ==
    /\ \A m, n \in 1..Len(ps) : ps[m].key = ps[n].key => m = n
    /\ KeysOf(ps) \subseteq Planned(b)
    /\ \A n \in 1..Len(ps), v \in Variants : SawBound(ps[n], v, b, D)

\* The pair being made is a planned one that is not recorded.
MakingHolds ==
    /\ current \in [key : Keys \cup {NoValue}, saw : [Variants -> FixtureTexts \cup {NoValue}]]
    /\ rpc \in {"first", "second", "paired"} => current.key \in Missing
    /\ rpc = "second" => /\ current.saw[FirstVariant] \in FixtureTexts
                         /\ SawBound(current, FirstVariant, binding, disturbed)
    /\ rpc = "paired" => /\ current.saw \in [Variants -> FixtureTexts]
                         /\ \A v \in Variants : SawBound(current, v, binding, disturbed)
RunningHolds ==
    rpc # "idle" =>
        /\ binding \in Binding /\ Recorded(pairs, binding, disturbed)
        /\ \A t \in Tasks \ disturbed : fixture[t] = binding.fixtures[t]
SavedHolds ==
    replayed # NoValue =>
        /\ Recorded(replayed.pairs, replayed.binding, disturbed)
        /\ replayed.complete => KeysOf(replayed.pairs) = Planned(replayed.binding)

ReplayInv == ReplayTypeOK /\ MakingHolds /\ RunningHolds /\ SavedHolds

\* What is planned are tasks and iterations.
LEMMA DivMod ==
  ASSUME NEW m \in Nat, NEW r \in Nat \ {0}
  PROVE  /\ m \div r \in Nat /\ m % r \in 0..(r - 1)
         /\ m = r * (m \div r) + (m % r)
OBVIOUS

LEMMA DivBound ==
  ASSUME NEW l \in Nat, NEW r \in Nat \ {0}, NEW m \in Nat, m < l * r
  PROVE  m \div r < l
<1> DEFINE q == m \div r
<1>1. q \in Nat /\ m % r \in 0..(r - 1) /\ m = r * q + (m % r)
  BY DivMod
<1> HIDE DEF q
<1>2. SUFFICES ASSUME q >= l PROVE FALSE
  BY <1>1 DEF q
<1>3. r * q >= l * r
  BY <1>1, <1>2
<1>4. r * q \in Nat /\ l * r \in Nat
  BY <1>1
<1> QED BY <1>1, <1>3, <1>4

LEMMA PlannedKeys == ASSUME NEW b \in Binding PROVE Planned(b) \subseteq Keys
<1> SUFFICES ASSUME NEW n \in 1..(Len(Suite) * b.rollouts) PROVE Order(b.rollouts)[n] \in Keys
  BY DEF Planned
<1>1. b.rollouts \in 1..MaxRollouts /\ MaxRollouts \in Nat /\ Len(Suite) \in Nat
  BY ReplayAssumption DEF Binding
<1>2. Len(Suite) * b.rollouts \in Nat
  BY <1>1
<1>3. n - 1 \in Nat /\ n - 1 < Len(Suite) * b.rollouts
  BY <1>2
<1>4. (n - 1) \div b.rollouts \in Nat /\ (n - 1) % b.rollouts \in 0..(b.rollouts - 1)
  <2>1. b.rollouts \in Nat \ {0}
    BY <1>1
  <2> QED BY <1>3, <2>1, DivMod
<1>5. (n - 1) \div b.rollouts < Len(Suite)
  <2>1. b.rollouts \in Nat \ {0}
    BY <1>1
  <2> QED BY <1>1, <1>3, <2>1, DivBound
<1>6. Suite[1 + ((n - 1) \div b.rollouts)] \in Tasks
  <2>1. PICK q \in Nat : q = (n - 1) \div b.rollouts
    BY <1>4
  <2>2. 1 + q \in 1..Len(Suite)
    BY <1>1, <1>5, <2>1
  <2>3. Suite[1 + q] \in Tasks
    BY <2>2 DEF Tasks
  <2> QED BY <2>1, <2>3
<1>7. (n - 1) % b.rollouts \in 0..(MaxRollouts - 1)
  BY <1>1, <1>4
<1>8. Order(b.rollouts)[n] = <<Suite[1 + ((n - 1) \div b.rollouts)], ((n - 1) % b.rollouts)>>
  BY DEF Order
<1> QED BY <1>6, <1>7, <1>8 DEF Keys

LEMMA ReplayStarts == ReplayInit => ReplayInv
<1> SUFFICES ASSUME ReplayInit PROVE ReplayInv
  OBVIOUS
<1>1. ReplayTypeOK
  <2>1. rspent \in [crashes : 0..MaxCrashes, edits : 0..MaxFixtureEdits]
    BY ReplayAssumption DEF ReplayInit
  <2> QED BY <2>1 DEF ReplayInit, ReplayTypeOK
<1>2. MakingHolds
  BY DEF ReplayInit, MakingHolds, NoPair
<1>3. RunningHolds /\ SavedHolds
  BY DEF ReplayInit, RunningHolds, SavedHolds
<1> QED BY <1>1, <1>2, <1>3 DEF ReplayInv

\* A replay starts with nothing, or with what a manifest of its own binding holds.
LEMMA StartKeeps ==
  ASSUME ReplayInv, NEW r \in 1..MaxRollouts, Start(r)
  PROVE  ReplayInv'
<1>1. /\ UNCHANGED <<current, replayed, dirs, fixture, rspent, disturbed>>
      /\ rpc' = "looping" /\ binding' = [fixtures |-> fixture, rollouts |-> r]
      /\ (replayed = NoValue /\ pairs' = <<>>)
         \/ (replayed # NoValue /\ replayed.binding = binding' /\ pairs' = replayed.pairs)
  BY DEF Start, Continues
<1>2. binding' \in Binding /\ binding'.fixtures = fixture
  BY <1>1 DEF ReplayInv, ReplayTypeOK, Binding
<1>3. pairs' \in Seq(Pair) /\ Recorded(pairs', binding', disturbed)
  <2>1. CASE pairs' = <<>>
    BY <2>1 DEF Recorded, KeysOf
  <2>2. CASE replayed # NoValue /\ replayed.binding = binding' /\ pairs' = replayed.pairs
    BY <2>2 DEF ReplayInv, ReplayTypeOK, Manifest, SavedHolds
  <2> QED BY <1>1, <2>1, <2>2
<1>4. ReplayTypeOK'
  BY <1>1, <1>2, <1>3 DEF ReplayInv, ReplayTypeOK
<1>5. MakingHolds'
  BY <1>1 DEF ReplayInv, MakingHolds
<1>6. RunningHolds'
  BY <1>1, <1>2, <1>3 DEF RunningHolds
<1>7. SavedHolds'
  BY <1>1 DEF ReplayInv, SavedHolds
<1> QED BY <1>4, <1>5, <1>6, <1>7 DEF ReplayInv

LEMMA BeginPairKeeps == ASSUME ReplayInv, BeginPair PROVE ReplayInv'
<1>1. /\ UNCHANGED <<binding, pairs, replayed, fixture, rspent, disturbed>>
      /\ rpc = "looping" /\ rpc' = "first" /\ dirs' \subseteq dirs
      /\ \E key \in Missing : current' = [NoPair EXCEPT !.key = key]
  BY DEF BeginPair, ChooseKey
<1>2. PICK key \in Missing : current' = [NoPair EXCEPT !.key = key]
  BY <1>1
<1>3. key \in Keys
  BY <1>1, PlannedKeys DEF ReplayInv, RunningHolds, Missing
<1>4. Missing' = Missing
  BY <1>1 DEF Missing
<1>5. ReplayTypeOK'
  BY <1>1 DEF ReplayInv, ReplayTypeOK
<1>6. MakingHolds'
  BY <1>1, <1>2, <1>3, <1>4 DEF MakingHolds, NoPair
<1>7. RunningHolds' /\ SavedHolds'
  BY <1>1 DEF ReplayInv, RunningHolds, SavedHolds
<1> QED BY <1>5, <1>6, <1>7 DEF ReplayInv

\* Each of the two rollouts sees the fixture of the binding, unless it was edited.
LEMMA VariantsDiffer ==
  /\ FirstVariant \in Variants /\ SecondVariant \in Variants
  /\ Variants = {FirstVariant, SecondVariant} /\ FirstVariant # SecondVariant
BY DEF Variants, FirstVariant, SecondVariant

LEMMA RolloutKeeps == ASSUME ReplayInv, RunFirst \/ RunSecond PROVE ReplayInv'
<1>1. /\ UNCHANGED <<binding, pairs, replayed, fixture, rspent, disturbed>>
      /\ rpc \in {"first", "second"}
  BY DEF RunFirst, RunSecond, Rollout
<1>2. /\ current.key \in Missing /\ binding \in Binding
      /\ current \in [key : Keys \cup {NoValue}, saw : [Variants -> FixtureTexts \cup {NoValue}]]
      /\ \A t \in Tasks \ disturbed : fixture[t] = binding.fixtures[t]
      /\ fixture \in [Tasks -> FixtureTexts] /\ dirs \subseteq Variants \X Keys
  BY <1>1 DEF ReplayInv, ReplayTypeOK, MakingHolds, RunningHolds
<1>3. current.key \in Keys /\ current.key[1] \in Tasks
  BY <1>2, PlannedKeys DEF Missing, Keys
<1>4. RunningHolds' /\ SavedHolds' /\ Missing' = Missing
  <2>1. Missing' = Missing
    BY <1>1 DEF Missing
  <2>2. rpc # "idle"
    BY <1>1
  <2> QED BY <1>1, <2>1, <2>2 DEF ReplayInv, RunningHolds, SavedHolds
<1>5. CASE rpc' = "refused" /\ UNCHANGED <<current, dirs>>
  <2>1. ReplayTypeOK'
    BY <1>1, <1>5 DEF ReplayInv, ReplayTypeOK
  <2>2. MakingHolds'
    BY <1>2, <1>5 DEF MakingHolds
  <2> QED BY <1>4, <2>1, <2>2 DEF ReplayInv
<1>6. ASSUME NEW v \in Variants, dirs' = dirs \cup {<<v, current.key>>},
             current' = [current EXCEPT !.saw[v] = fixture[current.key[1]]],
             \/ rpc = "first" /\ v = FirstVariant /\ rpc' = "second"
             \/ rpc = "second" /\ v = SecondVariant /\ rpc' = "paired"
      PROVE  ReplayInv'
  <2>1. /\ current'.key = current.key
        /\ current' \in [key : Keys \cup {NoValue}, saw : [Variants -> FixtureTexts \cup {NoValue}]]
        /\ current'.saw[v] = fixture[current.key[1]] /\ current'.saw[v] \in FixtureTexts
        /\ \A w \in Variants \ {v} : current'.saw[w] = current.saw[w]
    BY <1>2, <1>3, <1>6
  <2>2. SawBound(current', v, binding, disturbed)
    BY <1>2, <1>3, <2>1 DEF SawBound
  <2>3. FirstVariant' = FirstVariant
    BY <2>1 DEF FirstVariant
  <2>4. ReplayTypeOK'
    <3>1. dirs' \subseteq Variants \X Keys
      BY <1>2, <1>3, <1>6
    <3> QED BY <1>1, <1>6, <3>1 DEF ReplayInv, ReplayTypeOK
  <2>5. CASE rpc = "first"
    <3>1. MakingHolds'
      BY <1>1, <1>2, <1>4, <1>6, <2>1, <2>2, <2>3, <2>5 DEF MakingHolds
    <3> QED BY <1>4, <2>4, <3>1 DEF ReplayInv
  <2>6. CASE rpc = "second"
    <3>1. v = SecondVariant /\ rpc' = "paired"
      BY <1>6, <2>6
    <3>2. current.saw[FirstVariant] \in FixtureTexts /\ SawBound(current, FirstVariant, binding, disturbed)
      BY <2>6 DEF ReplayInv, MakingHolds
    <3>3. /\ current'.saw[FirstVariant] = current.saw[FirstVariant]
          /\ SawBound(current', FirstVariant, binding, disturbed)
      BY <2>1, <3>1, <3>2, VariantsDiffer DEF SawBound
    <3>4. \A w \in Variants : current'.saw[w] \in FixtureTexts /\ SawBound(current', w, binding, disturbed)
      BY <2>1, <2>2, <3>1, <3>2, <3>3, VariantsDiffer
    <3>5. current'.saw \in [Variants -> FixtureTexts]
      BY <2>1, <3>4
    <3>6. MakingHolds'
      BY <1>1, <1>2, <1>4, <2>1, <3>1, <3>4, <3>5 DEF MakingHolds
    <3> QED BY <1>4, <2>4, <3>6 DEF ReplayInv
  <2> QED BY <1>1, <2>5, <2>6
<1> QED BY <1>5, <1>6, VariantsDiffer DEF RunFirst, RunSecond, Rollout

\* A finished pair is the only one of its key.
LEMMA RecordPairKeeps == ASSUME ReplayInv, RecordPair PROVE ReplayInv'
<1>1. /\ UNCHANGED <<binding, dirs, fixture, rspent, disturbed>>
      /\ rpc = "paired" /\ rpc' = "looping" /\ current' = NoPair
      /\ pairs' = Append(pairs, current)
      /\ replayed' = [binding |-> binding, pairs |-> pairs', complete |-> FALSE]
  BY DEF RecordPair
<1>2. /\ current.key \in Missing /\ binding \in Binding /\ pairs \in Seq(Pair)
      /\ Recorded(pairs, binding, disturbed)
      /\ current \in [key : Keys \cup {NoValue}, saw : [Variants -> FixtureTexts \cup {NoValue}]]
      /\ current.saw \in [Variants -> FixtureTexts]
      /\ \A v \in Variants : SawBound(current, v, binding, disturbed)
      /\ \A t \in Tasks \ disturbed : fixture[t] = binding.fixtures[t]
  BY <1>1 DEF ReplayInv, ReplayTypeOK, MakingHolds, RunningHolds
<1>3. current \in Pair /\ current.key \in Planned(binding) /\ current.key \notin KeysOf(pairs)
  <2>1. current.key \in Keys
    BY <1>2, PlannedKeys DEF Missing
  <2>2. current = [key |-> current.key, saw |-> current.saw]
    BY <1>2
  <2> QED BY <1>2, <2>1, <2>2 DEF Missing, Pair
<1>4. /\ pairs' \in Seq(Pair) /\ Len(pairs') = Len(pairs) + 1 /\ Len(pairs) \in Nat
      /\ pairs'[Len(pairs) + 1] = current
      /\ \A n \in 1..Len(pairs) : pairs'[n] = pairs[n]
  BY <1>1, <1>2, <1>3
<1>5. \A n \in 1..Len(pairs') : n \in 1..Len(pairs) \/ n = Len(pairs) + 1
  BY <1>4
<1>6. Recorded(pairs', binding, disturbed)
  <2>1. ASSUME NEW m \in 1..Len(pairs'), NEW n \in 1..Len(pairs'), pairs'[m].key = pairs'[n].key
        PROVE  m = n
    <3>1. \A k \in 1..Len(pairs) : pairs'[k].key # current.key
      BY <1>3, <1>4 DEF KeysOf
    <3>2. \A k, l \in 1..Len(pairs) : pairs[k].key = pairs[l].key => k = l
      BY <1>2 DEF Recorded
    <3>3. CASE m \in 1..Len(pairs) /\ n \in 1..Len(pairs)
      BY <1>4, <2>1, <3>2, <3>3
    <3>4. CASE m = Len(pairs) + 1 \/ n = Len(pairs) + 1
      BY <1>4, <1>5, <2>1, <3>1, <3>4
    <3> QED BY <1>5, <3>3, <3>4
  <2>2. KeysOf(pairs') \subseteq Planned(binding)
    <3>1. KeysOf(pairs) \subseteq Planned(binding)
      BY <1>2 DEF Recorded
    <3>2. \A n \in 1..Len(pairs) : pairs'[n].key \in Planned(binding)
      BY <1>4, <3>1 DEF KeysOf
    <3> QED BY <1>3, <1>4, <1>5, <3>2 DEF KeysOf
  <2>3. ASSUME NEW n \in 1..Len(pairs'), NEW v \in Variants
        PROVE  SawBound(pairs'[n], v, binding, disturbed)
    BY <1>2, <1>4, <1>5 DEF Recorded
  <2> QED BY <2>1, <2>2, <2>3 DEF Recorded
<1>7. ReplayTypeOK'
  <2>1. replayed' \in Manifest
    BY <1>1, <1>2, <1>4 DEF Manifest
  <2> QED BY <1>1, <1>4, <2>1 DEF ReplayInv, ReplayTypeOK
<1>8. MakingHolds'
  BY <1>1 DEF MakingHolds, NoPair
<1>9. RunningHolds'
  BY <1>1, <1>2, <1>6 DEF RunningHolds
<1>10. SavedHolds'
  <2>1. replayed'.pairs = pairs' /\ replayed'.binding = binding /\ ~replayed'.complete
    BY <1>1
  <2> QED BY <1>1, <1>6, <2>1 DEF SavedHolds
<1> QED BY <1>7, <1>8, <1>9, <1>10 DEF ReplayInv

LEMMA CompleteKeeps == ASSUME ReplayInv, Complete PROVE ReplayInv'
<1>1. /\ UNCHANGED <<binding, pairs, current, dirs, fixture, rspent, disturbed>>
      /\ rpc = "looping" /\ rpc' = "idle" /\ Missing = {}
      /\ replayed' = [binding |-> binding, pairs |-> pairs, complete |-> TRUE]
  BY DEF Complete
<1>2. binding \in Binding /\ pairs \in Seq(Pair) /\ Recorded(pairs, binding, disturbed)
  BY <1>1 DEF ReplayInv, ReplayTypeOK, RunningHolds
<1>3. KeysOf(pairs) = Planned(binding)
  BY <1>1, <1>2 DEF Missing, Recorded
<1>4. ReplayTypeOK'
  <2>1. replayed' \in Manifest
    BY <1>1, <1>2 DEF Manifest
  <2> QED BY <1>1, <2>1 DEF ReplayInv, ReplayTypeOK
<1>5. MakingHolds' /\ RunningHolds'
  BY <1>1 DEF ReplayInv, MakingHolds, RunningHolds
<1>6. SavedHolds'
  <2>1. replayed'.pairs = pairs /\ replayed'.binding = binding
    BY <1>1
  <2> QED BY <1>1, <1>2, <1>3, <2>1 DEF SavedHolds
<1> QED BY <1>4, <1>5, <1>6 DEF ReplayInv

LEMMA InterruptKeeps == ASSUME ReplayInv, Interrupt PROVE ReplayInv'
<1>1. /\ UNCHANGED <<binding, replayed, dirs, fixture, disturbed>>
      /\ rpc' = "idle" /\ pairs' = <<>> /\ current' = NoPair
      /\ rspent' = [rspent EXCEPT !.crashes = @ + 1] /\ rspent.crashes < MaxCrashes
  BY DEF Interrupt
<1>2. ReplayTypeOK'
  <2>1. rspent' \in [crashes : 0..MaxCrashes, edits : 0..MaxFixtureEdits]
    BY <1>1, ReplayAssumption DEF ReplayInv, ReplayTypeOK
  <2> QED BY <1>1, <2>1 DEF ReplayInv, ReplayTypeOK
<1>3. MakingHolds' /\ RunningHolds'
  BY <1>1 DEF MakingHolds, RunningHolds, NoPair
<1>4. SavedHolds'
  BY <1>1 DEF ReplayInv, SavedHolds
<1> QED BY <1>2, <1>3, <1>4 DEF ReplayInv

\* An edit during a replay is remembered; one between two leaves nothing running.
LEMMA EditFixtureKeeps ==
  ASSUME ReplayInv, NEW t \in Tasks, NEW f \in FixtureTexts, EditFixture(t, f)
  PROVE  ReplayInv'
<1>1. /\ UNCHANGED <<rpc, binding, pairs, current, replayed, dirs>>
      /\ rspent' = [rspent EXCEPT !.edits = @ + 1] /\ rspent.edits < MaxFixtureEdits
      /\ fixture' = [fixture EXCEPT ![t] = f]
      /\ disturbed' = IF rpc = "idle" THEN disturbed ELSE disturbed \cup {t}
  BY DEF EditFixture
<1>2. disturbed \subseteq disturbed' /\ disturbed' \subseteq Tasks
  BY <1>1 DEF ReplayInv, ReplayTypeOK
<1>3. \A p, v, b : SawBound(p, v, b, disturbed) => SawBound(p, v, b, disturbed')
  BY <1>2 DEF SawBound
<1>4. \A ps, b : Recorded(ps, b, disturbed) => Recorded(ps, b, disturbed')
  BY <1>3 DEF Recorded
<1>5. ReplayTypeOK'
  <2>1. rspent' \in [crashes : 0..MaxCrashes, edits : 0..MaxFixtureEdits]
    BY <1>1, ReplayAssumption DEF ReplayInv, ReplayTypeOK
  <2>2. fixture' \in [Tasks -> FixtureTexts]
    BY <1>1 DEF ReplayInv, ReplayTypeOK
  <2> QED BY <1>1, <1>2, <2>1, <2>2 DEF ReplayInv, ReplayTypeOK
<1>6. MakingHolds'
  <2>1. Missing' = Missing /\ FirstVariant' = FirstVariant
    BY <1>1 DEF Missing, FirstVariant
  <2> QED BY <1>1, <1>3, <2>1 DEF ReplayInv, MakingHolds
<1>7. RunningHolds'
  <2> SUFFICES ASSUME rpc # "idle"
               PROVE  /\ binding \in Binding /\ Recorded(pairs, binding, disturbed')
                      /\ \A u \in Tasks \ disturbed' : fixture'[u] = binding.fixtures[u]
    BY <1>1 DEF RunningHolds
  <2>1. \A u \in Tasks \ disturbed' : u # t /\ u \in Tasks \ disturbed
    BY <1>1
  <2>2. \A u \in Tasks \ {t} : fixture'[u] = fixture[u]
    BY <1>1 DEF ReplayInv, ReplayTypeOK
  <2> QED BY <1>4, <2>1, <2>2 DEF ReplayInv, RunningHolds
<1>8. SavedHolds'
  BY <1>1, <1>4 DEF ReplayInv, SavedHolds
<1> QED BY <1>5, <1>6, <1>7, <1>8 DEF ReplayInv

LEMMA ReplayKeeps == ReplayInv /\ [ReplayNext]_replayVars => ReplayInv'
<1> SUFFICES ASSUME ReplayInv, [ReplayNext]_replayVars PROVE ReplayInv'
  OBVIOUS
<1>1. CASE \E r \in 1..MaxRollouts : Start(r)
  BY <1>1, StartKeeps
<1>2. CASE Loop
  BY <1>2, BeginPairKeeps, RolloutKeeps, RecordPairKeeps, CompleteKeeps DEF Loop
<1>3. CASE Interrupt
  BY <1>3, InterruptKeeps
<1>4. CASE \E t \in Tasks, f \in FixtureTexts : EditFixture(t, f)
  BY <1>4, EditFixtureKeeps
<1>5. CASE UNCHANGED replayVars
  <2>1. ReplayTypeOK' /\ RunningHolds' /\ SavedHolds'
    BY <1>5 DEF replayVars, ReplayInv, ReplayTypeOK, RunningHolds, SavedHolds
  <2>2. Missing' = Missing /\ FirstVariant' = FirstVariant
    BY <1>5 DEF replayVars, Missing, FirstVariant
  <2>3. MakingHolds'
    BY <1>5, <2>2 DEF replayVars, ReplayInv, MakingHolds
  <2> QED BY <2>1, <2>3 DEF ReplayInv
<1> QED BY <1>1, <1>2, <1>3, <1>4, <1>5 DEF ReplayNext

\* As many pairs as keys.
LEMMA PairsAreKeys ==
  ASSUME NEW ps \in Seq(Pair), \A m, n \in 1..Len(ps) : ps[m].key = ps[n].key => m = n
  PROVE  Cardinality(KeysOf(ps)) = Len(ps)
<1> DEFINE key == [n \in 1..Len(ps) |-> ps[n].key]
<1>1. key \in Bijection(1..Len(ps), KeysOf(ps))
  <2>0. \A n \in 1..Len(ps) : key[n] = ps[n].key
    OBVIOUS
  <2>1. key \in [1..Len(ps) -> KeysOf(ps)]
    <3>1. \A n \in 1..Len(ps) : ps[n].key \in KeysOf(ps)
      BY Zenon DEF KeysOf
    <3> QED BY <3>1
  <2>2. \A k \in KeysOf(ps) : \E n \in 1..Len(ps) : key[n] = k
    BY <2>0, Zenon DEF KeysOf
  <2>3. \A m, n \in 1..Len(ps) : key[m] = key[n] => m = n
    OBVIOUS
  <2>4. DOMAIN key = 1..Len(ps)
    OBVIOUS
  <2> HIDE DEF key
  <2> QED BY <2>1, <2>2, <2>3, <2>4 DEF Bijection, Injection, Surjection, IsInjective
<1>2. IsFiniteSet(1..Len(ps)) /\ Cardinality(1..Len(ps)) = Len(ps)
  <2>1. Len(ps) \in Nat
    OBVIOUS
  <2>2. /\ IsFiniteSet(1..Len(ps))
        /\ Cardinality(1..Len(ps)) = IF 1 > Len(ps) THEN 0 ELSE Len(ps) - 1 + 1
    BY <2>1, FS_Interval
  <2> QED BY <2>1, <2>2
<1> QED BY <1>1, <1>2, FS_Bijection DEF ExistsBijection

\* However often a replay dies and is resumed: a complete one has every planned pair
\* once, measured on the fixtures of its binding.
THEOREM ReplayIsAlwaysExact == ReplaySpec => []ReplayIsExact
<1>1. ReplayInv => ReplayIsExact
  <2> SUFFICES ASSUME ReplayInv PROVE ReplayIsExact
    OBVIOUS
  <2>1. ASSUME replayed # NoValue, replayed.complete
        PROVE  /\ KeysOf(replayed.pairs) = Planned(replayed.binding)
               /\ Len(replayed.pairs) = Cardinality(Planned(replayed.binding))
    <3>1. KeysOf(replayed.pairs) = Planned(replayed.binding) /\ replayed.pairs \in Seq(Pair)
      BY <2>1 DEF ReplayInv, ReplayTypeOK, Manifest, SavedHolds
    <3>2. \A m, n \in 1..Len(replayed.pairs) :
             replayed.pairs[m].key = replayed.pairs[n].key => m = n
      BY <2>1 DEF ReplayInv, SavedHolds, Recorded
    <3> QED BY <3>1, <3>2, PairsAreKeys
  <2>2. PairsMatchBinding
    BY DEF PairsMatchBinding, ReplayInv, SavedHolds, Recorded, SawBound
  <2> QED BY <2>1, <2>2 DEF ReplayIsExact, CompleteIsExact, ReplayInv
<1> QED BY <1>1, ReplayStarts, ReplayKeeps, PTL DEF ReplaySpec

---------------------------------------------------------------------------
(* Policies.                                                                *)

\* The policy after the first n operations.
Applied(s, q, op) == IF q = NotThere THEN NotThere ELSE IF Patchable(s, q, op) THEN Patch(q, op) ELSE NotThere

\* Applying up to three operations is applying one after the other.
LEMMA PatchedIsSteps ==
  ASSUME NEW s, NEW p, NEW ops, Len(ops) \in 1..3
  PROVE  \E sofar :
            /\ sofar[0] = p
            /\ \A n \in 1..Len(ops) : sofar[n] = Applied(s, sofar[n - 1], ops[n])
            /\ Patched(s, p, ops) = sofar[Len(ops)]
<1> DEFINE x1 == Applied(s, p, ops[1])
           x2 == Applied(s, x1, ops[2])
           x3 == Applied(s, x2, ops[3])
           F(g) == [n \in 0..Len(ops) |->
                      IF n = 0 THEN p
                      ELSE IF g[n - 1] = NotThere THEN NotThere
                           ELSE IF Patchable(s, g[n - 1], ops[n]) THEN Patch(g[n - 1], ops[n]) ELSE NotThere]
           f == [n \in 0..Len(ops) |-> IF n = 0 THEN p ELSE IF n = 1 THEN x1 ELSE IF n = 2 THEN x2 ELSE x3]
           sofar == CHOOSE g : g = F(g)
<1>0. PICK l \in {1, 2, 3} : Len(ops) = l
  OBVIOUS
<1>1. Patched(s, p, ops) = sofar[Len(ops)]
  BY DEF Patched
<1>2. f = F(f)
  <2> HIDE DEF x1, x2, x3
  <2>2. \A n \in 1..l : f[n] = Applied(s, f[n - 1], ops[n])
    <3>1. f[0] = p /\ f[1] = x1 /\ (l > 1 => f[2] = x2) /\ (l > 2 => f[3] = x3)
      BY <1>0
    <3> HIDE DEF f
    <3>2. f[1] = Applied(s, f[0], ops[1])
      BY <3>1 DEF x1
    <3>3. l > 1 => f[2] = Applied(s, f[1], ops[2])
      BY <3>1 DEF x2
    <3>4. l > 2 => f[3] = Applied(s, f[2], ops[3])
      BY <3>1 DEF x3
    <3>5. \A n \in 1..l : n = 1 \/ (n = 2 /\ l > 1) \/ (n = 3 /\ l > 2)
      OBVIOUS
    <3> QED BY <3>2, <3>3, <3>4, <3>5
  <2>3. f[0] = p /\ DOMAIN f = 0..l /\ f = [n \in 0..l |-> f[n]]
    BY <1>0
  <2> HIDE DEF f
  <2>4. \A n \in 0..l : f[n] = F(f)[n]
    <3>1. ASSUME NEW n \in 0..l, n = 0 PROVE f[n] = F(f)[n]
      BY <1>0, <2>3, <3>1
    <3>2. ASSUME NEW n \in 0..l, n # 0 PROVE f[n] = F(f)[n]
      <4>1. n \in 1..l
        BY <3>2
      <4>2. f[n] = Applied(s, f[n - 1], ops[n])
        BY <2>2, <4>1
      <4> QED BY <1>0, <3>2, <4>2 DEF Applied
    <3> QED BY <3>1, <3>2
  <2>5. F(f) = [n \in 0..l |-> F(f)[n]]
    BY <1>0
  <2> HIDE DEF F
  <2> QED BY <2>3, <2>4, <2>5
<1>3. sofar = F(sofar)
  <2> HIDE DEF F, f
  <2> QED BY <1>2
<1> HIDE DEF sofar
<1>4. sofar[0] = p
  BY <1>0, <1>3
<1>5. ASSUME NEW n \in 1..Len(ops) PROVE sofar[n] = Applied(s, sofar[n - 1], ops[n])
  <2>1. n \in 0..Len(ops) /\ n # 0
    BY <1>0
  <2>2. F(sofar)[n] = Applied(s, sofar[n - 1], ops[n])
    BY <2>1 DEF Applied
  <2> HIDE DEF F
  <2> QED BY <1>3, <2>2
<1> QED BY <1>1, <1>4, <1>5

\* No operation takes a requirement away.
Remains(type, p, q) ==
    type = "trace-validator" => DOMAIN p.requirements \subseteq DOMAIN q.requirements

\* An operation leaves a formed policy formed.
LEMMA PatchIsFormed ==
  ASSUME NEW s, s.type \in PolicyTypes, NEW q, FormedPolicy(s.type, q),
         NEW op, FormedOp(s.type, op), Patchable(s, q, op)
  PROVE  FormedPolicy(s.type, Patch(q, op)) /\ Remains(s.type, q, Patch(q, op))
<1> DEFINE r == Patch(q, op)
<1>1. /\ op.path[1] \in DOMAIN r
      /\ \A f \in DOMAIN q : f \in DOMAIN r
      /\ \A f \in DOMAIN q : f # op.path[1] => r[f] = q[f]
  BY DEF Patch, Patchable, With
<1>2. Len(op.path) > 1 => r[op.path[1]] = With(q[op.path[1]], op.path[2], op.value)
  BY DEF Patch, Patchable
<1>3. ~(Len(op.path) > 1) => r[op.path[1]] = op.value
  BY DEF Patch, With
<1> HIDE DEF r
<1>4. ASSUME s.type = "audit-profile" PROVE FormedPolicy(s.type, r) /\ Remains(s.type, q, r)
  <2>0. "rules" \in DOMAIN q /\ \A k \in DOMAIN q.rules : Severity(q.rules[k]) \in 0..2
    BY <1>4 DEF FormedPolicy
  <2>1. CASE op.path[1] # "rules"
    BY <1>1, <1>4, <2>0, <2>1 DEF FormedPolicy, Remains
  <2>2. CASE op.path[1] = "rules"
    <3>1. Len(op.path) > 1 /\ Severity(op.value) \in 0..2
      BY <1>4, <2>2 DEF Patchable, Writable, FormedOp
    <3>2. r["rules"] = With(q["rules"], op.path[2], op.value)
      BY <1>2, <2>2, <3>1
    <3>3. \A k \in DOMAIN r["rules"] : r["rules"][k] = op.value \/ (k \in DOMAIN q["rules"] /\ r["rules"][k] = q["rules"][k])
      BY <3>2 DEF With
    <3> QED BY <1>1, <1>4, <2>0, <2>2, <3>1, <3>3 DEF FormedPolicy, Remains
  <2> QED BY <2>1, <2>2
<1>5. ASSUME s.type = "review-policy" PROVE FormedPolicy(s.type, r) /\ Remains(s.type, q, r)
  <2>0. "changed_path_budget" \in DOMAIN q /\ q.changed_path_budget \in Nat
    BY <1>5 DEF FormedPolicy
  <2>1. CASE op.path[1] # "changed_path_budget"
    BY <1>1, <1>5, <2>0, <2>1 DEF FormedPolicy, Remains
  <2>2. CASE op.path[1] = "changed_path_budget"
    <3>1. op.path = <<"changed_path_budget">>
      BY <1>5, <2>2 DEF Patchable, Writable
    <3>2. op.value \in Nat /\ ~(Len(op.path) > 1)
      BY <1>5, <3>1 DEF FormedOp
    <3> QED BY <1>1, <1>3, <1>5, <2>2, <3>2 DEF FormedPolicy, Remains
  <2> QED BY <2>1, <2>2
<1>6. ASSUME s.type = "trace-validator" PROVE FormedPolicy(s.type, r) /\ Remains(s.type, q, r)
  <2>0. "requirements" \in DOMAIN q /\ \A k \in DOMAIN q.requirements \cap Limits : q.requirements[k] \in Nat
    BY <1>6 DEF FormedPolicy
  <2>1. Len(op.path) > 1 /\ op.path[1] = "requirements"
    BY <1>6 DEF Patchable, Writable
  <2>2. op.path[2] \in Limits => op.value \in Nat
    BY <1>6, <2>1 DEF FormedOp
  <2>3. r["requirements"] = With(q["requirements"], op.path[2], op.value)
    BY <1>2, <2>1
  <2>4. /\ DOMAIN q["requirements"] \subseteq DOMAIN r["requirements"]
        /\ \A k \in DOMAIN r["requirements"] :
             \/ k = op.path[2] /\ r["requirements"][k] = op.value
             \/ k \in DOMAIN q["requirements"] /\ r["requirements"][k] = q["requirements"][k]
    BY <2>3 DEF With
  <2>5. FormedPolicy(s.type, r)
    BY <1>1, <1>6, <2>0, <2>1, <2>2, <2>4 DEF FormedPolicy
  <2> QED BY <2>4, <2>5 DEF Remains
<1>7. ASSUME s.type = "triage-policy" PROVE FormedPolicy(s.type, r) /\ Remains(s.type, q, r)
  BY <1>7 DEF FormedPolicy, Remains
<1>8. FormedPolicy(s.type, r) /\ Remains(s.type, q, r)
  BY <1>4, <1>5, <1>6, <1>7 DEF PolicyTypes
<1> QED BY <1>8 DEF r

\* And so do up to three of them.
LEMMA PatchedIsFormed ==
  ASSUME NEW s, s.type \in PolicyTypes, NEW p, FormedPolicy(s.type, p), p # NotThere,
         NEW ops, Len(ops) \in 1..3, \A n \in 1..Len(ops) : FormedOp(s.type, ops[n]),
         Patched(s, p, ops) # NotThere
  PROVE  FormedPolicy(s.type, Patched(s, p, ops)) /\ Remains(s.type, p, Patched(s, p, ops))
<1> DEFINE OK(q) == q # NotThere => FormedPolicy(s.type, q) /\ Remains(s.type, p, q)
<1>1. PICK sofar : /\ sofar[0] = p
                  /\ \A n \in 1..Len(ops) : sofar[n] = Applied(s, sofar[n - 1], ops[n])
                  /\ Patched(s, p, ops) = sofar[Len(ops)]
  BY PatchedIsSteps
<1>2. ASSUME NEW q, OK(q), NEW n \in 1..Len(ops) PROVE OK(Applied(s, q, ops[n]))
  <2>1. CASE q = NotThere \/ ~Patchable(s, q, ops[n])
    BY <2>1 DEF Applied
  <2>2. CASE q # NotThere /\ Patchable(s, q, ops[n])
    <3>1. FormedPolicy(s.type, q) /\ Remains(s.type, p, q) /\ FormedOp(s.type, ops[n])
      BY <1>2, <2>2
    <3>2. FormedPolicy(s.type, Patch(q, ops[n])) /\ Remains(s.type, q, Patch(q, ops[n]))
      BY <2>2, <3>1, PatchIsFormed
    <3>3. Remains(s.type, p, Patch(q, ops[n]))
      BY <3>1, <3>2 DEF Remains
    <3> QED BY <2>2, <3>2, <3>3 DEF Applied
  <2> QED BY <2>1, <2>2
<1>3. OK(sofar[0])
  BY <1>1 DEF Remains
<1> HIDE DEF OK
<1>4. OK(sofar[1])
  <2>1. sofar[1] = Applied(s, sofar[0], ops[1])
    BY <1>1
  <2> QED BY <1>2, <1>3, <2>1
<1>5. Len(ops) > 1 => OK(sofar[2])
  <2> SUFFICES ASSUME Len(ops) > 1 PROVE OK(sofar[2])
    OBVIOUS
  <2>1. sofar[2] = Applied(s, sofar[1], ops[2])
    BY <1>1
  <2> QED BY <1>2, <1>4, <2>1
<1>6. Len(ops) > 2 => OK(sofar[3])
  <2> SUFFICES ASSUME Len(ops) > 2 PROVE OK(sofar[3])
    OBVIOUS
  <2>1. sofar[3] = Applied(s, sofar[2], ops[3])
    BY <1>1
  <2> QED BY <1>2, <1>5, <2>1
<1>7. OK(Patched(s, p, ops))
  <2>1. PICK l \in {1, 2, 3} : Len(ops) = l
    OBVIOUS
  <2> QED BY <1>1, <1>4, <1>5, <1>6, <2>1
<1> QED BY <1>7 DEF OK

\* A policy and what it may become.
Succeeds(s, b, a) ==
    /\ s.type \in PolicyTypes
    /\ FormedPolicy(s.type, b) /\ FormedPolicy(s.type, a) /\ Remains(s.type, b, a)
    /\ MayBecome(s, b, a)

LEMMA ReviewsTighten ==
  ASSUME NEW s, NEW b, NEW a, Succeeds(s, b, a), s.type = "review-policy",
         NEW in, FormedInput(s.type, in), Lets(s, a, in)
  PROVE  Lets(s, b, in)
<1>1. ReviewKeeps(b, a) /\ b.changed_path_budget \in Nat /\ a.changed_path_budget \in Nat
  BY DEF Succeeds, MayBecome, FormedPolicy
<1>2. Cardinality(in.changed) \in Nat
  BY FS_CardinalityType DEF FormedInput
<1>3. MissingProofs(s, a, in.changed, in.proofs) = {} /\ Cardinality(in.changed) <= a.changed_path_budget
  BY DEF Lets, Compliant
<1>4. /\ a.changed_path_budget <= b.changed_path_budget
      /\ \A c \in DOMAIN b.path_classes : b.path_classes[c] \subseteq Get(a.path_classes, c, {})
      /\ \A c \in DOMAIN b.proof_requirements :
           b.proof_requirements[c] \subseteq Get(a.proof_requirements, c, {})
  BY <1>1 DEF ReviewKeeps
<1>5. ASSUME NEW x \in Required(s, b, in.changed) PROVE x \in Required(s, a, in.changed)
  <2>1. PICK c \in DOMAIN b.path_classes :
           Covered(s, in.changed, b.path_classes[c]) /\ x \in Get(b.proof_requirements, c, {})
    BY <1>5 DEF Required
  <2>2. c \in DOMAIN a.path_classes /\ Covered(s, in.changed, a.path_classes[c])
    BY <1>4, <2>1 DEF Covered, Get
  <2>3. x \in Get(a.proof_requirements, c, {})
    BY <1>4, <2>1 DEF Get
  <2> QED BY <2>2, <2>3 DEF Required
<1>6. MissingProofs(s, b, in.changed, in.proofs) = {}
  BY <1>3, <1>5 DEF MissingProofs
<1>7. Cardinality(in.changed) <= b.changed_path_budget
  BY <1>1, <1>2, <1>3, <1>4
<1> QED BY <1>6, <1>7 DEF Lets, Compliant

\* A limit of the later policy is the earlier one's or a tighter one.
LEMMA LimitsTighten ==
  ASSUME NEW s, NEW b, NEW a, Succeeds(s, b, a), s.type = "trace-validator",
         NEW d \in Nat, NEW v \in Nat
  PROVE  /\ \A k \in UpperBounds :
              v <= Get(a.requirements, k, v) => v <= Get(b.requirements, k, v)
         /\ \A k \in LowerBounds :
              v >= Get(a.requirements, k, 0) => v >= Get(b.requirements, k, 0)
<1>1. /\ TraceKeeps(b, a)
      /\ \A k \in DOMAIN b.requirements \cap Limits : b.requirements[k] \in Nat
      /\ \A k \in DOMAIN a.requirements \cap Limits : a.requirements[k] \in Nat
      /\ DOMAIN b.requirements \subseteq DOMAIN a.requirements
  BY DEF Succeeds, MayBecome, FormedPolicy, Remains
<1>2. ASSUME NEW k \in UpperBounds, v <= Get(a.requirements, k, v)
      PROVE  v <= Get(b.requirements, k, v)
  <2>1. CASE k \in DOMAIN b.requirements
    <3>1. a.requirements[k] <= b.requirements[k] /\ a.requirements[k] \in Nat /\ b.requirements[k] \in Nat
      BY <1>1, <2>1 DEF TraceKeeps, Get, Limits
    <3> QED BY <1>1, <1>2, <2>1, <3>1 DEF Get
  <2>2. CASE k \notin DOMAIN b.requirements
    BY <2>2 DEF Get
  <2> QED BY <2>1, <2>2
<1>3. ASSUME NEW k \in LowerBounds, v >= Get(a.requirements, k, 0)
      PROVE  v >= Get(b.requirements, k, 0)
  <2>1. CASE k \in DOMAIN b.requirements
    <3>1. a.requirements[k] >= b.requirements[k] /\ a.requirements[k] \in Nat /\ b.requirements[k] \in Nat
      BY <1>1, <2>1 DEF TraceKeeps, Get, Limits
    <3> QED BY <1>1, <1>3, <2>1, <3>1 DEF Get
  <2>2. CASE k \notin DOMAIN b.requirements
    BY <2>2 DEF Get
  <2> QED BY <2>1, <2>2
<1> QED BY <1>2, <1>3

LEMMA TracesTighten ==
  ASSUME NEW s, NEW b, NEW a, Succeeds(s, b, a), s.type = "trace-validator", b.validator # "json",
         NEW in, FormedInput(s.type, in), Lets(s, a, in)
  PROVE  Lets(s, b, in)
<1>1. a.validator = b.validator /\ b.validator \in {"junit", "sarif", "coverage"}
  BY DEF Succeeds, MayBecome, TraceKeeps
<1>2. in.tests \in Nat /\ in.failures \in Nat /\ in.errors \in Nat /\ in.skipped \in Nat /\ in.percent \in Nat
  BY DEF FormedInput
<1>3. ~Broken(a, in) /\ ~Exceeds(a, in)
  BY DEF Lets, TraceStatus
<1>4. ~Broken(b, in)
  BY <1>1, <1>3 DEF Broken
<1> DEFINE Up(p, k, v) == v <= Get(p.requirements, k, v)
           Low(p, k, v) == v >= Get(p.requirements, k, 0)
<1>5. ASSUME NEW v \in Nat
      PROVE  /\ \A k \in UpperBounds : Up(a, k, v) => Up(b, k, v)
             /\ \A k \in LowerBounds : Low(a, k, v) => Low(b, k, v)
  BY LimitsTighten
<1>6. ASSUME NEW p, FormedPolicy(s.type, p), p.validator \in {"junit", "sarif", "coverage"}
      PROVE  ~Exceeds(p, in) <=>
               CASE p.validator = "junit" -> /\ Up(p, "failures_max", in.failures)
                                             /\ Up(p, "errors_max", in.errors)
                                             /\ Up(p, "skipped_max", in.skipped)
                                             /\ Low(p, "tests_min", in.tests)
                 [] p.validator = "sarif"    -> Up(p, "errors_max", in.errors)
                 [] p.validator = "coverage" -> Low(p, "percent_covered_min", in.percent)
  <2>1. \A k \in {"failures_max", "errors_max", "skipped_max"}, v \in Nat : Get(p.requirements, k, v) \in Nat
    BY <1>6 DEF FormedPolicy, Get, Limits, UpperBounds
  <2>2. \A k \in {"tests_min", "percent_covered_min"} : Get(p.requirements, k, 0) \in Nat
    BY <1>6 DEF FormedPolicy, Get, Limits, LowerBounds
  <2>3. \A v \in Nat, k \in {"failures_max", "errors_max", "skipped_max"} :
           Up(p, k, v) <=> ~(v > Get(p.requirements, k, v))
    BY <2>1
  <2>4. \A v \in Nat, k \in {"tests_min", "percent_covered_min"} :
           Low(p, k, v) <=> ~(v < Get(p.requirements, k, 0))
    BY <2>2
  <2> HIDE DEF Up, Low
  <2> QED BY <1>2, <1>6, <2>3, <2>4 DEF Exceeds
<1>7. FormedPolicy(s.type, a) /\ FormedPolicy(s.type, b)
  BY DEF Succeeds
<1> HIDE DEF Up, Low
<1>8. ~Exceeds(b, in)
  <2>1. CASE b.validator = "junit"
    BY <1>1, <1>2, <1>3, <1>5, <1>6, <1>7, <2>1 DEF UpperBounds, LowerBounds
  <2>2. CASE b.validator = "sarif"
    BY <1>1, <1>2, <1>3, <1>5, <1>6, <1>7, <2>2 DEF UpperBounds, LowerBounds
  <2>3. CASE b.validator = "coverage"
    BY <1>1, <1>2, <1>3, <1>5, <1>6, <1>7, <2>3 DEF UpperBounds, LowerBounds
  <2> QED BY <1>1, <2>1, <2>2, <2>3
<1> QED BY <1>4, <1>8 DEF Lets, TraceStatus

LEMMA ProfilesTighten ==
  ASSUME NEW s, NEW b, NEW a, Succeeds(s, b, a), s.type = "audit-profile",
         NEW in, FormedInput(s.type, in)
  PROVE  /\ LeftOut(s, a, in) => LeftOut(s, b, in)
         /\ (/\ Applies(s, b, in) /\ Applies(s, a, in) /\ ~LeftOut(s, b, in)
             /\ ~Covered(s, {in.path}, b.path_policy.sensitive))
            => Shown(s, a, in) >= Shown(s, b, in)
<1>1. /\ ProfileKeeps(b, a) /\ in.severity \in 0..2
      /\ \A r \in DOMAIN b.rules : Severity(b.rules[r]) \in 0..2
      /\ \A r \in DOMAIN a.rules : Severity(a.rules[r]) \in 0..2
  BY DEF Succeeds, MayBecome, FormedPolicy, FormedInput
<1>2. LeftOut(s, a, in) => LeftOut(s, b, in)
  BY <1>1 DEF ProfileKeeps, LeftOut, Covered
<1>3. ASSUME Applies(s, a, in), ~LeftOut(s, b, in),
             ~Covered(s, {in.path}, b.path_policy.sensitive)
      PROVE  Shown(s, a, in) >= Shown(s, b, in)
  <2>1. Shown(s, b, in) = Get(Setting(b, in), "severity", in.severity)
    BY <1>3 DEF Shown
  <2>2. Shown(s, a, in) >= in.severity
    BY <1>2, <1>3 DEF Applies
  <2>3. CASE "severity" \notin DOMAIN Setting(b, in)
    BY <2>1, <2>2, <2>3 DEF Get
  <2>4. CASE "severity" \in DOMAIN Setting(b, in) /\ in.rule \in DOMAIN b.rules
    <3>1. Setting(b, in) = b.rules[in.rule] /\ in.rule \in DOMAIN a.rules /\ Setting(a, in) = a.rules[in.rule]
      BY <1>1, <2>4 DEF Setting, Get, ProfileKeeps
    <3>2. Severity(a.rules[in.rule]) >= Severity(b.rules[in.rule])
      BY <1>1, <2>4 DEF ProfileKeeps
    <3>3. Shown(s, b, in) = Severity(b.rules[in.rule]) /\ Shown(s, b, in) \in 0..2
      BY <1>1, <2>1, <2>4, <3>1 DEF Get, Severity
    <3>4. Shown(s, a, in) = 2 \/ Shown(s, a, in) = Get(a.rules[in.rule], "severity", in.severity)
      BY <3>1 DEF Shown
    <3>5. Get(a.rules[in.rule], "severity", in.severity) \in 0..2
      BY <1>1, <3>1 DEF Get, Severity
    <3>6. Severity(a.rules[in.rule]) <= Get(a.rules[in.rule], "severity", in.severity)
      BY <1>1, <3>1, <3>5 DEF Get, Severity
    <3>7. Severity(a.rules[in.rule]) \in 0..2 /\ Severity(b.rules[in.rule]) \in 0..2
      BY <1>1, <2>4, <3>1
    <3> QED BY <3>2, <3>3, <3>4, <3>5, <3>6, <3>7
  <2>5. CASE "severity" \in DOMAIN Setting(b, in) /\ in.rule \notin DOMAIN b.rules
    <3>1. DOMAIN Setting(b, in) = 1..0
      BY <2>5 DEF Setting, Get
    <3> QED BY <2>5, <3>1
  <2> QED BY <2>3, <2>4, <2>5
<1> QED BY <1>2, <1>3

\* Candidates, wherever they are, name operations and hold a policy; gates that passed
\* measured what they bind.
CandidateHolds(s, c) ==
    /\ c = [base |-> c.base, ops |-> c.ops, artifact |-> c.artifact]
    /\ c.ops \in DOMAIN s.proposals /\ c.artifact # NotThere
GateHolds(s, g) == g.pass => Acceptable(s, g.base, g.artifact)
TrailHolds(s, b, a) ==
    /\ Succeeds(s, b, a) /\ Acceptable(s, b, a)
    /\ \E i \in DOMAIN s.proposals : Patched(s, b, s.proposals[i]) = a
PolicyInv ==
    /\ setup \in Setups
    /\ policy # NotThere /\ FormedPolicy(setup.type, policy)
    /\ candidate # NotThere => CandidateHolds(setup, candidate)
    /\ gate # NotThere => GateHolds(setup, gate)
    /\ \A x \in stagedPolicies : CandidateHolds(setup, x.candidate) /\ GateHolds(setup, x.gate)
    /\ \A t \in trail : TrailHolds(setup, t[1], t[2])

LEMMA PolicyStarts == ASSUME PolicyAssumption, PolicyInit PROVE PolicyInv
<1>1. setup.policies[1] \in Range(setup.policies)
  BY DEF PolicyInit, PolicyAssumption, Range
<1> QED BY <1>1 DEF PolicyInit, PolicyAssumption, PolicyInv

LEMMA PolicyKeeps ==
  ASSUME PolicyAssumption, PolicyInv, [PolicyNext]_policyVars PROVE PolicyInv'
<1> PICK s \in Setups : s = setup
  BY DEF PolicyInv
<1>1. /\ s.type \in PolicyTypes
      /\ \A p \in Range(s.policies) : p # NotThere /\ FormedPolicy(s.type, p)
      /\ \A i \in DOMAIN s.proposals :
           \A n \in 1..Len(s.proposals[i]) : FormedOp(s.type, s.proposals[i][n])
  BY DEF PolicyAssumption
<1>2. /\ policy # NotThere /\ FormedPolicy(s.type, policy)
      /\ candidate # NotThere => CandidateHolds(s, candidate)
      /\ gate # NotThere => GateHolds(s, gate)
      /\ \A x \in stagedPolicies : CandidateHolds(s, x.candidate) /\ GateHolds(s, x.gate)
      /\ \A t \in trail : TrailHolds(s, t[1], t[2])
  BY DEF PolicyInv
<1>3. setup' = s
  BY DEF PolicyNext, policyVars, Propose, EditTarget, EditCandidate, StartGate, FinishGate, Stage, Adopt
<1> SUFFICES /\ policy' # NotThere /\ FormedPolicy(s.type, policy')
             /\ candidate' # NotThere => CandidateHolds(s, candidate')
             /\ gate' # NotThere => GateHolds(s, gate')
             /\ \A x \in stagedPolicies' : CandidateHolds(s, x.candidate) /\ GateHolds(s, x.gate)
             /\ \A t \in trail' : TrailHolds(s, t[1], t[2])
  BY <1>3 DEF PolicyInv
<1>4. ASSUME NEW i \in DOMAIN setup.proposals, Propose(i)
      PROVE  candidate' # NotThere => CandidateHolds(s, candidate')
  BY <1>4 DEF Propose, CandidateHolds
<1>5. ASSUME EditCandidate PROVE candidate' # NotThere => CandidateHolds(s, candidate')
  <2>1. CandidateHolds(s, candidate)
    BY <1>2, <1>5 DEF EditCandidate
  <2>2. CASE \E p \in Range(setup.policies) : candidate' = [candidate EXCEPT !.artifact = p]
    BY <1>1, <2>1, <2>2 DEF CandidateHolds
  <2>3. CASE candidate' = [candidate EXCEPT !.base = policy]
    BY <2>1, <2>3 DEF CandidateHolds
  <2> QED BY <1>5, <2>2, <2>3 DEF EditCandidate
<1>6. ASSUME FinishGate PROVE GateHolds(s, gate')
  <2>1. /\ gate'.pass = Acceptable(s, job.base, job.artifact)
        /\ gate'.base = job.base /\ gate'.artifact = job.artifact
    BY <1>6 DEF FinishGate
  <2> QED BY <2>1, Zenon DEF GateHolds
<1>7. ASSUME Adopt
      PROVE  /\ policy' # NotThere /\ FormedPolicy(s.type, policy')
             /\ \A t \in trail' : TrailHolds(s, t[1], t[2])
  <2>1. PICK c, g : /\ c # NotThere /\ Material(c) /\ Binds(g, c)
                    /\ CandidateHolds(s, c) /\ GateHolds(s, g)
                    /\ policy' = c.artifact /\ trail' = trail \cup {<<policy, c.artifact>>}
    <3>1. PICK c \in {candidate} \cup {x.candidate : x \in stagedPolicies},
               g \in {gate} \cup {x.gate : x \in stagedPolicies} :
            /\ c # NotThere /\ Material(c) /\ Binds(g, c)
            /\ policy' = c.artifact /\ trail' = trail \cup {<<policy, c.artifact>>}
      BY <1>7 DEF Adopt
    <3>2. CandidateHolds(s, c)
      BY <1>2, <3>1
    <3>3. g # NotThere => GateHolds(s, g)
      BY <1>2
    <3> QED BY <3>1, <3>2, <3>3 DEF Binds
  <2> DEFINE ops == s.proposals[c.ops]
  <2>2. /\ policy = c.base /\ MayBecome(s, policy, c.artifact)
        /\ Len(ops) \in 1..3 /\ Patched(s, policy, ops) = c.artifact
    BY <2>1 DEF Material, Ops
  <2>3. /\ c.ops \in DOMAIN s.proposals /\ c.artifact # NotThere
        /\ \A n \in 1..Len(ops) : FormedOp(s.type, ops[n])
    BY <1>1, <2>1 DEF CandidateHolds
  <2>4. FormedPolicy(s.type, c.artifact) /\ Remains(s.type, policy, c.artifact)
    <3> HIDE DEF ops
    <3> QED BY <1>1, <1>2, <2>2, <2>3, PatchedIsFormed
  <2>5. Acceptable(s, policy, c.artifact)
    BY <2>1, <2>2 DEF Binds, GateHolds
  <2>6. TrailHolds(s, policy, c.artifact)
    BY <1>1, <1>2, <2>2, <2>3, <2>4, <2>5 DEF TrailHolds, Succeeds
  <2> QED BY <1>2, <2>1, <2>3, <2>4, <2>6
<1>8. CASE \E i \in DOMAIN setup.proposals : Propose(i)
  BY <1>2, <1>4, <1>8 DEF Propose
<1>9. CASE EditTarget
  BY <1>1, <1>2, <1>9 DEF EditTarget
<1>10. CASE EditCandidate
  BY <1>2, <1>5, <1>10 DEF EditCandidate
<1>11. CASE StartGate
  BY <1>2, <1>11 DEF StartGate
<1>12. CASE FinishGate
  BY <1>2, <1>6, <1>12 DEF FinishGate
<1>13. CASE Stage
  <2>1. gate # NotThere
    BY <1>13 DEF Stage, Binds
  <2> QED BY <1>2, <1>13, <2>1 DEF Stage
<1>14. CASE Adopt
  BY <1>2, <1>7, <1>14 DEF Adopt
<1>15. CASE UNCHANGED policyVars
  BY <1>2, <1>15 DEF policyVars
<1> QED BY <1>8, <1>9, <1>10, <1>11, <1>12, <1>13, <1>14, <1>15 DEF PolicyNext

LEMMA PolicyInvariance == ASSUME PolicyAssumption PROVE PolicySpec => []PolicyInv
<1>1. PolicyInit => PolicyInv
  BY PolicyStarts
<1>2. PolicyInv /\ [PolicyNext]_policyVars => PolicyInv'
  BY PolicyKeeps
<1> QED BY <1>1, <1>2, PTL DEF PolicySpec

\* Whatever operations are proposed and however often policies are adopted, edited and
\* proposed again: what a policy lets through, the one before it let through too.
LEMMA PoliciesTighten ==
    ASSUME PolicyAssumption PROVE PolicySpec => []OnlyTightened
<1>1. PolicyInv => OnlyTightened
  <2> SUFFICES ASSUME PolicyInv, NEW t \in trail
      PROVE  /\ \/ setup.type = "trace-validator" /\ t[1].validator = "json"
                \/ \A in \in setup.inputs : Lets(setup, t[2], in) => Lets(setup, t[1], in)
             /\ setup.type = "audit-profile" =>
                  \A f \in setup.inputs :
                     (Applies(setup, t[1], f) /\ Applies(setup, t[2], f) /\ ~LeftOut(setup, t[1], f)
                        /\ ~Covered(setup, {f.path}, t[1].path_policy.sensitive))
                     => Shown(setup, t[2], f) >= Shown(setup, t[1], f)
    BY DEF OnlyTightened
  <2>1. PICK b, a : b = t[1] /\ a = t[2]
    OBVIOUS
  <2>2. Succeeds(setup, b, a) /\ setup.type \in PolicyTypes
    BY <2>1 DEF PolicyInv, TrailHolds, Succeeds
  <2>3. \A in \in setup.inputs : FormedInput(setup.type, in)
    BY DEF PolicyInv, PolicyAssumption
  <2>4. CASE setup.type = "review-policy"
    BY <2>1, <2>2, <2>3, <2>4, ReviewsTighten
  <2>5. CASE setup.type = "trace-validator"
    BY <2>1, <2>2, <2>3, <2>5, TracesTighten
  <2>6. CASE setup.type = "audit-profile"
    <3>1. \A in : Lets(setup, a, in) = LeftOut(setup, a, in) /\ Lets(setup, b, in) = LeftOut(setup, b, in)
      BY <2>6 DEF Lets
    <3>2. ASSUME NEW in \in setup.inputs
          PROVE  /\ LeftOut(setup, a, in) => LeftOut(setup, b, in)
                 /\ (/\ Applies(setup, b, in) /\ Applies(setup, a, in) /\ ~LeftOut(setup, b, in)
                     /\ ~Covered(setup, {in.path}, b.path_policy.sensitive))
                    => Shown(setup, a, in) >= Shown(setup, b, in)
      BY <2>2, <2>3, <2>6, ProfilesTighten
    <3> QED BY <2>1, <2>6, <3>1, <3>2
  <2>7. CASE setup.type = "triage-policy"
    BY <2>7 DEF Lets
  <2> QED BY <2>2, <2>4, <2>5, <2>6, <2>7 DEF PolicyTypes
<1> QED BY <1>1, PolicyInvariance, PTL

\* A policy is replaced only by what was measured over it and what the operations
\* make of it, whatever was edited, proposed or staged meanwhile.
LEMMA AdoptedIsAlwaysMeasured ==
    ASSUME PolicyAssumption PROVE PolicySpec => []AdoptedIsMeasured
<1>1. PolicyInv => AdoptedIsMeasured
  BY DEF PolicyInv, TrailHolds, AdoptedIsMeasured
<1> QED BY <1>1, PolicyInvariance, PTL

\* A policy is replaced only by one that was measured over it and that lets no review, no
\* trace and no finding through that it stopped, nor shows a finding as less severe, with
\* the two exceptions of OnlyTightened: the value a JSON validator asks for, and findings at
\* what the old profile calls sensitive.
THEOREM PoliciesAlwaysTighten ==
    ASSUME PolicyAssumption PROVE PolicySpec => []PoliciesOnlyTighten
<1>1. AdoptedIsMeasured /\ OnlyTightened => PoliciesOnlyTighten
  BY DEF PoliciesOnlyTighten
<1> QED BY <1>1, PoliciesTighten, AdoptedIsAlwaysMeasured, PTL

(***************************************************************************)
(* Rule packs.                                                             *)
(***************************************************************************)

\* Packs of the same rules are told apart by nothing that is measured.
LEMMA EmitsByRules ==
  ASSUME NEW p, NEW q, p.rules = q.rules, NEW f
  PROVE  Emits(p, f) = Emits(q, f)
BY DEF Emits

LEMMA TasksByRules ==
  ASSUME NEW p, NEW q, p.rules = q.rules, NEW task
  PROVE  /\ Lacking(p, task) = Lacking(q, task)
         /\ Unexpected(p, task) = Unexpected(q, task)
         /\ TaskPasses(p, task) <=> TaskPasses(q, task)
<1>1. Emits(p, task.fixture) = Emits(q, task.fixture)
  BY EmitsByRules
<1>2. Lacking(p, task) = Lacking(q, task)
  BY <1>1 DEF Lacking
<1>3. Unexpected(p, task) = Unexpected(q, task)
  BY <1>1 DEF Unexpected
<1> QED BY <1>2, <1>3 DEF TaskPasses

LEMMA MeasuredByRules ==
  ASSUME NEW p, NEW q, p.rules = q.rules, NEW after, Improves(p, after)
  PROVE  Improves(q, after)
<1>1. \A task : /\ Lacking(p, task) = Lacking(q, task)
                /\ Unexpected(p, task) = Unexpected(q, task)
                /\ TaskPasses(p, task) <=> TaskPasses(q, task)
  BY TasksByRules
<1>2. \A s : TasksPassed(p, s) = TasksPassed(q, s)
  <2> SUFFICES ASSUME NEW s PROVE TasksPassed(p, s) = TasksPassed(q, s)
    OBVIOUS
  <2>1. {t \in SuiteTasks[s] : TaskPasses(p, t)} = {t \in SuiteTasks[s] : TaskPasses(q, t)}
    BY <1>1
  <2> QED BY <2>1 DEF TasksPassed
<1>3. \A s : FalseNegatives(p, s) = FalseNegatives(q, s)
  <2> SUFFICES ASSUME NEW s PROVE FalseNegatives(p, s) = FalseNegatives(q, s)
    OBVIOUS
  <2>1. {{<<t, e>> : e \in Lacking(p, t)} : t \in SuiteTasks[s]}
          = {{<<t, e>> : e \in Lacking(q, t)} : t \in SuiteTasks[s]}
    BY <1>1
  <2> QED BY <2>1 DEF FalseNegatives
<1>4. \A s : FalsePositives(p, s) = FalsePositives(q, s)
  <2> SUFFICES ASSUME NEW s PROVE FalsePositives(p, s) = FalsePositives(q, s)
    OBVIOUS
  <2>1. {{<<t, f>> : f \in Unexpected(p, t)} : t \in SuiteTasks[s]}
          = {{<<t, f>> : f \in Unexpected(q, t)} : t \in SuiteTasks[s]}
    BY <1>1
  <2> QED BY <2>1 DEF FalsePositives
<1>5. \A task : Unapproved(p, after, task) = Unapproved(q, after, task)
  <2> SUFFICES ASSUME NEW task PROVE Unapproved(p, after, task) = Unapproved(q, after, task)
    OBVIOUS
  <2>1. Emits(p, task.fixture) = Emits(q, task.fixture)
    BY EmitsByRules
  <2> QED BY <2>1 DEF Unapproved
<1> QED BY <1>2, <1>3, <1>4, <1>5 DEF Improves

\* What an artifact was made from, by what was added to it.
Makes(p, adds, a) ==
    ById(p.rules) /\ DOMAIN adds \cap DOMAIN p.rules = {} /\ Extend(p, adds) = a

LEMMA RulesBefore ==
  ASSUME NEW p, NEW q, NEW adds, NEW a, Makes(p, adds, a), Makes(q, adds, a)
  PROVE  p.rules = q.rules
<1>1. \A x \in {p, q} :
        /\ DOMAIN a.rules = DOMAIN x.rules \cup DOMAIN adds
        /\ DOMAIN adds \cap DOMAIN x.rules = {}
        /\ \A r \in DOMAIN x.rules : a.rules[r] = x.rules[r]
  BY DEF Makes, Extend
<1>2. DOMAIN p.rules = DOMAIN q.rules
  BY <1>1
<1>3. \A r \in DOMAIN p.rules : p.rules[r] = q.rules[r]
  BY <1>1, <1>2
<1> QED BY <1>2, <1>3 DEF Makes, ById

\* A pack extended reports all it reported.
LEMMA ExtensionsReport ==
  ASSUME NEW p, NEW q, NEW f, DOMAIN p.rules \subseteq DOMAIN q.rules,
         \A r \in DOMAIN p.rules : q.rules[r] = p.rules[r]
  PROVE  Emits(p, f) \subseteq Emits(q, f)
BY DEF Emits

\* A gate that passed measured rules that its operations make the artifact of.
GateEarned(g) ==
    g.pass => \E p : Makes(p, g.adds, g.artifact) /\ Improves(p, g.artifact)
ReplacedHolds(t) ==
    /\ \A f \in Fixtures \cup Workspaces : Emits(t.before, f) \subseteq Emits(t.after, f)
    /\ t.respelled \/ Improves(t.before, t.after)
RulesInv ==
    /\ ById(packFile.rules)
    /\ packGate # NoPack => GateEarned(packGate)
    /\ \A t \in replaced : ReplacedHolds(t)

LEMMA RulesKeep == ASSUME RuleAssumption, RulesInv, [RulesNext]_rulesVars PROVE RulesInv'
<1>1. CASE ProposeRule
  BY <1>1 DEF ProposeRule, RulesInv
<1>2. CASE EditExtension
  BY <1>2 DEF EditExtension, RulesInv
<1>3. CASE EditPack
  BY <1>3 DEF EditPack, RulesInv, RuleAssumption
<1>4. CASE GateRules
  <2>1. PICK p, a, c : p = packFile /\ a = extended.adds /\ c = extended.artifact
    OBVIOUS
  <2>2. /\ packGate'.adds = a /\ packGate'.artifact = c
        /\ packGate'.pass = Improves(p, c)
    BY <1>4, <2>1 DEF GateRules
  <2>3. Makes(p, a, c)
    BY <1>4, <2>1 DEF GateRules, ExtensionHolds, Makes, RulesInv
  <2>4. GateEarned(packGate')
    BY <2>2, <2>3, Zenon DEF GateEarned
  <2> QED BY <1>4, <2>4 DEF GateRules, RulesInv
<1>5. CASE \E w \in Workspaces, d \in Days : Shadow(w, d)
  BY <1>5 DEF Shadow, RulesInv
<1>6. CASE \E r \in shadows, o \in {"confirmed", "false-positive"} :
             \E key \in r.added : Confirm(r, key, o)
  BY <1>6 DEF Confirm, RulesInv
<1>7. CASE Aggregate
  BY <1>7 DEF Aggregate, RulesInv
<1>8. CASE WriteAggregate
  BY <1>8 DEF WriteAggregate, RulesInv
<1>9. CASE AdoptPack
  <2>1. PICK p, a, c, g : p = packFile /\ a = extended.adds /\ c = extended.artifact /\ g = packGate
    OBVIOUS
  <2> DEFINE t == [before |-> p, after |-> c, respelled |-> Respelled(packGate, extended)]
  <2>2. packFile' = c /\ packGate' = g /\ replaced' = replaced \cup {t}
    BY <1>9, <2>1 DEF AdoptPack
  <2>3. /\ \A r \in DOMAIN p.rules : r \in DOMAIN c.rules /\ c.rules[r] = p.rules[r]
        /\ Makes(p, a, c)
    BY <1>9, <2>1 DEF AdoptPack, ExtensionHolds, Makes, RulesInv
  <2>4. g # NoPack /\ g.pass /\ g.artifact = c
    BY <1>9, <2>1 DEF AdoptPack, BindsPack
  <2>5. Respelled(packGate, extended) \/ g.adds = a
    BY <2>1, <2>4 DEF Respelled
  <2>6. ASSUME g.adds = a PROVE Improves(p, c)
    <3>1. PICK q : Makes(q, a, c) /\ Improves(q, c)
      BY <2>1, <2>4, <2>6 DEF RulesInv, GateEarned
    <3>2. q.rules = p.rules
      BY <2>3, <3>1, RulesBefore
    <3> QED BY <3>1, <3>2, MeasuredByRules
  <2>7. \A f : Emits(p, f) \subseteq Emits(c, f)
    BY <2>3, ExtensionsReport
  <2>8. t.before = p /\ t.after = c /\ (t.respelled <=> Respelled(packGate, extended))
    OBVIOUS
  <2>9. ReplacedHolds(t)
    <3> HIDE DEF t
    <3> QED BY <2>5, <2>6, <2>7, <2>8 DEF ReplacedHolds
  <2>10. ById(c.rules)
    BY <2>3 DEF Makes, Extend, ById
  <2> HIDE DEF t
  <2> QED BY <2>1, <2>2, <2>9, <2>10 DEF RulesInv
<1>10. CASE UNCHANGED rulesVars
  BY <1>10 DEF rulesVars, RulesInv
<1> QED BY <1>1, <1>2, <1>3, <1>4, <1>5, <1>6, <1>7, <1>8, <1>9, <1>10 DEF RulesNext

\* However often packs, candidates and aggregates are edited: an adopted pack reports
\* what the one before it did, and was measured over its rules.
THEOREM AdoptedRulesAreAlwaysMeasured ==
    ASSUME RuleAssumption PROVE RulesSpec => []AdoptedRulesWereMeasured
<1>1. RulesInit => RulesInv
  BY DEF RulesInit, RulesInv, RuleAssumption
<1>2. RulesInv /\ [RulesNext]_rulesVars => RulesInv'
  BY RulesKeep
<1>3. RulesInv => AdoptedRulesWereMeasured
  BY DEF RulesInv, ReplacedHolds, AdoptedRulesWereMeasured
<1> QED BY <1>1, <1>2, <1>3, PTL DEF RulesSpec
---------------------------------------------------------------------------
(* The gate.                                                                *)

\* Products and quotients of naturals.
LEMMA TimesKeepsOrder ==
  ASSUME NEW a \in Nat, NEW b \in Nat, NEW k \in Nat, a <= b
  PROVE  a * k <= b * k
<1>1. PICK d \in Nat : b = a + d
  OBVIOUS
<1>2. d * k \in Nat /\ a * k \in Nat /\ (a + d) * k = a * k + d * k
  OBVIOUS
<1> QED BY <1>1, <1>2

LEMMA Sums ==
  ASSUME NEW a \in Nat, NEW b \in Nat, NEW k \in Nat
  PROVE  (a + b) * k = a * k + b * k
OBVIOUS

LEMMA OneMore ==
  ASSUME NEW a \in Nat, NEW k \in Nat
  PROVE  (a + 1) * k = a * k + k
OBVIOUS

LEMMA ExactDiv ==
  ASSUME NEW m \in Nat, NEW k \in Nat \ {0}
  PROVE  (m * k) \div k = m
OBVIOUS

LEMMA DivBounds ==
  ASSUME NEW a \in Nat, NEW k \in Nat \ {0}
  PROVE  /\ a \div k \in Nat /\ a % k \in 0..(k - 1)
         /\ a = ((a \div k) * k) + (a % k)
OBVIOUS

LEMMA DivLeast ==
  ASSUME NEW a \in Nat, NEW k \in Nat \ {0}, NEW m \in Nat, m * k <= a
  PROVE  m <= a \div k
<1> PICK q \in Nat : q = a \div k
  BY DivBounds
<1>1. a < (q + 1) * k
  <2>1. a = (q * k) + (a % k) /\ a % k < k
    BY DivBounds
  <2>2. (q + 1) * k = q * k + k /\ q * k \in Nat
    OBVIOUS
  <2> QED BY <2>1, <2>2, DivBounds
<1> SUFFICES ASSUME m >= q + 1 PROVE FALSE
  OBVIOUS
<1>2. (q + 1) * k <= m * k
  BY TimesKeepsOrder
<1>3. (q + 1) * k \in Nat /\ m * k \in Nat
  OBVIOUS
<1> QED BY <1>1, <1>2, <1>3

\* A gain that matters is one.
LEMMA GainIsPositive ==
  ASSUME FractionAssumption, NEW d \in Int, NEW n \in Nat, GainMatters(d, n)
  PROVE  d > 0
<1> PICK m \in Nat \ {0} : m = IF n = 0 THEN 1 ELSE n
  OBVIOUS
<1> PICK a \in Nat \ {0}, b \in Nat \ {0} : a = McidNum /\ b = McidDen
  BY DEF FractionAssumption
<1>1. d * b >= a * m
  BY DEF GainMatters
<1>2. a * m > 0 /\ a * m \in Nat
  OBVIOUS
<1> SUFFICES ASSUME d <= 0 PROVE FALSE
  OBVIOUS
<1>3. PICK e \in Nat : d = -e
  OBVIOUS
<1>4. e * b \in Nat /\ (-e) * b = -(e * b)
  OBVIOUS
<1> QED BY <1>1, <1>2, <1>3, <1>4

\* The counts of a tally are numbers, and so are their sums.
LEMMA CountsAreNumbers ==
  ASSUME NEW t \in Tallies
  PROVE  /\ t.better \in Nat /\ t.worse \in Nat /\ t.both \in Nat /\ t.neither \in Nat
         /\ t.infra \in Nat /\ t.hard \in BOOLEAN
         /\ Usable(t) \in Nat /\ PairCount(t) \in Nat
BY DEF Tallies, Usable, PairCount

\* What a suite that passes shows.
PassShown(p, t) ==
    /\ t.infra = 0
    /\ Usable(t) >= p.min
    /\ p.objective = "no_regression" => t.worse = 0 /\ t.neither = 0
    /\ p.objective # "no_regression" => t.better > t.worse

\* What a comparison that passes shows of its pairs.
LEMMA CompareEarns ==
  ASSUME FractionAssumption, NEW t \in Tallies, NEW objective, NEW required \in Nat, NEW looks,
         Compare(t, objective, required, looks) = "PASS"
  PROVE  /\ t.infra = 0 /\ Usable(t) >= required
         /\ objective = "no_regression" => t.worse = 0 /\ t.neither = 0
         /\ objective # "no_regression" => t.better > t.worse
<1> USE CountsAreNumbers
<1>1. t.infra = 0 /\ Usable(t) >= required /\ ~t.hard
  BY DEF Compare
<1>2. objective = "no_regression" => t.worse = 0 /\ t.neither = 0
  BY <1>1 DEF Compare
<1>3. ASSUME objective # "no_regression" PROVE t.better > t.worse
  <2>1. GainMatters(t.better - t.worse, Usable(t))
    BY <1>1, <1>3 DEF Compare
  <2>2. t.better - t.worse \in Int /\ Usable(t) \in Nat
    OBVIOUS
  <2>3. t.better - t.worse > 0
    BY <2>1, <2>2, GainIsPositive
  <2> QED BY <2>3
<1> QED BY <1>1, <1>2, <1>3

Verdicts == {"PASS", "FAIL", "INCONCLUSIVE", "INFRASTRUCTURE_ERROR"}

\* A comparison has one of four answers.
LEMMA CompareAnswers ==
  ASSUME NEW t, NEW objective, NEW required, NEW looks
  PROVE  Compare(t, objective, required, looks) \in Verdicts
BY DEF Compare, Verdicts

\* A look goes on only below the most pairs, fails on a hard regression, and passes
\* only what the comparison passes.
LEMMA DecideEarns ==
  ASSUME FractionAssumption, NEW p, Applicable(p), NEW t \in Tallies
  PROVE  LET stop == Decide(p, t)
         IN  /\ stop.status \in Verdicts \cup {"CONTINUE"}
             /\ stop.status = "CONTINUE" => PairCount(t) < p.max
             /\ t.hard => stop.status = "FAIL"
             /\ stop.status = "PASS" => PassShown(p, t)
<1> DEFINE status == Compare(t, p.objective, p.min, PlannedLooks(p))
           stop == Decide(p, t)
<1>1. p.min \in Nat /\ p.max \in Nat
  BY DEF Applicable
<1>2. status \in Verdicts
  BY CompareAnswers
<1>3. status = "PASS" => PassShown(p, t)
  BY <1>1, CompareEarns DEF PassShown
<1> HIDE DEF status
<1>4. Decide(p, t) =
        IF t.hard THEN Stop("FAIL", "HARD_REGRESSION")
        ELSE IF status = "INFRASTRUCTURE_ERROR" THEN Stop(status, "INFRASTRUCTURE_ABORT")
        ELSE IF status = "FAIL" THEN Stop(status, "REGRESSION_BOUNDARY")
        ELSE IF status = "PASS" THEN Stop(status, "SUCCESS_BOUNDARY")
        ELSE IF PairCount(t) >= p.max THEN Stop("INCONCLUSIVE", "MAX_SAMPLE_INCONCLUSIVE")
        ELSE IF p.objective # "no_regression" /\ ~StillReachable(p, t)
             THEN Stop("INCONCLUSIVE", "FUTILITY_BOUNDARY")
        ELSE Stop("CONTINUE", "EVIDENCE_PENDING")
  BY DEF Decide, status
<1>6. PairCount(t) \in Nat /\ t.hard \in BOOLEAN
  BY CountsAreNumbers
<1>5. stop.status =
        IF t.hard THEN "FAIL"
        ELSE IF status \in {"INFRASTRUCTURE_ERROR", "FAIL", "PASS"} THEN status
        ELSE IF PairCount(t) >= p.max THEN "INCONCLUSIVE"
        ELSE IF p.objective # "no_regression" /\ ~StillReachable(p, t) THEN "INCONCLUSIVE"
        ELSE "CONTINUE"
  <2>1. \A a, b : Stop(a, b).status = a
    BY DEF Stop
  <2> QED BY <1>2, <1>4, <1>6, <2>1 DEF Verdicts
<1> HIDE DEF stop
<1>7. /\ stop.status \in Verdicts \cup {"CONTINUE"}
      /\ stop.status = "CONTINUE" => PairCount(t) < p.max
      /\ t.hard => stop.status = "FAIL"
  BY <1>1, <1>2, <1>5, <1>6 DEF Verdicts
<1>8. stop.status = "PASS" => status = "PASS"
  BY <1>5, <1>6
<1> QED BY <1>3, <1>7, <1>8 DEF stop

\* The rollouts of the next look of a suite with c pairs: at least one.
RolloutsAt(p, c) ==
    LET n == Smaller(p.batch, p.max - c) \div p.tasks
    IN  IF n = 0 THEN 1 ELSE n

LEMMA LookAdds ==
  ASSUME NEW p, Applicable(p), NEW c \in Nat, c < p.max
  PROVE  RolloutsAt(p, c) \in Nat \ {0}
<1>1. p.batch \in Nat \ {0} /\ p.max \in Nat \ {0} /\ p.tasks \in Nat \ {0}
  BY DEF Applicable
<1>2. Smaller(p.batch, p.max - c) \in Nat
  BY <1>1 DEF Smaller
<1>3. Smaller(p.batch, p.max - c) \div p.tasks \in Nat
  BY <1>1, <1>2, DivBounds
<1> QED BY <1>3 DEF RolloutsAt

\* Where batches and the most pairs are whole runs of the tasks, the look after k full
\* batches ends the suite or makes k + 1 of them, and is one that was planned.
LEMMA AlignedLook ==
  ASSUME NEW p, Applicable(p), Aligned(p), NEW k \in Nat, k * p.batch < p.max
  PROVE  /\ k * p.batch + RolloutsAt(p, k * p.batch) * p.tasks < p.max
              => k * p.batch + RolloutsAt(p, k * p.batch) * p.tasks = (k + 1) * p.batch
         /\ k + 1 <= PlannedLooks(p)
<1> PICK b \in Nat \ {0}, l \in Nat \ {0}, w \in Nat \ {0} : b = p.batch /\ l = p.max /\ w = p.tasks
  BY DEF Applicable
<1> PICK c \in Nat : c = k * b
  OBVIOUS
<1>1. PICK x \in Nat, y \in Nat : b = x * w /\ l = y * w
  <2>1. b % w = 0 /\ l % w = 0
    BY DEF Aligned
  <2>2. \A n \in {b, l} : n \div w \in Nat /\ n = ((n \div w) * w) + (n % w)
    BY DivBounds
  <2>3. \A n \in {b, l} : n = (n \div w) * w
    <3> SUFFICES ASSUME NEW n \in {b, l} PROVE n = (n \div w) * w
      OBVIOUS
    <3> PICK q \in Nat : q = n \div w
      BY <2>2
    <3>1. n = (q * w) + (n % w) /\ n % w = 0
      BY <2>1, <2>2
    <3>2. q * w \in Nat
      OBVIOUS
    <3>3. n = q * w
      BY <3>1, <3>2
    <3> QED BY <3>3
  <2> QED BY <2>2, <2>3
<1>2. k + 1 <= PlannedLooks(p)
  <2>1. (k + 1) * b = c + b
    BY OneMore
  <2>2. (k + 1) * b <= l + b - 1 /\ l + b - 1 \in Nat
    BY <2>1
  <2>3. k + 1 <= (l + b - 1) \div b
    BY <2>2, DivLeast
  <2> QED BY <2>3 DEF PlannedLooks, CeilDiv
<1>3. PICK z \in Nat : Smaller(b, l - c) = z * w
  <2>1. CASE Smaller(b, l - c) = b
    BY <1>1, <2>1
  <2>2. CASE Smaller(b, l - c) = l - c
    <3>1. PICK u \in Nat : u = k * x
      OBVIOUS
    <3>2. c = u * w
      BY <1>1, <3>1
    <3>3. u < y
      <4> SUFFICES ASSUME y <= u PROVE FALSE
        OBVIOUS
      <4>1. y * w <= u * w
        BY TimesKeepsOrder
      <4> QED BY <1>1, <3>2, <4>1
    <3>4. (y - u) * w = y * w - u * w /\ y - u \in Nat
      BY <3>3
    <3> QED BY <1>1, <2>2, <3>2, <3>4
  <2> QED BY <2>1, <2>2 DEF Smaller
<1>4. Smaller(b, l - c) \in Nat \ {0} /\ (Smaller(b, l - c) = b \/ Smaller(b, l - c) = l - c)
  BY DEF Smaller
<1>5. z # 0
  BY <1>3, <1>4
<1>6. (z * w) \div w = z
  BY ExactDiv
<1>7. RolloutsAt(p, c) = z
  BY <1>3, <1>5, <1>6 DEF RolloutsAt
<1>8. c + z * w < l => c + z * w = (k + 1) * b
  <2>1. (k + 1) * b = c + b
    BY OneMore
  <2> QED BY <1>3, <1>4, <2>1
<1> QED BY <1>2, <1>7, <1>8

LEMMA AppendHolds ==
  ASSUME NEW S, NEW s \in Seq(S), NEW e
  PROVE  /\ Append(s, e) \in Seq(S \cup {e}) /\ Len(Append(s, e)) = Len(s) + 1
         /\ \A i \in 1..Len(s) : Append(s, e)[i] = s[i]
         /\ Append(s, e)[Len(s) + 1] = e
<1>1. s \in Seq(S \cup {e})
  OBVIOUS
<1> QED BY <1>1

\* Looks at a suite with plan p that measured no iteration twice, all of them below m.
DisjointLooks(s) == \A i, j \in 1..Len(s) : i # j => s[i] \cap s[j] = {}
Below(s, m) == \A i \in 1..Len(s) : s[i] \subseteq 0..(m - 1)

\* The iterations of a look start where those of the looks before it end.
LEMMA NewLook ==
  ASSUME NEW s \in Seq(SUBSET Nat), NEW m \in Nat, NEW n \in Nat \ {0}, DisjointLooks(s), Below(s, m)
  PROVE  LET r == Append(s, m..(m + n - 1))
         IN  r \in Seq(SUBSET Nat) /\ Len(r) = Len(s) + 1 /\ DisjointLooks(r) /\ Below(r, m + n)
<1> DEFINE e == m..(m + n - 1)
<1> PICK r : r = Append(s, e)
  OBVIOUS
<1>1. e \in SUBSET Nat /\ e \subseteq 0..(m + n - 1) /\ \A x \in e : x >= m
  OBVIOUS
<1> HIDE DEF e
<1>2. r \in Seq(SUBSET Nat)
  BY <1>1
<1>3. Len(r) = Len(s) + 1 /\ (\A i \in 1..Len(s) : r[i] = s[i]) /\ r[Len(s) + 1] = e
  BY <1>1
<1>4. \A i \in 1..Len(s) : \A x \in s[i] : x \in Nat /\ x < m
  BY DEF Below
<1>5. Below(r, m + n)
  <2> SUFFICES ASSUME NEW i \in 1..(Len(s) + 1), NEW x \in r[i] PROVE x \in 0..(m + n - 1)
    BY <1>3 DEF Below
  <2>1. CASE i = Len(s) + 1
    BY <1>1, <1>3, <2>1
  <2>2. CASE i \in 1..Len(s)
    <3>1. x \in Nat /\ x < m
      BY <1>3, <1>4, <2>2
    <3> QED BY <3>1
  <2> QED BY <2>1, <2>2
<1>6. DisjointLooks(r)
  BY <1>1, <1>3, <1>4 DEF DisjointLooks
<1> QED BY <1>2, <1>3, <1>5, <1>6 DEF e

\* A suite that is finished.
FinishedHolds(p, d) ==
    /\ d.tally \in Tallies /\ d.stop.status \in Verdicts
    /\ d.tally.hard => d.stop.status = "FAIL"
    /\ d.stop.status = "PASS" => PassShown(p, d.tally)
    /\ DisjointLooks(d.seen)
    /\ Aligned(p) => d.looks <= PlannedLooks(p)
\* The suites so far.  The verdict is that of the first that did not pass.
DoneHolds ==
    /\ verdict \in Verdicts \cup {"RUNNING"}
    /\ \E S : done \in Seq(S)
    /\ Len(done) <= Len(Suites)
    /\ \A n \in 1..Len(done) :
         /\ done[n].suite = Suites[n]
         /\ FinishedHolds(Plan[Suites[n]], done[n])
         /\ done[n].stop.status \in {"PASS", verdict}
    /\ verdict = "RUNNING" => Len(done) < Len(Suites)
    /\ verdict = "PASS" => Len(done) = Len(Suites)
\* The current suite: c pairs are m runs of its tasks.
LooksHold(p, c, k, s) ==
    /\ c < p.max
    /\ \E m \in Nat : c = m * p.tasks /\ Below(s, m)
    /\ DisjointLooks(s)
    /\ Aligned(p) => c = k * p.batch
GateInv ==
    /\ plan \in Plans
    /\ DoneHolds
    /\ look \in Nat /\ tally \in Tallies /\ seen \in Seq(SUBSET Nat) /\ Len(seen) = look
    /\ verdict = "RUNNING" => LooksHold(Plan[Current], PairCount(tally), look, seen)

\* A suite starts with no pairs.
LEMMA FirstLook ==
  ASSUME NEW p, Applicable(p)
  PROVE  /\ NoPairs \in Tallies /\ <<>> \in Seq(SUBSET Nat)
         /\ LooksHold(p, PairCount(NoPairs), 0, <<>>)
<1>1. p.max \in Nat \ {0} /\ p.tasks \in Nat \ {0} /\ p.batch \in Nat \ {0}
  BY DEF Applicable
<1>2. NoPairs \in Tallies /\ PairCount(NoPairs) = 0
  BY DEF NoPairs, Tallies, PairCount, Usable
<1>3. Len(<<>>) = 0 /\ 1..Len(<<>>) = {}
  OBVIOUS
<1>4. Below(<<>>, 0) /\ DisjointLooks(<<>>)
  BY <1>3 DEF Below, DisjointLooks
<1>5. 0 = 0 * p.tasks /\ 0 = 0 * p.batch
  BY <1>1
<1> QED BY <1>1, <1>2, <1>4, <1>5 DEF LooksHold

LEMMA GateStarts == ASSUME PlanAssumption, GateInit PROVE GateInv
<1>1. /\ plan \in Plans /\ verdict = "RUNNING" /\ done = <<>> /\ look = 0 /\ tally = NoPairs
      /\ seen = <<>>
  BY DEF GateInit
<1>2. Suites \in Seq(DOMAIN plan.of) /\ Len(Suites) > 0 /\ Applicable(Plan[Suites[1]])
  BY <1>1 DEF PlanAssumption, Suites, Plan
<1>3. Len(done) = 0 /\ Len(Suites) \in Nat /\ done \in Seq({})
  BY <1>1, <1>2
<1>4. DoneHolds
  BY <1>1, <1>2, <1>3 DEF DoneHolds
<1>5. Current = Suites[1]
  BY <1>3 DEF Current
<1>6. LooksHold(Plan[Current], PairCount(tally), look, seen)
  BY <1>1, <1>2, <1>5, FirstLook
<1>7. look \in Nat /\ tally \in Tallies /\ seen \in Seq(SUBSET Nat) /\ Len(seen) = look
  BY <1>1, <1>2, FirstLook
<1> QED BY <1>1, <1>4, <1>6, <1>7 DEF GateInv

\* The pairs of a look are added to those there are.
LEMMA PlusCounts ==
  ASSUME NEW t \in Tallies, NEW u \in Tallies
  PROVE  Plus(t, u) \in Tallies /\ PairCount(Plus(t, u)) = PairCount(t) + PairCount(u)
<1>1. Plus(t, u) \in Tallies
  BY DEF Tallies, Plus
<1>2. PairCount(Plus(t, u)) = PairCount(t) + PairCount(u)
  BY DEF Tallies, Plus, PairCount, Usable
<1> QED BY <1>1, <1>2

LEMMA GateSteps ==
  ASSUME FractionAssumption, PlanAssumption, GateInv, [GateNext]_gateVars
  PROVE  GateInv'
<1>1. CASE FailPreflight
  <2>1. done = <<>> /\ done' = <<>> /\ verdict' = "FAIL" /\ plan' = plan
    BY <1>1 DEF FailPreflight
  <2>2. DoneHolds'
    BY <2>1 DEF DoneHolds, GateInv, Suites, Verdicts
  <2> QED BY <1>1, <2>1, <2>2 DEF FailPreflight, GateInv
<1>2. CASE Look
  <2> DEFINE p == Plan[Current]
             n == Rollouts(p)
  <2>1. /\ verdict = "RUNNING" /\ plan \in Plans /\ DoneHolds
        /\ look \in Nat /\ tally \in Tallies /\ seen \in Seq(SUBSET Nat) /\ Len(seen) = look
        /\ LooksHold(p, PairCount(tally), look, seen)
    BY <1>2 DEF Look, GateInv
  <2>2. /\ Suites \in Seq(DOMAIN plan.of) /\ Len(Suites) \in Nat
        /\ \A k \in 1..Len(Suites) : Applicable(Plan[Suites[k]])
    BY <2>1 DEF PlanAssumption, Suites, Plan
  <2>3. Len(done) \in Nat /\ Len(done) < Len(Suites)
    BY <2>1 DEF DoneHolds
  <2>4. Applicable(p) /\ Current = Suites[Len(done) + 1]
    BY <2>2, <2>3 DEF Current
  <2>5. PICK c \in Nat : c = PairCount(tally)
    BY <2>1, CountsAreNumbers
  <2>6. n = RolloutsAt(p, c) /\ n \in Nat \ {0}
    BY <2>1, <2>4, <2>5, LookAdds DEF Rollouts, RolloutsAt, LooksHold
  <2>7. p.tasks \in Nat \ {0} /\ p.max \in Nat \ {0} /\ p.batch \in Nat \ {0}
    BY <2>4 DEF Applicable
  <2> HIDE DEF n
  <2>8. PICK fresh \in Nat : fresh = n * p.tasks
    BY <2>6, <2>7
  <2>9. PICK u \in Tallies : /\ PairCount(u) = fresh
                             /\ Observe(p, Plus(tally, u), Offset(p)..(Offset(p) + n - 1))
    <3>1. PICK b \in 0..fresh : \E w \in 0..(fresh - b) : \E o \in 0..(fresh - (b + w)) :
               \E x \in 0..(fresh - (b + w + o)), hard \in BOOLEAN :
                 \E batch \in {[better |-> b, worse |-> w, both |-> o, neither |-> x,
                                infra |-> fresh - (b + w + o + x), hard |-> hard]} :
                    Observe(p, Plus(tally, batch), Offset(p)..(Offset(p) + n - 1))
      BY <1>2, <2>8 DEF Look, n
    <3>2. PICK w \in 0..(fresh - b) : \E o \in 0..(fresh - (b + w)) :
               \E x \in 0..(fresh - (b + w + o)), hard \in BOOLEAN :
                 \E batch \in {[better |-> b, worse |-> w, both |-> o, neither |-> x,
                                infra |-> fresh - (b + w + o + x), hard |-> hard]} :
                    Observe(p, Plus(tally, batch), Offset(p)..(Offset(p) + n - 1))
      BY <3>1
    <3>2a. PICK o \in 0..(fresh - (b + w)) :
               \E x \in 0..(fresh - (b + w + o)), hard \in BOOLEAN :
                 \E batch \in {[better |-> b, worse |-> w, both |-> o, neither |-> x,
                                infra |-> fresh - (b + w + o + x), hard |-> hard]} :
                    Observe(p, Plus(tally, batch), Offset(p)..(Offset(p) + n - 1))
      BY <3>2
    <3>3. PICK x \in 0..(fresh - (b + w + o)), hard \in BOOLEAN :
                 \E batch \in {[better |-> b, worse |-> w, both |-> o, neither |-> x,
                                infra |-> fresh - (b + w + o + x), hard |-> hard]} :
                    Observe(p, Plus(tally, batch), Offset(p)..(Offset(p) + n - 1))
      BY <3>2a
    <3> DEFINE batch == [better |-> b, worse |-> w, both |-> o, neither |-> x,
                         infra |-> fresh - (b + w + o + x), hard |-> hard]
    <3>4. Observe(p, Plus(tally, batch), Offset(p)..(Offset(p) + n - 1))
      BY <3>3
    <3>5. b \in Nat /\ w \in Nat /\ o \in Nat /\ x \in Nat /\ fresh - (b + w + o + x) \in Nat
      OBVIOUS
    <3>6. batch \in Tallies
      BY <3>5 DEF Tallies
    <3>7. PairCount(batch) = fresh
      BY <3>5 DEF PairCount, Usable
    <3> HIDE DEF batch
    <3> QED BY <3>4, <3>6, <3>7
  <2>10. PICK m \in Nat : c = m * p.tasks /\ Below(seen, m)
    BY <2>1, <2>5 DEF LooksHold
  <2>11. Offset(p) = m
    BY <2>5, <2>7, <2>10, ExactDiv DEF Offset
  <2> DEFINE t == Plus(tally, u)
             iterations == m..(m + n - 1)
             stop == Decide(p, t)
             sn == Append(seen, iterations)
             d == [suite |-> Current, tally |-> t, stop |-> stop, looks |-> look + 1, seen |-> sn]
  <2>12. t \in Tallies /\ PairCount(t) = c + fresh
    BY <2>1, <2>5, <2>9, PlusCounts
  <2>13. /\ sn \in Seq(SUBSET Nat) /\ Len(sn) = look + 1 /\ DisjointLooks(sn) /\ Below(sn, m + n)
    BY <2>1, <2>6, <2>10, NewLook DEF LooksHold
  <2>14. /\ stop.status \in Verdicts \cup {"CONTINUE"}
         /\ stop.status = "CONTINUE" => PairCount(t) < p.max
         /\ t.hard => stop.status = "FAIL"
         /\ stop.status = "PASS" => PassShown(p, t)
    BY <2>4, <2>12, DecideEarns
  <2>15. /\ plan' = plan
         /\ IF stop.status = "CONTINUE" /\ PairCount(t) < p.max
            THEN /\ tally' = t /\ look' = look + 1 /\ seen' = sn
                 /\ verdict' = verdict /\ done' = done
            ELSE /\ done' = Append(done, d)
                 /\ verdict' = IF stop.status # "PASS" THEN stop.status
                               ELSE IF Len(done') = Len(Suites) THEN "PASS" ELSE "RUNNING"
                 /\ tally' = NoPairs /\ look' = 0 /\ seen' = <<>>
    BY <2>9, <2>11 DEF Observe
  <2>16. Aligned(p) => /\ c + fresh < p.max => c + fresh = (look + 1) * p.batch
                       /\ look + 1 <= PlannedLooks(p)
    <3> SUFFICES ASSUME Aligned(p)
                 PROVE  /\ c + fresh < p.max => c + fresh = (look + 1) * p.batch
                        /\ look + 1 <= PlannedLooks(p)
      OBVIOUS
    <3>1. c = look * p.batch /\ c < p.max
      BY <2>1, <2>5 DEF LooksHold
    <3> QED BY <2>1, <2>4, <2>6, <2>8, <3>1, AlignedLook
  <2>17. plan' = plan /\ Suites' = Suites /\ Plan' = Plan
    BY <2>15 DEF Suites, Plan
  <2> HIDE DEF p, t, iterations, stop, sn
  <2>18. CASE stop.status = "CONTINUE"
    <3>1. /\ tally' = t /\ look' = look + 1 /\ seen' = sn /\ verdict' = verdict /\ done' = done
          /\ PairCount(t) < p.max
      BY <2>14, <2>15, <2>18
    <3>2. DoneHolds'
      BY <2>1, <2>17, <3>1 DEF DoneHolds
    <3>3. Current' = Current
      BY <2>17, <3>1 DEF Current
    <3>4. c + fresh = (m + n) * p.tasks
      <4>1. (m + n) * p.tasks = m * p.tasks + n * p.tasks
        BY <2>6, <2>7, Sums
      <4> QED BY <2>8, <2>10, <4>1
    <3>5. m + n \in Nat
      BY <2>6
    <3>6. LooksHold(p, PairCount(t), look + 1, sn)
      BY <2>12, <2>13, <2>16, <3>1, <3>4, <3>5 DEF LooksHold
    <3>7. Plan'[Current'] = p
      BY <2>17, <3>3 DEF p
    <3> QED BY <2>1, <2>12, <2>13, <2>17, <3>1, <3>2, <3>6, <3>7 DEF GateInv
  <2>19. CASE stop.status # "CONTINUE"
    <3>1. /\ done' = Append(done, d)
          /\ verdict' = IF stop.status # "PASS" THEN stop.status
                        ELSE IF Len(done') = Len(Suites) THEN "PASS" ELSE "RUNNING"
          /\ tally' = NoPairs /\ look' = 0 /\ seen' = <<>>
      BY <2>15, <2>19
    <3>2. /\ d.suite = Current /\ d.tally = t /\ d.stop = stop /\ d.looks = look + 1 /\ d.seen = sn
      OBVIOUS
    <3>3. FinishedHolds(p, d)
      <4> HIDE DEF d
      <4> QED BY <2>12, <2>13, <2>14, <2>16, <2>19, <3>2 DEF FinishedHolds
    <3> HIDE DEF d
    <3>4. PICK S : done \in Seq(S)
      BY <2>1 DEF DoneHolds
    <3>5. /\ done' \in Seq(S \cup {d}) /\ Len(done') = Len(done) + 1
          /\ \A i \in 1..Len(done) : done'[i] = done[i]
          /\ done'[Len(done) + 1] = d
      BY <3>1, <3>4, AppendHolds
    <3>6. verdict' \in Verdicts \cup {"RUNNING"} /\ d.stop.status \in {"PASS", verdict'}
      BY <2>14, <2>19, <3>1, <3>2 DEF Verdicts
    <3>7. ASSUME NEW i \in 1..Len(done')
          PROVE  /\ done'[i].suite = Suites[i]
                 /\ FinishedHolds(Plan[Suites[i]], done'[i])
                 /\ done'[i].stop.status \in {"PASS", verdict'}
      <4>1. CASE i = Len(done) + 1
        BY <2>4, <3>2, <3>3, <3>5, <3>6, <4>1 DEF p
      <4>2. CASE i \in 1..Len(done)
        BY <2>1, <3>5, <4>2 DEF DoneHolds, FinishedHolds, Verdicts
      <4> QED BY <2>3, <3>5, <4>1, <4>2
    <3>8. /\ Len(done') <= Len(Suites)
          /\ verdict' = "RUNNING" => Len(done') < Len(Suites)
          /\ verdict' = "PASS" => Len(done') = Len(Suites)
      BY <2>2, <2>3, <2>14, <2>19, <3>1, <3>5 DEF Verdicts
    <3>9. DoneHolds'
      BY <2>17, <3>5, <3>6, <3>7, <3>8 DEF DoneHolds
    <3>10. verdict' = "RUNNING" => LooksHold(Plan'[Current'], PairCount(tally'), look', seen')
      <4> SUFFICES ASSUME verdict' = "RUNNING"
                   PROVE  LooksHold(Plan'[Current'], PairCount(tally'), look', seen')
        OBVIOUS
      <4>1. Current' = Suites[Len(done') + 1] /\ Len(done') + 1 \in 1..Len(Suites)
        BY <2>2, <2>3, <2>17, <3>5, <3>8 DEF Current
      <4>2. Applicable(Plan'[Current'])
        BY <2>2, <2>17, <4>1
      <4> QED BY <3>1, <4>2, FirstLook
    <3>11. look' \in Nat /\ tally' \in Tallies /\ seen' \in Seq(SUBSET Nat) /\ Len(seen') = look'
      BY <2>4, <3>1, FirstLook
    <3> QED BY <2>1, <2>17, <3>9, <3>10, <3>11 DEF GateInv
  <2> QED BY <2>18, <2>19
<1>3. CASE UNCHANGED gateVars
  BY <1>3 DEF gateVars, GateInv, DoneHolds, Suites, Plan, Current
<1> QED BY <1>1, <1>2, <1>3 DEF GateNext

LEMMA GateInvariance ==
  ASSUME FractionAssumption, PlanAssumption PROVE GateSpec => []GateInv
<1>1. GateInit => GateInv
  BY GateStarts
<1>2. GateInv /\ [GateNext]_gateVars => GateInv'
  BY GateSteps
<1> QED BY <1>1, <1>2, PTL DEF GateSpec

\* Whatever the pairs show and in however many looks: a gate passes only if every suite
\* has the pairs its plan asks for, none of them with an infrastructure error, and the
\* gain or the absence of losses it asks for; a hard regression fails it; no iteration is
\* measured in two looks of a suite, and where batches and the most pairs are whole runs
\* of the tasks, no more looks are taken than alpha was divided by.
THEOREM VerdictsAreAlwaysEarned ==
    ASSUME FractionAssumption, PlanAssumption PROVE GateSpec => []VerdictsAreEarned
<1>1. ASSUME GateInv PROVE VerdictIsEarned
  <2>1. ASSUME NEW n \in 1..Len(done)
        PROVE  /\ done[n].tally.hard => verdict = "FAIL"
               /\ verdict = "PASS" => PassShown(Plan[done[n].suite], done[n].tally)
    <3>1. /\ done[n].suite = Suites[n]
          /\ FinishedHolds(Plan[Suites[n]], done[n])
          /\ done[n].stop.status \in {"PASS", verdict}
      BY <1>1, <2>1 DEF GateInv, DoneHolds
    <3> QED BY <3>1 DEF FinishedHolds
  <2>2. verdict = "PASS" => Len(done) = Len(Suites)
    BY <1>1 DEF GateInv, DoneHolds
  <2> QED BY <2>1, <2>2 DEF VerdictIsEarned, PassShown
<1>2. ASSUME GateInv PROVE LooksAreFresh
  <2>1. ASSUME NEW n \in 1..Len(done)
        PROVE  /\ done[n].suite = Suites[n] /\ done[n].tally \in Tallies
               /\ DisjointLooks(done[n].seen)
               /\ Aligned(Plan[done[n].suite]) => done[n].looks <= PlannedLooks(Plan[done[n].suite])
    <3>1. /\ done[n].suite = Suites[n]
          /\ FinishedHolds(Plan[Suites[n]], done[n])
      BY <1>2, <2>1 DEF GateInv, DoneHolds
    <3> QED BY <3>1 DEF FinishedHolds
  <2>2. GateTypeOK
    BY <1>2, <2>1 DEF GateInv, DoneHolds, GateTypeOK, Verdicts
  <2> QED BY <2>1, <2>2 DEF LooksAreFresh, DisjointLooks
<1>3. GateInv => VerdictsAreEarned
  BY <1>1, <1>2 DEF VerdictsAreEarned
<1> QED BY <1>3, GateInvariance, PTL
=============================================================================
