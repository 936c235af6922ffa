------------------------ MODULE Evaluation_proofs ------------------------
(***************************************************************************)
(* Proofs about what the evaluation keeps: the Decision Ledger, for any    *)
(* ids, writers and number of commands; the experiences harvested from     *)
(* runs, for any artifacts, packs, repositories and codes; the gates of a  *)
(* Skill, for any texts, candidates, suites and statuses; and the scores   *)
(* of rollouts, for any tasks, hosts, fixtures and moves of the agent.     *)
(*                                                                         *)
(* What makes the chains of superseded decisions end is a property of each *)
(* ledger value (Sound) that Add and Supersede preserve.  It holds of the  *)
(* file and of every draft in memory, so it survives lost updates: the     *)
(* draft that wins was made from a sound file, if an old one.  So it is    *)
(* with what a history tells of its decisions (Tells).  That nothing is    *)
(* taken away rests on the copies instead: one that is not stale was made  *)
(* from the file as it still is (CopiesAreCurrent).                        *)
(*                                                                         *)
(* A harvest tells all it reads because merging two rows keeps each       *)
(* phenomenon at least as severe as it was, so that every row of the       *)
(* output stays Recorded; and a pattern counts only what there was because *)
(* every row of every pack was Seen (ExperienceInv).                       *)
(*                                                                         *)
(* What a gate lets through was measured as it is because the command      *)
(* that is running says what holds of its replays and its candidate unless *)
(* something was edited (touched) or changed after the gate began          *)
(* (drifted): GateInv carries that from its first check to its report.     *)
(*                                                                         *)
(* A score is earned because seals are honest (SealsAreHonest), a script's *)
(* lines leave no command open (UsesEnd) and reports are not removed       *)
(* (TracesAreThere): RolloutInv, of which ScoresAreEarned follows when the *)
(* score is written.                                                       *)
(***************************************************************************)
EXTENDS DecisionLedger, AgentRollout, ExperienceStore, SkillGate, FiniteSetTheorems,
        WellFoundedInduction, TLAPS

Sound(l) ==
    /\ \A d \in SupersededIds(l) :
         /\ l.decisions[d].superseded_by \in Ids
         /\ l.decisions[l.decisions[d].superseded_by].state \in {"ACCEPTED", "SUPERSEDED"}
    /\ \A S \in SUBSET SupersededIds(l) :
         S # {} => \E d \in S : l.decisions[d].superseded_by \notin S

(***************************************************************************)
(* The operations on a ledger value                                        *)
(***************************************************************************)

\* init_ledger writes a ledger of no decisions, which is sound.
LEMMA EmptySound == Empty \in Ledgers /\ Sound(Empty)
  BY DEF Empty, Ledgers, Absent, Sound, SupersededIds, IsSuperseded, Event

\* add_decision makes a ledger: a new decision that is not superseded, and a
\* superseded record for each target.
LEMMA AddType ==
  ASSUME NEW l \in Ledgers, NEW id \in Ids, NEW state \in {"PROPOSED", "ACCEPTED"},
         NEW targets \in Seq(Ids)
  PROVE  Add(l, id, state, targets) \in Ledgers
<1> DEFINE new == Add(l, id, state, targets)
           notes == [n \in 1..Len(targets) |-> Superseded(targets[n], id)]
<1>1. ASSUME NEW d \in Ids
      PROVE  new.decisions[d] \in Decision \cup {Absent}
  BY <1>1, LedgerAssumption DEF Add, Ledgers, Decision, States
<1>2. Append(l.history, Added(id)) \in Seq(Event)
  BY DEF Ledgers, Event, Added
<1>3. notes \in Seq(Event)
  BY DEF Event, Superseded
<1>4. Append(l.history, Added(id)) \o notes \in Seq(Event)
  BY <1>2, <1>3
<1> QED
  BY <1>1, <1>4 DEF Add, Ledgers

\* supersede_decision changes one record and adds one event.
LEMMA SupersedeType ==
  ASSUME NEW l \in Ledgers, NEW id \in Ids, NEW by \in Ids
  PROVE  Supersede(l, id, by) \in Ledgers
<1>1. ASSUME NEW d \in Ids
      PROVE  Supersede(l, id, by).decisions[d] \in Decision \cup {Absent}
  BY <1>1, LedgerAssumption DEF Supersede, Ledgers, Decision, States
<1>2. Append(l.history, Superseded(id, by)) \in Seq(Event)
  BY DEF Ledgers, Event, Superseded
<1> QED
  BY <1>1, <1>2 DEF Supersede, Ledgers

\* add_decision keeps every chain ending at a live accepted decision: targets
\* are only accepted by an ACCEPTED decision, and nothing pointed at the new id.
LEMMA AddSound ==
  ASSUME NEW l \in Ledgers, Sound(l), NEW id \in Ids,
         NEW state \in {"PROPOSED", "ACCEPTED"}, NEW targets \in Seq(Ids),
         NEW evidence, NEW sourced, Addable(l, id, state, evidence, sourced, targets)
  PROVE  Sound(Add(l, id, state, targets))
<1> DEFINE new == Add(l, id, state, targets)
           T == {d \in Ids : \E n \in 1..Len(targets) : targets[n] = d}
<1> USE DEF SupersededIds, IsSuperseded, Present
<1>1. id \notin T /\ \A d \in T : Present(l, d) /\ ~IsSuperseded(l, d)
  BY DEF Addable
<1>2. T # {} => state = "ACCEPTED"
  BY DEF Addable
<1>3. /\ new.decisions[id] = [state |-> state, superseded_by |-> None]
      /\ \A d \in T : new.decisions[d] = [state |-> "SUPERSEDED", superseded_by |-> id]
      /\ \A d \in Ids \ (T \cup {id}) : new.decisions[d] = l.decisions[d]
  BY <1>1 DEF Add
<1>4. l.decisions[id].state = "ABSENT"
  BY DEF Addable
<1>5. ASSUME NEW d \in SupersededIds(new)
      PROVE  d \in T \/ (d \in SupersededIds(l) /\ new.decisions[d] = l.decisions[d])
  BY <1>3, <1>5
<1>6. ASSUME NEW d \in SupersededIds(new)
      PROVE  /\ new.decisions[d].superseded_by \in Ids
             /\ new.decisions[new.decisions[d].superseded_by].state
                  \in {"ACCEPTED", "SUPERSEDED"}
  <2>1. CASE d \in T
    BY <1>2, <1>3, <2>1
  <2>2. CASE d \in SupersededIds(l) /\ new.decisions[d] = l.decisions[d]
    <3> DEFINE by == l.decisions[d].superseded_by
    <3>1. by \in Ids /\ l.decisions[by].state \in {"ACCEPTED", "SUPERSEDED"}
      BY <2>2 DEF Sound
    <3>2. by # id
      BY <3>1, <1>4
    <3>3. new.decisions[by].state \in {"ACCEPTED", "SUPERSEDED"}
      BY <3>1, <3>2, <1>3
    <3> QED BY <2>2, <3>1, <3>3
  <2> QED BY <1>5, <2>1, <2>2
<1>7. ASSUME NEW S \in SUBSET SupersededIds(new), S # {}
      PROVE  \E d \in S : new.decisions[d].superseded_by \notin S
  <2>1. CASE \E d \in S : d \in T
    <3>1. id \notin SupersededIds(new)
      BY <1>3
    <3> QED BY <1>3, <2>1, <3>1
  <2>2. CASE \A d \in S : d \notin T
    <3>1. S \in SUBSET SupersededIds(l) /\ \A d \in S : new.decisions[d] = l.decisions[d]
      BY <1>5, <2>2
    <3>2. PICK d \in S : l.decisions[d].superseded_by \notin S
      BY <1>7, <3>1 DEF Sound
    <3> QED BY <3>1, <3>2
  <2> QED BY <2>1, <2>2
<1> HIDE DEF new
<1> QED BY <1>6, <1>7 DEF Sound, new

\* supersede_decision keeps every chain ending: the replacement it checked is
\* ACCEPTED, so the new link does not close a cycle.
LEMMA SupersedeSound ==
  ASSUME NEW l \in Ledgers, Sound(l), NEW id \in Ids, NEW by \in Ids,
         Supersedable(l, id, by)
  PROVE  Sound(Supersede(l, id, by))
<1> DEFINE new == Supersede(l, id, by)
<1> USE DEF SupersededIds, IsSuperseded, Present
<1>1. /\ new.decisions[id] = [state |-> "SUPERSEDED", superseded_by |-> by]
      /\ \A d \in Ids \ {id} : new.decisions[d] = l.decisions[d]
  BY DEF Supersede, Ledgers
<1>2. by # id /\ l.decisions[by].state = "ACCEPTED"
  BY DEF Supersedable
<1>3. by \notin SupersededIds(new)
  BY <1>1, <1>2
<1>4. ASSUME NEW d \in SupersededIds(new)
      PROVE  d = id \/ (d \in SupersededIds(l) /\ new.decisions[d] = l.decisions[d])
  BY <1>1, <1>4
<1>5. ASSUME NEW d \in SupersededIds(new)
      PROVE  /\ new.decisions[d].superseded_by \in Ids
             /\ new.decisions[new.decisions[d].superseded_by].state
                  \in {"ACCEPTED", "SUPERSEDED"}
  <2>1. CASE d = id
    BY <1>1, <1>2, <2>1
  <2>2. CASE d \in SupersededIds(l) /\ new.decisions[d] = l.decisions[d]
    <3>1. /\ l.decisions[d].superseded_by \in Ids
          /\ l.decisions[l.decisions[d].superseded_by].state \in {"ACCEPTED", "SUPERSEDED"}
      BY <2>2 DEF Sound
    <3> QED BY <1>1, <2>2, <3>1
  <2> QED BY <1>4, <2>1, <2>2
<1>6. ASSUME NEW S \in SUBSET SupersededIds(new), S # {}
      PROVE  \E d \in S : new.decisions[d].superseded_by \notin S
  <2>1. CASE id \in S
    BY <1>1, <1>3, <2>1
  <2>2. CASE id \notin S
    <3>1. S \in SUBSET SupersededIds(l) /\ \A d \in S : new.decisions[d] = l.decisions[d]
      BY <1>4, <2>2
    <3>2. PICK d \in S : l.decisions[d].superseded_by \notin S
      BY <1>6, <3>1 DEF Sound
    <3> QED BY <3>1, <3>2
  <2> QED BY <2>1, <2>2
<1> HIDE DEF new
<1> QED BY <1>5, <1>6 DEF Sound, new

(***************************************************************************)
(* The history                                                             *)
(***************************************************************************)

\* What HistoryAgrees says of the file, of any ledger and without counting.
TellsOf(l, d) ==
    /\ IF Present(l, d) THEN \E m : EventsOf(l, "added", d) = {m}
                        ELSE EventsOf(l, "added", d) = {}
    /\ IF IsSuperseded(l, d) THEN \E m : EventsOf(l, "superseded", d) = {m}
                             ELSE EventsOf(l, "superseded", d) = {}
    /\ \A n \in EventsOf(l, "superseded", d) :
         /\ l.history[n].replacement = l.decisions[d].superseded_by
         /\ \E m \in EventsOf(l, "added", d) : m < n
Tells(l) == \A d \in Ids : TellsOf(l, d)

\* An event more at the end of a history leaves the earlier ones where they are,
\* and is one position more for its own kind and id.
LEMMA EventsAfterAppend ==
  ASSUME NEW l \in Ledgers, NEW e \in Event, NEW new, new.history = Append(l.history, e),
         NEW kind, NEW d
  PROVE  /\ \A n \in EventsOf(l, kind, d) :
              n \in 1..Len(l.history) /\ new.history[n] = l.history[n]
         /\ EventsOf(new, kind, d)
              = IF e.event = kind /\ e.id = d
                THEN EventsOf(l, kind, d) \cup {Len(l.history) + 1}
                ELSE EventsOf(l, kind, d)
<1>1. l.history \in Seq(Event) /\ Len(l.history) \in Nat
  BY DEF Ledgers
<1>2. /\ Len(new.history) = Len(l.history) + 1
      /\ new.history[Len(l.history) + 1] = e
      /\ \A n \in 1..Len(l.history) : new.history[n] = l.history[n]
  BY <1>1
<1>3. 1..Len(new.history) = 1..Len(l.history) \cup {Len(l.history) + 1}
  BY <1>1, <1>2
<1> QED
  BY <1>1, <1>2, <1>3 DEF EventsOf

\* Superseding a live decision leaves a history that tells of it.
LEMMA SupersedeTells ==
  ASSUME NEW l \in Ledgers, Tells(l), NEW id \in Ids, NEW by \in Ids,
         Present(l, id), ~IsSuperseded(l, id)
  PROVE  Tells(Supersede(l, id, by))
<1> DEFINE new == Supersede(l, id, by)
<1>1. new \in Ledgers
  BY SupersedeType
<1>2. new.history = Append(l.history, Superseded(id, by))
  BY DEF Supersede
<1>3. /\ new.decisions[id] = [state |-> "SUPERSEDED", superseded_by |-> by]
      /\ \A d \in Ids \ {id} : new.decisions[d] = l.decisions[d]
  BY DEF Supersede, Ledgers
<1>4. /\ Superseded(id, by) \in Event
      /\ Superseded(id, by).event = "superseded"
      /\ Superseded(id, by).id = id
      /\ Superseded(id, by).replacement = by
  BY DEF Superseded, Event
<1>5. l.history \in Seq(Event) /\ Len(l.history) \in Nat
  BY DEF Ledgers
<1>6. new.history[Len(l.history) + 1] = Superseded(id, by)
  BY <1>2, <1>5
<1> HIDE DEF new
<1>7. \A d : EventsOf(new, "added", d) = EventsOf(l, "added", d)
  BY <1>2, <1>4, EventsAfterAppend
<1>8. EventsOf(new, "superseded", id) = {Len(l.history) + 1}
  <2>1. EventsOf(l, "superseded", id) = {}
    BY DEF Tells, TellsOf
  <2>2. EventsOf(new, "superseded", id)
          = EventsOf(l, "superseded", id) \cup {Len(l.history) + 1}
    BY <1>2, <1>4, EventsAfterAppend
  <2> QED BY <2>1, <2>2
<1>9. ASSUME NEW d \in Ids, d # id
      PROVE  /\ EventsOf(new, "superseded", d) = EventsOf(l, "superseded", d)
             /\ \A n \in EventsOf(l, "superseded", d) : new.history[n] = l.history[n]
  BY <1>2, <1>4, <1>9, EventsAfterAppend
<1>10. ASSUME NEW n \in EventsOf(l, "added", id) PROVE n < Len(l.history) + 1
  BY <1>5 DEF EventsOf
<1>11. ASSUME NEW d \in Ids
       PROVE  /\ IF Present(new, d) THEN \E m : EventsOf(new, "added", d) = {m}
                                    ELSE EventsOf(new, "added", d) = {}
              /\ IF IsSuperseded(new, d) THEN \E m : EventsOf(new, "superseded", d) = {m}
                                         ELSE EventsOf(new, "superseded", d) = {}
              /\ \A n \in EventsOf(new, "superseded", d) :
                   /\ new.history[n].replacement = new.decisions[d].superseded_by
                   /\ \E m \in EventsOf(new, "added", d) : m < n
  <2>1. CASE d = id
    <3>1. Present(new, id) /\ IsSuperseded(new, id)
      BY <1>3 DEF Present, IsSuperseded
    <3>2. \E m : EventsOf(l, "added", id) = {m}
      BY DEF Tells, TellsOf
    <3>3. /\ new.history[Len(l.history) + 1].replacement = new.decisions[id].superseded_by
          /\ \E m \in EventsOf(new, "added", id) : m < Len(l.history) + 1
      BY <1>3, <1>4, <1>6, <1>7, <1>10, <3>2
    <3> QED BY <2>1, <1>7, <1>8, <3>1, <3>2, <3>3
  <2>2. CASE d # id
    <3>1. Present(new, d) = Present(l, d) /\ IsSuperseded(new, d) = IsSuperseded(l, d)
      BY <1>3, <2>2 DEF Present, IsSuperseded
    <3> QED BY <1>3, <1>7, <1>9, <2>2, <3>1 DEF Tells, TellsOf
  <2> QED BY <2>1, <2>2
<1> QED BY <1>11 DEF Tells, TellsOf, new

\* A new decision that supersedes nothing is told of by one event more.
LEMMA AddAloneTells ==
  ASSUME NEW l \in Ledgers, Tells(l), NEW id \in Ids, NEW state \in {"PROPOSED", "ACCEPTED"},
         ~Present(l, id)
  PROVE  Tells(Add(l, id, state, <<>>))
<1> DEFINE new == Add(l, id, state, <<>>)
<1>1. new \in Ledgers
  <2>1. <<>> \in Seq(Ids)
    OBVIOUS
  <2> QED BY <2>1, AddType
<1>2. new.history = Append(l.history, Added(id))
  <2>1. Append(l.history, Added(id)) \in Seq(Event)
    BY DEF Ledgers, Event, Added
  <2>2. [n \in 1..Len(<<>>) |-> Superseded(<<>>[n], id)] = <<>>
    OBVIOUS
  <2> QED BY <2>1, <2>2 DEF Add
<1>3. /\ new.decisions[id] = [state |-> state, superseded_by |-> None]
      /\ \A d \in Ids \ {id} : new.decisions[d] = l.decisions[d]
  BY DEF Add
<1>4. /\ Added(id) \in Event
      /\ Added(id).event = "added"
      /\ Added(id).id = id
  BY DEF Added, Event
<1> HIDE DEF new
<1>5. \A d : /\ EventsOf(new, "superseded", d) = EventsOf(l, "superseded", d)
             /\ \A n \in EventsOf(l, "superseded", d) : new.history[n] = l.history[n]
  BY <1>2, <1>4, EventsAfterAppend
<1>6. EventsOf(new, "added", id) = {Len(l.history) + 1}
  <2>1. EventsOf(l, "added", id) = {}
    BY DEF Tells, TellsOf
  <2>2. EventsOf(new, "added", id) = EventsOf(l, "added", id) \cup {Len(l.history) + 1}
    BY <1>2, <1>4, EventsAfterAppend
  <2> QED BY <2>1, <2>2
<1>7. ASSUME NEW d \in Ids, d # id
      PROVE  EventsOf(new, "added", d) = EventsOf(l, "added", d)
  BY <1>2, <1>4, <1>7, EventsAfterAppend
<1>8. ASSUME NEW d \in Ids
      PROVE  /\ IF Present(new, d) THEN \E m : EventsOf(new, "added", d) = {m}
                                   ELSE EventsOf(new, "added", d) = {}
             /\ IF IsSuperseded(new, d) THEN \E m : EventsOf(new, "superseded", d) = {m}
                                        ELSE EventsOf(new, "superseded", d) = {}
             /\ \A n \in EventsOf(new, "superseded", d) :
                  /\ new.history[n].replacement = new.decisions[d].superseded_by
                  /\ \E m \in EventsOf(new, "added", d) : m < n
  <2>1. CASE d = id
    <3>1. Present(new, id) /\ ~IsSuperseded(new, id)
      BY <1>3 DEF Present, IsSuperseded
    <3>2. ~IsSuperseded(l, id)
      BY DEF Present, IsSuperseded
    <3>3. EventsOf(new, "superseded", id) = {}
      BY <1>5, <3>2 DEF Tells, TellsOf
    <3> QED BY <2>1, <1>6, <3>1, <3>3
  <2>2. CASE d # id
    <3>1. Present(new, d) = Present(l, d) /\ IsSuperseded(new, d) = IsSuperseded(l, d)
      BY <1>3, <2>2 DEF Present, IsSuperseded
    <3>2. /\ EventsOf(new, "superseded", d) = EventsOf(l, "superseded", d)
          /\ EventsOf(new, "added", d) = EventsOf(l, "added", d)
          /\ new.decisions[d] = l.decisions[d]
          /\ \A n \in EventsOf(l, "superseded", d) : new.history[n] = l.history[n]
      BY <1>3, <1>5, <1>7, <2>2
    <3> QED BY <3>1, <3>2 DEF Tells, TellsOf
  <2> QED BY <2>1, <2>2
<1> QED BY <1>8 DEF Tells, TellsOf, new

\* Superseding several live decisions at once, each once, leaves a history that tells of
\* them.
LEMMA SupersedingTells ==
  ASSUME NEW l \in Ledgers, Tells(l), NEW by \in Ids, NEW targets \in Seq(Ids), IsInjective(targets),
         \A n \in 1..Len(targets) : Present(l, targets[n]) /\ ~IsSuperseded(l, targets[n]),
         NEW new \in Ledgers,
         new.history = l.history \o [n \in 1..Len(targets) |-> Superseded(targets[n], by)],
         \A n \in 1..Len(targets) :
            new.decisions[targets[n]] = [state |-> "SUPERSEDED", superseded_by |-> by],
         \A d \in Ids : (\A n \in 1..Len(targets) : targets[n] # d) => new.decisions[d] = l.decisions[d]
  PROVE  Tells(new)
<1> DEFINE L == Len(l.history)
           K == Len(targets)
           notes == [n \in 1..K |-> Superseded(targets[n], by)]
<1>1. /\ l.history \in Seq(Event) /\ L \in Nat /\ K \in Nat
      /\ notes \in Seq(Event) /\ Len(notes) = K
  BY DEF Ledgers, Superseded, Event
<1>2. /\ Len(new.history) = L + K
      /\ \A n \in 1..L : new.history[n] = l.history[n]
      /\ \A n \in 1..K : new.history[L + n] = Superseded(targets[n], by)
  BY <1>1
<1>3. ASSUME NEW d, NEW n \in 1..L, NEW kind
      PROVE  n \in EventsOf(new, kind, d) <=> n \in EventsOf(l, kind, d)
  BY <1>1, <1>2 DEF EventsOf
<1>4. ASSUME NEW d, NEW n \in 1..K
      PROVE  /\ L + n \notin EventsOf(new, "added", d)
             /\ L + n \in EventsOf(new, "superseded", d) <=> targets[n] = d
  BY <1>1, <1>2 DEF EventsOf, Superseded
<1>5. ASSUME NEW d, NEW kind, NEW m \in EventsOf(new, kind, d)
      PROVE  m \in 1..L \/ \E n \in 1..K : m = L + n
  <2>1. m \in 1..(L + K)
    BY <1>2 DEF EventsOf
  <2>2. CASE m > L
    <3>1. m - L \in 1..K /\ m = L + (m - L)
      BY <1>1, <2>1, <2>2
    <3> QED BY <3>1
  <2> QED BY <1>1, <2>1, <2>2
<1>6. \A d, kind : EventsOf(l, kind, d) \subseteq 1..L
  BY DEF EventsOf
<1> HIDE DEF L, K, notes
<1>7. ASSUME NEW d PROVE EventsOf(new, "added", d) = EventsOf(l, "added", d)
  <2>1. ASSUME NEW m \in EventsOf(new, "added", d) PROVE m \in EventsOf(l, "added", d)
    <3>1. ASSUME NEW n \in 1..K, m = L + n PROVE FALSE
      BY <1>4, <2>1, <3>1
    <3>2. m \in 1..L
      BY <1>5, <3>1
    <3> QED BY <1>3, <2>1, <3>2
  <2>2. ASSUME NEW m \in EventsOf(l, "added", d) PROVE m \in EventsOf(new, "added", d)
    <3>1. m \in 1..L
      BY <1>6
    <3> QED BY <1>3, <3>1
  <2> QED BY <2>1, <2>2
<1>8. ASSUME NEW d \in Ids PROVE TellsOf(new, d)
  <2>1. ASSUME NEW k \in 1..K, targets[k] = d
        PROVE  TellsOf(new, d)
    <3>1. Present(l, d) /\ ~IsSuperseded(l, d)
      BY <2>1 DEF K
    <3>2. new.decisions[d] = [state |-> "SUPERSEDED", superseded_by |-> by]
      BY <2>1 DEF K
    <3>3. Present(new, d) /\ IsSuperseded(new, d)
      BY <3>2 DEF Present, IsSuperseded
    <3>4. EventsOf(l, "superseded", d) = {}
      BY <3>1 DEF Tells, TellsOf
    <3>5. \A n \in 1..K : targets[n] = d => n = k
      BY <2>1 DEF IsInjective, K
    <3>6. EventsOf(new, "superseded", d) = {L + k}
      <4>1. ASSUME NEW m \in EventsOf(new, "superseded", d) PROVE m = L + k
        <5>1. m \notin 1..L
          BY <1>3, <3>4
        <5>2. PICK n \in 1..K : m = L + n
          BY <1>5, <5>1
        <5>3. targets[n] = d
          BY <1>4, <5>2
        <5> QED BY <3>5, <5>2, <5>3
      <4>2. L + k \in EventsOf(new, "superseded", d)
        BY <1>4, <2>1
      <4> QED BY <4>1, <4>2
    <3>7. PICK m : EventsOf(l, "added", d) = {m}
      BY <3>1 DEF Tells, TellsOf
    <3>8. m < L + k
      <4>1. m \in 1..L /\ k \in 1..K
        BY <1>6, <2>1, <3>7
      <4> QED BY <1>1, <4>1
    <3>9. new.history[L + k].replacement = by
      <4>1. new.history[L + k] = Superseded(targets[k], by)
        BY <1>2, <2>1
      <4>2. \A e : Superseded(e, by).replacement = by
        BY DEF Superseded
      <4> QED BY <4>1, <4>2
    <3>10. EventsOf(new, "added", d) = {m}
      BY <1>7, <3>7
    <3>11. new.history[L + k].replacement = new.decisions[d].superseded_by
      <4>1. new.decisions[d].superseded_by = by
        BY <3>2
      <4> QED BY <3>9, <4>1
    <3> QED BY <3>3, <3>6, <3>8, <3>10, <3>11 DEF TellsOf
  <2>2. ASSUME \A n \in 1..K : targets[n] # d
        PROVE  TellsOf(new, d)
    <3>1. new.decisions[d] = l.decisions[d]
      BY <2>2 DEF K
    <3>2. Present(new, d) = Present(l, d) /\ IsSuperseded(new, d) = IsSuperseded(l, d)
      BY <3>1 DEF Present, IsSuperseded
    <3>3. EventsOf(new, "superseded", d) = EventsOf(l, "superseded", d)
      <4>1. ASSUME NEW m \in EventsOf(new, "superseded", d) PROVE m \in EventsOf(l, "superseded", d)
        <5>1. ASSUME NEW n \in 1..K, m = L + n PROVE FALSE
          BY <1>4, <2>2, <4>1, <5>1
        <5>2. m \in 1..L
          BY <1>5, <5>1
        <5> QED BY <1>3, <4>1, <5>2
      <4>2. ASSUME NEW m \in EventsOf(l, "superseded", d) PROVE m \in EventsOf(new, "superseded", d)
        <5>1. m \in 1..L
          BY <1>6
        <5> QED BY <1>3, <5>1
      <4> QED BY <4>1, <4>2
    <3>4. \A n \in EventsOf(l, "superseded", d) : new.history[n] = l.history[n]
      BY <1>2, <1>6
    <3> QED BY <1>7, <3>1, <3>2, <3>3, <3>4 DEF Tells, TellsOf
  <2> QED BY <2>1, <2>2
<1> QED BY <1>8 DEF Tells, TellsOf

\* The lists of superseded decisions.
LEMMA TargetTypes ==
  ASSUME NEW targets \in TargetLists PROVE targets \in Seq(Ids) /\ IsInjective(targets)
<1>1. PICK n \in 0..Cardinality(Ids) : targets \in [1..n -> Ids]
  BY DEF TargetLists
<1>2. n \in Nat
  OBVIOUS
<1> QED BY <1>1, <1>2 DEF TargetLists

\* add_decision leaves a history that tells of the decision and of what it
\* supersedes.
LEMMA AddTells ==
  ASSUME NEW l \in Ledgers, Tells(l), NEW id \in Ids, NEW state \in {"PROPOSED", "ACCEPTED"},
         NEW targets \in TargetLists, NEW evidence, NEW sourced,
         Addable(l, id, state, evidence, sourced, targets)
  PROVE  Tells(Add(l, id, state, targets))
<1> DEFINE alone == Add(l, id, state, <<>>)
           new == Add(l, id, state, targets)
<1>1. targets \in Seq(Ids) /\ IsInjective(targets)
  BY TargetTypes
<1>2. alone \in Ledgers /\ new \in Ledgers
  <2>1. <<>> \in Seq(Ids)
    OBVIOUS
  <2> QED BY <1>1, <2>1, AddType
<1>3. Tells(alone)
  BY AddAloneTells DEF Addable
<1>4. new.history = alone.history \o [n \in 1..Len(targets) |-> Superseded(targets[n], id)]
  <2>1. alone.history = Append(l.history, Added(id))
    <3>1. Append(l.history, Added(id)) \in Seq(Event)
      BY DEF Ledgers, Event, Added
    <3>2. [n \in 1..Len(<<>>) |-> Superseded(<<>>[n], id)] = <<>>
      OBVIOUS
    <3> QED BY <3>1, <3>2 DEF Add
  <2> QED BY <2>1 DEF Add
<1>5. \A n \in 1..Len(targets) : /\ targets[n] \in Ids \ {id}
                                 /\ Present(l, targets[n]) /\ ~IsSuperseded(l, targets[n])
  BY <1>1 DEF Addable
<1>6. \A d \in Ids \ {id} : alone.decisions[d] = l.decisions[d]
  BY DEF Add
<1>7. \A n \in 1..Len(targets) : Present(alone, targets[n]) /\ ~IsSuperseded(alone, targets[n])
  BY <1>5, <1>6 DEF Present, IsSuperseded
<1>8. \A n \in 1..Len(targets) :
        new.decisions[targets[n]] = [state |-> "SUPERSEDED", superseded_by |-> id]
  BY <1>5 DEF Add
<1>9. ASSUME NEW d \in Ids, \A n \in 1..Len(targets) : targets[n] # d
      PROVE  new.decisions[d] = alone.decisions[d]
  BY <1>9 DEF Add
<1> HIDE DEF alone, new
<1> QED BY <1>1, <1>2, <1>3, <1>4, <1>7, <1>8, <1>9, SupersedingTells DEF new

\* In a history that tells of its ledger the events can be counted.
LEMMA TellsCounts ==
  ASSUME NEW l \in Ledgers, Tells(l), NEW d \in Ids
  PROVE  /\ Cardinality(EventsOf(l, "added", d)) = IF Present(l, d) THEN 1 ELSE 0
         /\ Cardinality(EventsOf(l, "superseded", d)) = IF IsSuperseded(l, d) THEN 1 ELSE 0
<1>1. Cardinality({}) = 0 /\ \A m : Cardinality({m}) = 1
  BY FS_EmptySet, FS_Singleton
<1> QED BY <1>1 DEF Tells, TellsOf

(***************************************************************************)
(* What a command keeps of the ledger it read                              *)
(***************************************************************************)
Keeps(l, m) ==
    \A d \in Ids :
        /\ Present(l, d) => Present(m, d)
        /\ IsSuperseded(l, d) => IsSuperseded(m, d)

\* add_decision takes nothing away and revives nothing.
LEMMA AddKeeps ==
  ASSUME NEW l \in Ledgers, NEW id \in Ids, NEW state \in {"PROPOSED", "ACCEPTED"},
         NEW targets \in Seq(Ids), NEW evidence, NEW sourced,
         Addable(l, id, state, evidence, sourced, targets)
  PROVE  Keeps(l, Add(l, id, state, targets))
<1>1. ~Present(l, id) /\ ~IsSuperseded(l, id)
  BY DEF Addable, Present, IsSuperseded
<1> QED BY <1>1 DEF Keeps, Add, Present, IsSuperseded

\* supersede_decision takes nothing away and revives nothing.
LEMMA SupersedeKeeps ==
  ASSUME NEW l \in Ledgers, NEW id \in Ids, NEW by \in Ids
  PROVE  Keeps(l, Supersede(l, id, by))
  BY DEF Keeps, Supersede, Ledgers, Present, IsSuperseded

(***************************************************************************)
(* The inductive invariant                                                 *)
(***************************************************************************)
SoundEverywhere ==
    /\ ledger # None => Sound(ledger) /\ Tells(ledger)
    /\ \A w \in Writers : Sound(draft[w]) /\ Tells(draft[w])

\* A copy that is not stale was made from the file as it still is.
CopiesAreCurrent ==
    \A w \in Writers :
        pc[w] # "idle" /\ w \notin stale /\ ledger # None => Keeps(ledger, draft[w])

IInv == TypeOK /\ SoundEverywhere /\ CopiesAreCurrent

\* A ledger of no decisions has no events.
LEMMA EmptyTells == Tells(Empty)
<1>1. \A kind, d : EventsOf(Empty, kind, d) = {}
  BY DEF Empty, EventsOf
<1> QED BY <1>1 DEF Tells, TellsOf, Empty, Absent, Present, IsSuperseded

\* The empty file system is typed and has nothing unsound in it.
LEMMA InitHolds == Init => IInv
  BY OpsAssumption, EmptySound, EmptyTells
  DEF Init, IInv, TypeOK, SoundEverywhere, CopiesAreCurrent

\* The next state is sound everywhere when its file and its drafts are.
LEMMA SoundNext ==
  ASSUME ledger' # None => Sound(ledger') /\ Tells(ledger'),
         \A w \in Writers : Sound(draft'[w]) /\ Tells(draft'[w])
  PROVE  SoundEverywhere'
<1>1. ASSUME ledger' # None PROVE (Sound(ledger))'
  BY <1>1 DEF Sound, SupersededIds, IsSuperseded
<1>2. ASSUME ledger' # None PROVE (Tells(ledger))'
  BY <1>2 DEF Tells, TellsOf, Present, IsSuperseded, EventsOf
<1>3. ASSUME NEW w \in Writers PROVE (Sound(draft[w]))'
  <2>1. Sound(draft'[w])
    OBVIOUS
  <2> QED BY <2>1 DEF Sound, SupersededIds, IsSuperseded
<1>4. ASSUME NEW w \in Writers PROVE (Tells(draft[w]))'
  <2>1. Tells(draft'[w])
    OBVIOUS
  <2> QED BY <2>1 DEF Tells, TellsOf, Present, IsSuperseded, EventsOf
<1> QED BY <1>1, <1>2, <1>3, <1>4 DEF SoundEverywhere

\* A command that read the file leaves the file alone and has a sound draft of it.
LEMMA BeginHolds ==
  ASSUME IInv, NEW w \in Writers, NEW to \in {"creating", "writing"},
         NEW l \in Ledgers, Sound(l), Tells(l), ledger # None => Keeps(ledger, l),
         Begin(w, to, l)
  PROVE  IInv'
<1>1. TypeOK'
  BY OpsAssumption DEF IInv, TypeOK, Begin
<1>2. /\ ledger' = ledger
      /\ draft'[w] = l
      /\ \A v \in Writers \ {w} :
           draft'[v] = draft[v] /\ pc'[v] = pc[v] /\ (v \in stale' <=> v \in stale)
  BY DEF IInv, TypeOK, Begin
<1>3. ASSUME NEW v \in Writers
      PROVE  Sound(draft'[v]) /\ Tells(draft'[v])
  BY <1>2 DEF IInv, SoundEverywhere
<1>4. ASSUME NEW v \in Writers, pc'[v] # "idle", v \notin stale', ledger' # None
      PROVE  Keeps(ledger', draft'[v])
  BY <1>2, <1>4 DEF IInv, CopiesAreCurrent
<1>5. SoundEverywhere'
  <2>1. ledger' # None => Sound(ledger') /\ Tells(ledger')
    BY <1>2 DEF IInv, SoundEverywhere
  <2> QED BY <2>1, <1>3, SoundNext
<1>6. CopiesAreCurrent'
  BY <1>4 DEF CopiesAreCurrent, Keeps, Present, IsSuperseded
<1> QED BY <1>1, <1>5, <1>6 DEF IInv

\* Each action keeps the file and the drafts sound.
LEMMA StepHolds == IInv /\ [Next]_vars => IInv'
<1> SUFFICES ASSUME IInv, [Next]_vars PROVE IInv'
  OBVIOUS
<1>1. ASSUME NEW w \in Writers, StartInit(w) PROVE IInv'
  BY <1>1, EmptySound, EmptyTells, BeginHolds DEF StartInit
<1>2. ASSUME NEW w \in Writers, StartAdd(w) PROVE IInv'
  <2>1. PICK id \in Ids, state \in {"PROPOSED", "ACCEPTED"}, evidence \in EvidenceStates,
             sourced \in BOOLEAN, targets \in TargetLists :
          /\ Addable(ledger, id, state, evidence, sourced, targets)
          /\ Begin(w, "writing", Add(ledger, id, state, targets))
    BY <1>2 DEF StartAdd
  <2>2. targets \in Seq(Ids)
    BY TargetTypes
  <2>3. ledger \in Ledgers /\ Sound(ledger) /\ Tells(ledger)
    BY <1>2 DEF StartAdd, IInv, TypeOK, SoundEverywhere
  <2>4. Add(ledger, id, state, targets) \in Ledgers
    BY <2>2, <2>3, AddType
  <2>5. Sound(Add(ledger, id, state, targets))
    BY <2>1, <2>2, <2>3, AddSound
  <2>6. Tells(Add(ledger, id, state, targets))
    BY <2>1, <2>3, AddTells
  <2>7. Keeps(ledger, Add(ledger, id, state, targets))
    BY <2>1, <2>2, <2>3, AddKeeps
  <2> QED BY <2>1, <2>4, <2>5, <2>6, <2>7, BeginHolds
<1>3. ASSUME NEW w \in Writers, StartSupersede(w) PROVE IInv'
  <2>1. PICK id \in Ids, by \in Ids :
          /\ Supersedable(ledger, id, by)
          /\ Begin(w, "writing", Supersede(ledger, id, by))
    BY <1>3 DEF StartSupersede
  <2>2. ledger \in Ledgers /\ Sound(ledger) /\ Tells(ledger)
    BY <1>3 DEF StartSupersede, IInv, TypeOK, SoundEverywhere
  <2>3. Supersede(ledger, id, by) \in Ledgers
    BY <2>2, SupersedeType
  <2>4. Sound(Supersede(ledger, id, by))
    BY <2>1, <2>2, SupersedeSound
  <2>5. Tells(Supersede(ledger, id, by))
    BY <2>1, <2>2, SupersedeTells DEF Supersedable
  <2>6. Keeps(ledger, Supersede(ledger, id, by))
    BY <2>2, SupersedeKeeps
  <2> QED BY <2>1, <2>3, <2>4, <2>5, <2>6, BeginHolds
<1>4. ASSUME NEW w \in Writers, Write(w) PROVE IInv'
  <2>1. TypeOK'
    BY <1>4, EmptySound DEF IInv, TypeOK, Write
  <2>2. Sound(ledger') /\ Tells(ledger')
    BY <1>4 DEF Write, IInv, TypeOK, SoundEverywhere
  <2>3. \A v \in Writers : Sound(draft'[v]) /\ Tells(draft'[v])
    BY <1>4, EmptySound, EmptyTells DEF Write, IInv, TypeOK, SoundEverywhere
  <2>4. SoundEverywhere'
    BY <2>2, <2>3, SoundNext
  <2>5. \A v \in Writers : pc'[v] = "idle" \/ v \in stale'
    BY <1>4 DEF Write, IInv, TypeOK
  <2>6. CopiesAreCurrent'
    BY <2>5 DEF CopiesAreCurrent
  <2> QED BY <2>1, <2>4, <2>6 DEF IInv
<1>5. ASSUME NEW w \in Writers, Crash(w) PROVE IInv'
  <2>1. TypeOK'
    BY <1>5, EmptySound DEF IInv, TypeOK, Crash
  <2>2. \A v \in Writers : Sound(draft'[v]) /\ Tells(draft'[v])
    BY <1>5, EmptySound, EmptyTells DEF Crash, IInv, TypeOK, SoundEverywhere
  <2>3. SoundEverywhere'
    <3>1. ledger' # None => Sound(ledger') /\ Tells(ledger')
      BY <1>5 DEF Crash, IInv, SoundEverywhere
    <3> QED BY <2>2, <3>1, SoundNext
  <2>4. /\ ledger' = ledger
        /\ pc'[w] = "idle"
        /\ \A v \in Writers \ {w} :
             draft'[v] = draft[v] /\ pc'[v] = pc[v] /\ (v \in stale' <=> v \in stale)
    BY <1>5 DEF Crash, IInv, TypeOK
  <2>5. \A v \in Writers :
          pc'[v] # "idle" /\ v \notin stale' /\ ledger' # None => Keeps(ledger', draft'[v])
    BY <2>4 DEF IInv, CopiesAreCurrent
  <2>6. CopiesAreCurrent'
    BY <2>5 DEF CopiesAreCurrent, Keeps, Present, IsSuperseded
  <2> QED BY <2>1, <2>3, <2>6 DEF IInv
<1>6. CASE UNCHANGED vars
  <2>1. TypeOK' /\ CopiesAreCurrent'
    BY <1>6 DEF vars, IInv, TypeOK, CopiesAreCurrent, Keeps, Present, IsSuperseded
  <2>2. SoundEverywhere'
    BY <1>6, SoundNext DEF vars, IInv, SoundEverywhere
  <2> QED BY <2>1, <2>2 DEF IInv
<1> QED BY <1>1, <1>2, <1>3, <1>4, <1>5, <1>6 DEF Next

\* In every state of every run the file and all drafts are typed and sound.
THEOREM Invariance == Spec => []IInv
  BY InitHolds, StepHolds, PTL DEF Spec

(***************************************************************************)
(* The results                                                             *)
(***************************************************************************)

\* The file is absent or a ledger whose records are superseded exactly when they
\* name a replacement, whatever commands overlap or die.
THEOREM TypeCorrect == Spec => []TypeOK
<1>1. IInv => TypeOK
  BY DEF IInv
<1> QED BY <1>1, Invariance, PTL

\* From any superseded decision of the file, following the replacements reaches
\* a live accepted decision, even after updates were lost to overlapping
\* writers: `aet decision` never publishes a cycle or a dangling link.
THEOREM ChainsAlwaysEnd == Spec => []ChainsEndAccepted
<1>1. IInv => ChainsEndAccepted
  BY DEF IInv, SoundEverywhere, Sound, ChainsEndAccepted
<1> QED BY <1>1, Invariance, PTL

\* Every history a command ever publishes tells what became of each decision:
\* added once, superseded once at most, by the decision the record names, and not
\* before it was added; lost updates lose record and events together.
THEOREM HistoryAlwaysAgrees == Spec => []HistoryAgrees
<1>1. IInv => HistoryAgrees
  <2> SUFFICES ASSUME IInv, ledger # None, NEW d \in Ids
               PROVE  /\ Cardinality(EventsOf(ledger, "added", d))
                            = IF Present(ledger, d) THEN 1 ELSE 0
                      /\ Cardinality(EventsOf(ledger, "superseded", d))
                            = IF IsSuperseded(ledger, d) THEN 1 ELSE 0
                      /\ \A n \in EventsOf(ledger, "superseded", d) :
                           /\ ledger.history[n].replacement
                                = ledger.decisions[d].superseded_by
                           /\ \E m \in EventsOf(ledger, "added", d) : m < n
    BY DEF HistoryAgrees
  <2>1. ledger \in Ledgers /\ Tells(ledger)
    BY DEF IInv, TypeOK, SoundEverywhere
  <2>2. \A n \in EventsOf(ledger, "superseded", d) :
           /\ ledger.history[n].replacement = ledger.decisions[d].superseded_by
           /\ \E m \in EventsOf(ledger, "added", d) : m < n
    BY <2>1 DEF Tells, TellsOf
  <2> QED BY <2>1, <2>2, TellsCounts
<1> QED BY <1>1, Invariance, PTL

\* What is in the file is lost, or comes back to life, only by the write of a copy
\* that another write has made stale, whatever the number of writers and crashes.
THEOREM DecisionsAlwaysEndure == Spec => DecisionsEndure
<1>1. ASSUME IInv, NEW w \in Writers, Write(w), w \notin stale, ledger # None
      PROVE  Keeps(ledger, ledger')
  <2>1. pc[w] # "idle" /\ ledger' = draft[w]
    BY <1>1 DEF Write
  <2>2. Keeps(ledger, draft[w])
    BY <1>1, <2>1 DEF IInv, CopiesAreCurrent
  <2> QED BY <2>1, <2>2 DEF Keeps, Present, IsSuperseded
<1>2. IInv =>
        [\A w \in Writers :
           (Write(w) /\ w \notin stale /\ ledger # None) =>
              \A d \in Ids :
                /\ Present(ledger, d) => Present(ledger', d)
                /\ IsSuperseded(ledger, d) => IsSuperseded(ledger', d)]_vars
  BY <1>1 DEF Keeps
<1> QED BY <1>2, Invariance, PTL DEF DecisionsEndure

(***************************************************************************)
(* Experiences: what a harvest reads is told in what it writes             *)
(***************************************************************************)

\* There are three severities, and what is severe at all is not PASS.
LEMMA Severities ==
  ASSUME NEW status
  PROVE  /\ Severity(status) \in 0..2
         /\ Severity(status) >= 1 <=> status \in Bad
  BY DEF Severity, Bad

\* _merge_phenomena keeps every code, as severe as it ever was.
LEMMA MergeKeeps ==
  ASSUME NEW P, NEW p \in P
  PROVE  \E q \in MergePhenomena(P) : q[1] = p[1] /\ Severity(q[2]) >= Severity(p[2])
<1> DEFINE same == {q \in P : q[1] = p[1]}
           most(q) == \A x \in same : Severity(x[2]) <= Severity(q[2])
<1>1. \A q \in same : Severity(q[2]) \in 0..2
  BY Severities
<1>2. \E q \in same : most(q)
  <2>1. CASE \E q \in same : Severity(q[2]) = 2
    BY <1>1, <2>1
  <2>2. CASE (\A q \in same : Severity(q[2]) # 2) /\ \E q \in same : Severity(q[2]) = 1
    BY <1>1, <2>2
  <2>3. CASE \A q \in same : Severity(q[2]) = 0
    BY <2>3
  <2> QED BY <1>1, <2>1, <2>2, <2>3
<1>3. PICK q \in same : most(q)
  BY <1>2
<1>4. q \in MergePhenomena(P)
  BY <1>3 DEF MergePhenomena
<1> QED BY <1>3, <1>4

\* _deduplicate_normalized drops a report only for an equal one.
LEMMA DistinctKeeps ==
  ASSUME NEW children, NEW c \in children
  PROVE  \E d \in Distinct(children) : d.report = c.report
<1> DEFINE same == {d \in children : Identity(d) = Identity(c)}
           rank(d) == Severity(d.context.wrapper)
           most(d) == \A x \in same : rank(x) <= rank(d)
<1>1. \A d \in same : rank(d) \in 0..2
  BY Severities
<1>2. \E d \in same : most(d)
  <2> HIDE DEF rank
  <2>1. CASE \E d \in same : rank(d) = 2
    BY <1>1, <2>1
  <2>2. CASE (\A d \in same : rank(d) # 2) /\ \E d \in same : rank(d) = 1
    BY <1>1, <2>2
  <2>3. CASE \A d \in same : rank(d) = 0
    BY <2>3
  <2> QED BY <1>1, <2>1, <2>2, <2>3
<1>3. PICK d \in same : most(d)
  BY <1>2
<1>4. d \in Distinct(children)
  BY <1>3 DEF Distinct
<1>5. d.report = c.report
  BY <1>3 DEF Identity
<1> QED BY <1>4, <1>5

\* _evidence_pack_reports has every report of the pack that harvest reads.
LEMMA PackTold ==
  ASSUME NEW pack, NEW context, NEW r \in PackHolds(pack)
  PROVE  \E c \in PackReports(pack, context) : c.report = r
<1>1. PICK d \in pack.components : Told(d) /\ r = d.report
  BY DEF PackHolds
<1> DEFINE child == [report |-> IF Told(d) THEN d.report ELSE Component(d.status, pack.date),
                     context |-> Wrapped(context, pack, d)]
<1>2. child \in PackReports(pack, context)
  BY <1>1 DEF PackReports
<1>3. child.report = r
  BY <1>1
<1> QED BY <1>2, <1>3

\* _normalized_reports has every report of an artifact, whatever it is inside of.
LEMMA ReportKept ==
  ASSUME NEW a, NEW r \in ReportsIn(a)
  PROVE  \E c \in Children(a) : c.report = r
<1>1. CASE a.kind = "evidence_pack"
  <2>1. r \in PackHolds(a)
    BY <1>1 DEF ReportsIn
  <2>2. PICK c \in PackReports(a, Context(<<"pack", "top", "-">>, "UNKNOWN", a.date)) : c.report = r
    BY <2>1, PackTold
  <2> QED BY <1>1, <2>2, DistinctKeeps DEF Children
<1>2. CASE a.kind = "aet_run"
  <2>1. PICK e \in {f \in a.entries : f.report.kind \in HarvestKinds} :
             r \in IF e.report.kind = "evidence_pack" THEN PackHolds(e.report) ELSE {e.report}
    BY <1>2 DEF ReportsIn
  <2> DEFINE context == Context(<<"run", e.name, "-">>, a.repo, a.date)
             read == IF e.report.kind = "evidence_pack" THEN PackReports(e.report, context)
                     ELSE {[report |-> e.report, context |-> context]}
  <2>2. \E c \in read : c.report = r
    <3>1. CASE e.report.kind = "evidence_pack"
      BY <2>1, <3>1, PackTold
    <3>2. CASE e.report.kind # "evidence_pack"
      <4>1. r = e.report
        BY <2>1, <3>2
      <4>2. [report |-> e.report, context |-> context].report = r
        BY <4>1
      <4> QED BY <3>2, <4>2
    <3> QED BY <3>1, <3>2
  <2>3. read \subseteq RunReports(a)
    BY <2>1 DEF RunReports
  <2>4. PICK c \in RunReports(a) : c.report = r
    BY <2>2, <2>3
  <2> QED BY <1>2, <2>4, DistinctKeeps DEF Children
<1>3. CASE a.kind = "learning_observed_replay"
  <2>1. PICK pair \in a.pairs : \E v \in DOMAIN pair.scores : r = ScoreOf(pair, v)
    BY <1>3 DEF ReportsIn
  <2>2. PICK v \in DOMAIN pair.scores : r = ScoreOf(pair, v)
    BY <2>1
  <2> DEFINE child == [report |-> ScoreOf(pair, v), context |-> Paired(a, pair, v)]
  <2>3. child \in ReplayReports(a)
    BY <2>2 DEF ReplayReports
  <2>4. child.report = r
    BY <2>2
  <2>5. \E c \in Distinct(ReplayReports(a)) : c.report = r
    BY <2>3, <2>4, DistinctKeeps
  <2> QED BY <1>3, <2>5 DEF Children
<1>4. CASE a.kind \notin {"evidence_pack", "aet_run", "learning_observed_replay"}
  <2>1. r = a
    BY <1>4 DEF ReportsIn
  <2> QED BY <1>4, <2>1 DEF Children
<1> QED BY <1>1, <1>2, <1>3, <1>4

\* _experience_from_report tells each finding of its report.
LEMMA ExperienceTells ==
  ASSUME NEW a, NEW c, NEW f \in c.report.findings, f[2] \in Bad
  PROVE  /\ Experience(a, c).id[2][1] = c.report
         /\ \E p \in Experience(a, c).phenomena :
              p[1] = f[1] /\ Severity(p[2]) >= Severity(f[2])
<1> DEFINE wrapped == {<<ComponentCode(s), s>> : s \in {t \in Bad : c.context.wrapper = t}}
<1>1. Experience(a, c).id[2][1] = c.report
  BY DEF Experience, Identity
<1>2. PICK p \in Phenomena(c.report) : p[1] = f[1] /\ Severity(p[2]) >= Severity(f[2])
  BY MergeKeeps DEF Phenomena
<1>3. PICK q \in MergePhenomena(Phenomena(c.report) \cup wrapped) :
            q[1] = p[1] /\ Severity(q[2]) >= Severity(p[2])
  BY MergeKeeps
<1>4. q \in Experience(a, c).phenomena
  BY <1>3 DEF Experience
<1>5. Severity(q[2]) >= Severity(f[2])
  BY <1>2, <1>3, Severities
<1> QED BY <1>1, <1>2, <1>3, <1>4, <1>5

\* What deviates in a row is what it records.
Recorded(row) ==
    row.deviations = Codes(row.phenomena) /\ (row.completed <=> row.deviations = {}) /\ ~row.legacy

\* _merge_experiences has a row for every row, with each of its phenomena.
LEMMA MergedTells ==
  ASSUME NEW rows, NEW row \in rows, NEW p \in row.phenomena
  PROVE  \E m \in Merged(rows) :
           m.id = row.id /\ \E q \in m.phenomena : q[1] = p[1] /\ Severity(q[2]) >= Severity(p[2])
<1> DEFINE same == {r \in rows : r.id = row.id}
           first == CHOOSE r \in same : TRUE
           all == UNION {r.phenomena : r \in same}
<1>1. MergedRow(same) \in Merged(rows)
  BY DEF Merged
<1>2. first \in same
  OBVIOUS
<1>3. MergedRow(same).id = row.id /\ MergedRow(same).phenomena = MergePhenomena(all)
  BY <1>2 DEF MergedRow, With
<1>4. p \in all
  OBVIOUS
<1>5. \E q \in MergePhenomena(all) : q[1] = p[1] /\ Severity(q[2]) >= Severity(p[2])
  BY <1>4, MergeKeeps
<1> QED BY <1>1, <1>3, <1>5

LEMMA MergedRecords ==
  ASSUME NEW rows, NEW m \in Merged(rows)
  PROVE  Recorded(m)
<1>1. PICK id \in {r.id : r \in rows} : m = MergedRow({r \in rows : r.id = id})
  BY DEF Merged
<1> QED BY <1>1 DEF MergedRow, With, Recorded

\* A finite set has finitely many images.
LEMMA ImagesAreFinite ==
  ASSUME NEW S, IsFiniteSet(S), NEW f
  PROVE  IsFiniteSet({f[x] : x \in S})
<1> DEFINE T == {f[x] : x \in S}
           g == [x \in S |-> f[x]]
<1>1. g \in Surjection(S, T)
  BY DEF Surjection
<1> QED BY <1>1, FS_Surjection

(***************************************************************************)
(* What the store and the patterns rest on                                 *)
(***************************************************************************)

\* What a pack is of, it tells: an experience of its own for each bad finding.
PackTells(pack) ==
    \A a \in pack.of : \A r \in ReportsIn(a) : \A f \in r.findings :
        f[2] \in Bad =>
            \E row \in pack.rows :
                /\ row.id[2][1] = r /\ ~row.legacy
                /\ \E p \in row.phenomena : p[1] = f[1] /\ Severity(p[2]) >= Severity(f[2])

\* A row is an experience there was, and all that deviates in it did so there.
Seen(row) ==
    /\ \E e \in Experiences : e.id = row.id /\ e.repo = row.repo
    /\ \A code \in row.deviations : \E e \in Experiences : e.id = row.id /\ code \in e.deviations

DirectoryIsFinite ==
    /\ imported \in InitialStores
    /\ IsFiniteSet(produced) /\ \A a \in produced : IsFiniteSet(Children(a))
ExperiencesAreFinite == IsFiniteSet(Experiences)

ExperienceInv ==
    /\ DirectoryIsFinite
    /\ runs \subseteq produced
    /\ output # Nothing =>
         PackTells(output) /\ \A row \in output.rows : Recorded(row) /\ Seen(row)
    /\ \A pack \in store : PackTells(pack) /\ \A row \in pack.rows : Seen(Upgraded(row))
    /\ ConfidenceIsEarned
    /\ StoreIsClean

\* There are finitely many experiences.
LEMMA ExperiencesFinite == DirectoryIsFinite => ExperiencesAreFinite
<1> SUFFICES ASSUME imported \in InitialStores, IsFiniteSet(produced),
                    \A a \in produced : IsFiniteSet(Children(a))
             PROVE  IsFiniteSet(Experiences)
  BY DEF DirectoryIsFinite, ExperiencesAreFinite
<1> DEFINE from == [a \in produced |-> {Experience(a, c) : c \in Children(a)}]
           upgraded == [rows \in imported |-> {Upgraded(row) : row \in rows}]
<1>1. ASSUME NEW a \in produced
      PROVE  IsFiniteSet(from[a])
  <2> DEFINE f == [c \in Children(a) |-> Experience(a, c)]
  <2>1. IsFiniteSet({f[c] : c \in Children(a)})
    BY ImagesAreFinite
  <2>2. from[a] = {f[c] : c \in Children(a)}
    OBVIOUS
  <2> QED BY <2>1, <2>2
<1>2. IsFiniteSet(Harvestable(produced))
  BY FS_Subset DEF Harvestable
<1>3. IsFiniteSet({from[a] : a \in Harvestable(produced)})
  BY <1>2, ImagesAreFinite
<1>4. ExperiencesOf(produced) = UNION {from[a] : a \in Harvestable(produced)}
  BY DEF ExperiencesOf, Harvestable
<1>5. \A T \in {from[a] : a \in Harvestable(produced)} : IsFiniteSet(T)
  BY <1>1 DEF Harvestable
<1>6. IsFiniteSet(ExperiencesOf(produced))
  BY <1>3, <1>4, <1>5, FS_UNION
<1>7. ASSUME NEW rows \in imported
      PROVE  IsFiniteSet(upgraded[rows])
  <2> DEFINE f == [row \in rows |-> Upgraded(row)]
  <2>1. IsFiniteSet(rows)
    BY FilesAreFinite
  <2>2. IsFiniteSet({f[row] : row \in rows})
    BY <2>1, ImagesAreFinite
  <2>3. upgraded[rows] = {f[row] : row \in rows}
    OBVIOUS
  <2> QED BY <2>2, <2>3
<1>8. IsFiniteSet({upgraded[rows] : rows \in imported})
  BY FilesAreFinite, ImagesAreFinite
<1>9. IsFiniteSet(UNION {upgraded[rows] : rows \in imported})
  BY <1>7, <1>8, FS_UNION
<1>10. UNION {upgraded[rows] : rows \in imported}
         = UNION {{Upgraded(row) : row \in rows} : rows \in imported}
  OBVIOUS
<1> QED BY <1>6, <1>9, <1>10, FS_Union DEF Experiences

\* Experiences are only added.
LEMMA ExperiencesGrow ==
  ASSUME produced \subseteq produced', imported' = imported
  PROVE  Experiences \subseteq Experiences'
<1>1. ExperiencesOf(produced) \subseteq ExperiencesOf(produced')
  BY DEF ExperiencesOf, Harvestable
<1> QED BY <1>1 DEF Experiences

\* The ids and the repositories of the experiences with a code.
IdsIn(E, code) == {e.id : e \in {f \in E : code \in f.deviations}}
ReposIn(E, code) == {e.repo : e \in {f \in E : f.id \in IdsIn(E, code)}}
Earned(E, code) == Cardinality(IdsIn(E, code)) >= 5 /\ Cardinality(ReposIn(E, code)) >= 3

\* Sets that hold them are finite, and so have as many elements.
LEMMA AtLeastAsMany ==
  ASSUME NEW T, IsFiniteSet(T), NEW S \in SUBSET T, NEW n \in Nat, Cardinality(S) >= n
  PROVE  Cardinality(T) >= n
<1>1. IsFiniteSet(S) /\ Cardinality(S) <= Cardinality(T)
  BY FS_Subset
<1>2. Cardinality(S) \in Nat /\ Cardinality(T) \in Nat
  BY <1>1, FS_CardinalityType
<1> QED BY <1>1, <1>2

LEMMA ShownFinite ==
  ASSUME NEW E, IsFiniteSet(E), NEW code
  PROVE  IsFiniteSet(IdsIn(E, code)) /\ IsFiniteSet(ReposIn(E, code))
<1> DEFINE having == {f \in E : code \in f.deviations}
           named == {f \in E : f.id \in IdsIn(E, code)}
           idOf == [e \in having |-> e.id]
           repoOf == [e \in named |-> e.repo]
<1>1. IsFiniteSet(having) /\ IsFiniteSet(named)
  BY FS_Subset
<1>2. IsFiniteSet({idOf[e] : e \in having}) /\ IsFiniteSet({repoOf[e] : e \in named})
  BY <1>1, ImagesAreFinite
<1>3. {idOf[e] : e \in having} = IdsIn(E, code)
  BY DEF IdsIn
<1>4. {repoOf[e] : e \in named} = ReposIn(E, code)
  BY DEF ReposIn
<1> QED BY <1>2, <1>3, <1>4

\* A confidence that is earned stays so while experiences are added.
LEMMA EarnedGrows ==
  ASSUME NEW E, NEW F, E \subseteq F, IsFiniteSet(F), NEW code, Earned(E, code)
  PROVE  Earned(F, code)
<1>1. IdsIn(E, code) \subseteq IdsIn(F, code) /\ ReposIn(E, code) \subseteq ReposIn(F, code)
  BY DEF IdsIn, ReposIn
<1> QED BY <1>1, ShownFinite, AtLeastAsMany DEF Earned

LEMMA EarnedIsShown ==
  ConfidenceIsEarned <=> \A p \in patterns : p.confidence = "HIGH" => Earned(Experiences, p.kind)
  BY DEF ConfidenceIsEarned, Earned, IdsIn, ReposIn, Showing

\* mine counts only what was seen.
LEMMA MineEarned ==
  ASSUME IsFiniteSet(Experiences), \A row \in output.rows : Seen(row), NEW code,
         Pattern(code).confidence = "HIGH"
  PROVE  Earned(Experiences, code)
<1> DEFINE ids == {r.id : r \in Support(code)}
           repos == {r.repo : r \in Support(code)}
<1>1. Cardinality(ids) >= 5 /\ Cardinality(repos) >= 3
  BY DEF Pattern, Confidence
<1>2. ids \subseteq IdsIn(Experiences, code)
  BY DEF Support, Seen, IdsIn
<1>3. repos \subseteq ReposIn(Experiences, code)
  BY <1>2 DEF Support, Seen, ReposIn
<1> HIDE DEF ids, repos
<1> QED BY <1>1, <1>2, <1>3, ShownFinite, AtLeastAsMany DEF Earned

\* harvest tells what the packs told and what the directory holds.
LEMMA HarvestTells ==
  ASSUME ExperienceInv, NEW packs \in {{}, store}, NEW rows,
         rows = UNION {{Upgraded(row) : row \in pack.rows} : pack \in packs}
  PROVE  PackTells([kind |-> "experiences", rows |-> Merged(ExperiencesOf(runs) \cup rows),
                of |-> Harvestable(runs) \cup UNION {pack.of : pack \in packs}])
<1> DEFINE all == ExperiencesOf(runs) \cup rows
           of == Harvestable(runs) \cup UNION {pack.of : pack \in packs}
<1>1. ASSUME NEW a \in of, NEW r \in ReportsIn(a), NEW f \in r.findings, f[2] \in Bad
      PROVE  \E row \in all : /\ row.id[2][1] = r
                              /\ \E p \in row.phenomena :
                                   p[1] = f[1] /\ Severity(p[2]) >= Severity(f[2])
  <2>1. CASE a \in Harvestable(runs)
    <3>1. PICK c \in Children(a) : c.report = r
      BY ReportKept
    <3>2. Experience(a, c) \in all
      BY <2>1 DEF ExperiencesOf
    <3> QED BY <1>1, <3>1, <3>2, ExperienceTells
  <2>2. CASE \E pack \in packs : a \in pack.of
    <3>1. PICK pack \in packs : a \in pack.of
      BY <2>2
    <3>2. PackTells(pack)
      BY <3>1 DEF ExperienceInv, DirectoryIsFinite
    <3>3. PICK row \in pack.rows :
               /\ row.id[2][1] = r /\ ~row.legacy
               /\ \E p \in row.phenomena : p[1] = f[1] /\ Severity(p[2]) >= Severity(f[2])
      BY <1>1, <3>1, <3>2 DEF PackTells
    <3>4. Upgraded(row) \in all /\ Upgraded(row) = row
      BY <3>1, <3>3 DEF Upgraded
    <3> QED BY <3>3, <3>4
  <2> QED BY <2>1, <2>2
<1>2. ASSUME NEW row \in all, NEW p \in row.phenomena
      PROVE  \E m \in Merged(all) :
               m.id = row.id /\ ~m.legacy
               /\ \E q \in m.phenomena : q[1] = p[1] /\ Severity(q[2]) >= Severity(p[2])
  <2> HIDE DEF all
  <2>1. PICK m \in Merged(all) :
               m.id = row.id /\ \E q \in m.phenomena : q[1] = p[1] /\ Severity(q[2]) >= Severity(p[2])
    BY <1>2, MergedTells
  <2>2. ~m.legacy
    BY MergedRecords DEF Recorded
  <2> QED BY <2>1, <2>2
<1>3. ASSUME NEW a \in of, NEW r \in ReportsIn(a), NEW f \in r.findings, f[2] \in Bad
      PROVE  \E m \in Merged(all) :
               /\ m.id[2][1] = r /\ ~m.legacy
               /\ \E q \in m.phenomena : q[1] = f[1] /\ Severity(q[2]) >= Severity(f[2])
  <2>1. PICK row \in all : /\ row.id[2][1] = r
                           /\ \E p \in row.phenomena :
                                p[1] = f[1] /\ Severity(p[2]) >= Severity(f[2])
    BY <1>1, <1>3
  <2>2. PICK p \in row.phenomena : p[1] = f[1] /\ Severity(p[2]) >= Severity(f[2])
    BY <2>1
  <2>3. PICK m \in Merged(all) :
               m.id = row.id /\ ~m.legacy
               /\ \E q \in m.phenomena : q[1] = p[1] /\ Severity(q[2]) >= Severity(p[2])
    BY <1>2
  <2>4. PICK q \in m.phenomena : q[1] = p[1] /\ Severity(q[2]) >= Severity(p[2])
    BY <2>3
  <2>5. Severity(q[2]) >= Severity(f[2])
    BY <2>2, <2>4, Severities
  <2> QED BY <2>1, <2>2, <2>3, <2>4, <2>5
<1> HIDE DEF all, of
<1>4. PackTells([kind |-> "experiences", rows |-> Merged(all), of |-> of])
  BY <1>3 DEF PackTells
<1> QED BY <1>4 DEF all, of

\* Every row that harvest writes was seen, and so was all that deviates in it.
LEMMA HarvestSeen ==
  ASSUME ExperienceInv, NEW packs \in {{}, store},
         \A pack \in packs : \A row \in pack.rows : IsEvidenceOnly(row), NEW rows,
         rows = UNION {{Upgraded(row) : row \in pack.rows} : pack \in packs},
         NEW m \in Merged(ExperiencesOf(runs) \cup rows)
  PROVE  Seen(m)
<1> DEFINE all == ExperiencesOf(runs) \cup rows
<1>1. ASSUME NEW row \in all
      PROVE  Seen(row) /\ row.deviations = Codes(row.phenomena)
  <2>1. CASE row \in ExperiencesOf(runs)
    <3>1. PICK a \in Harvestable(runs) : \E c \in Children(a) : row = Experience(a, c)
      BY <2>1 DEF ExperiencesOf
    <3>2. row \in Experiences
      BY <3>1 DEF Experiences, ExperiencesOf, Harvestable, ExperienceInv
    <3>3. row.deviations = Codes(row.phenomena)
      BY <3>1 DEF Experience
    <3> QED BY <3>2, <3>3 DEF Seen
  <2>2. CASE row \in rows
    <3>1. PICK pack \in packs : \E x \in pack.rows : row = Upgraded(x)
      BY <2>2
    <3>2. PICK x \in pack.rows : row = Upgraded(x)
      BY <3>1
    <3>3. Seen(row)
      BY <3>1, <3>2 DEF ExperienceInv, DirectoryIsFinite
    <3>4. row.deviations = Codes(row.phenomena)
      BY <3>1, <3>2 DEF IsEvidenceOnly, Upgraded, With
    <3> QED BY <3>3, <3>4
  <2> QED BY <2>1, <2>2
<1> HIDE DEF all
<1>2. PICK row \in all : m = MergedRow({r \in all : r.id = row.id})
  <2>1. PICK id \in {r.id : r \in all} : m = MergedRow({r \in all : r.id = id})
    BY DEF Merged, all
  <2>2. PICK row \in all : row.id = id
    OBVIOUS
  <2> QED BY <2>1, <2>2
<1> DEFINE same == {r \in all : r.id = row.id}
           first == CHOOSE r \in same : TRUE
           phenomena == UNION {r.phenomena : r \in same}
<1>3. first \in same
  OBVIOUS
<1>4. m.id = row.id /\ m.repo = first.repo /\ m.deviations = Codes(MergePhenomena(phenomena))
  BY <1>2, <1>3 DEF MergedRow, With
<1>5. \E e \in Experiences : e.id = m.id /\ e.repo = m.repo
  <2>1. first \in all /\ first.id = row.id
    BY <1>3
  <2>2. Seen(first)
    BY <1>1, <2>1
  <2> QED BY <1>4, <2>1, <2>2 DEF Seen
<1>6. ASSUME NEW code \in m.deviations
      PROVE  \E e \in Experiences : e.id = m.id /\ code \in e.deviations
  <2>1. PICK p \in phenomena : p[1] = code /\ p[2] # "PASS"
    BY <1>4, <1>6 DEF Codes, MergePhenomena
  <2>2. PICK r \in same : p \in r.phenomena
    BY <2>1
  <2>3. code \in r.deviations
    BY <1>1, <2>1, <2>2 DEF Codes
  <2> QED BY <1>1, <1>4, <2>2, <2>3 DEF Seen
<1> QED BY <1>5, <1>6 DEF Seen

LEMMA ExperienceInitHolds == ExperienceInit => ExperienceInv
<1> SUFFICES ASSUME ExperienceInit PROVE ExperienceInv
  OBVIOUS
<1>1. IsFiniteSet(produced) /\ \A a \in produced : IsFiniteSet(Children(a))
  BY FS_EmptySet DEF ExperienceInit
<1>2. ASSUME NEW pack \in store
      PROVE  PackTells(pack) /\ \A row \in pack.rows : Seen(Upgraded(row))
  <2>1. PICK rows \in imported : pack = [kind |-> "experiences", rows |-> rows, of |-> {}]
    BY DEF ExperienceInit
  <2>2. PackTells(pack)
    BY <2>1 DEF PackTells
  <2>3. ASSUME NEW row \in pack.rows
        PROVE  Seen(Upgraded(row))
    <3>1. Upgraded(row) \in Experiences
      BY <2>1 DEF Experiences
    <3> QED BY <3>1 DEF Seen
  <2> QED BY <2>2, <2>3
<1>3. ConfidenceIsEarned /\ StoreIsClean
  BY DEF ExperienceInit, ConfidenceIsEarned, StoreIsClean
<1> QED BY <1>1, <1>2, <1>3 DEF ExperienceInit, ExperienceInv, DirectoryIsFinite

\* What a step adds to the directory, it keeps of the rest.
LEMMA DirectoryStep ==
  ASSUME ExperienceInv, UNCHANGED <<imported, output, store, patterns>>,
         produced \subseteq produced', runs' \subseteq produced',
         IsFiniteSet(produced'), \A a \in produced' : IsFiniteSet(Children(a))
  PROVE  ExperienceInv'
<1>1. Experiences \subseteq Experiences'
  BY ExperiencesGrow
<1>2. IsFiniteSet(Experiences')
  <2>1. DirectoryIsFinite'
    BY DEF ExperienceInv, DirectoryIsFinite
  <2>2. ExperiencesAreFinite'
    BY <2>1, ExperiencesFinite, PTL
  <2> QED BY <2>2 DEF ExperiencesAreFinite
<1>3. ASSUME NEW row, Seen(row)
      PROVE  Seen(row)'
  BY <1>1, <1>3 DEF Seen
<1>4. ConfidenceIsEarned'
  <2>1. \A p \in patterns : p.confidence = "HIGH" => Earned(Experiences, p.kind)
    BY EarnedIsShown DEF ExperienceInv, DirectoryIsFinite
  <2>2. \A p \in patterns' : p.confidence = "HIGH" => Earned(Experiences', p.kind)
    BY <1>1, <1>2, <2>1, EarnedGrows
  <2>3. (\A p \in patterns : p.confidence = "HIGH" => Earned(Experiences, p.kind))'
    BY <2>2
  <2> QED BY <2>3, EarnedIsShown, PTL
<1>5. StoreIsClean'
  BY DEF ExperienceInv, StoreIsClean
<1>6. (output # Nothing =>
         PackTells(output) /\ \A row \in output.rows : Recorded(row) /\ Seen(row))'
  BY <1>3 DEF ExperienceInv, DirectoryIsFinite
<1>7. (\A pack \in store : PackTells(pack) /\ \A row \in pack.rows : Seen(Upgraded(row)))'
  BY <1>3 DEF ExperienceInv, DirectoryIsFinite
<1> QED BY <1>4, <1>5, <1>6, <1>7 DEF ExperienceInv, DirectoryIsFinite

\* Other commands leave the directory, and so what there is to see, as it is.
LEMMA CommandStep ==
  ASSUME ExperienceInv, UNCHANGED <<imported, runs, produced>>
  PROVE  /\ \A row : Seen(row)' <=> Seen(row)
         /\ patterns' = patterns => ConfidenceIsEarned'
         /\ store' = store => StoreIsClean'
<1>1. Experiences' = Experiences
  BY DEF Experiences
<1>2. \A row : Seen(row)' <=> Seen(row)
  BY <1>1 DEF Seen
<1>3. patterns' = patterns => ConfidenceIsEarned'
  BY <1>1 DEF ExperienceInv, ConfidenceIsEarned, Showing
<1>4. store' = store => StoreIsClean'
  BY DEF ExperienceInv, StoreIsClean
<1> QED BY <1>2, <1>3, <1>4

LEMMA ExperienceStepHolds == ExperienceInv /\ [ExperienceNext]_experienceVars => ExperienceInv'
<1> SUFFICES ASSUME ExperienceInv, [ExperienceNext]_experienceVars
             PROVE  ExperienceInv'
  OBVIOUS
<1>1. CASE Produce
  <2>1. PICK a \in Artifacts \ runs : runs' = runs \cup {a} /\ produced' = produced \cup {a}
    BY <1>1 DEF Produce
  <2>2. IsFiniteSet(produced')
    BY <2>1, FS_AddElement DEF ExperienceInv, DirectoryIsFinite
  <2>3. \A b \in produced' : IsFiniteSet(Children(b))
    BY <2>1, FilesAreFinite DEF ExperienceInv, DirectoryIsFinite
  <2>4. runs' \subseteq produced' /\ produced \subseteq produced'
    BY <2>1 DEF ExperienceInv, DirectoryIsFinite
  <2>5. UNCHANGED <<imported, output, store, patterns>>
    BY <1>1 DEF Produce
  <2> QED BY <2>2, <2>3, <2>4, <2>5, DirectoryStep
<1>2. CASE RecordFeedback
  <2>1. PICK a \in runs, codes \in (SUBSET ReasonCodes) \ {{}} :
             /\ runs' = runs \cup {Feedback(a, codes)}
             /\ produced' = produced \cup {Feedback(a, codes)}
    BY <1>2 DEF RecordFeedback
  <2> DEFINE feedback == Feedback(a, codes)
  <2>2. feedback.kind = "learning_feedback"
    BY DEF Feedback, Component
  <2>3. IsFiniteSet(Children(feedback))
    <3> HIDE DEF feedback
    <3> DEFINE child == [report |-> feedback,
                         context |-> Context(<<"top", "-", "-">>, "folder", "UNKNOWN")]
    <3>1. Children(feedback) = {child}
      BY <2>2 DEF Children
    <3> HIDE DEF child
    <3>2. IsFiniteSet({child})
      BY FS_Singleton
    <3> QED BY <3>1, <3>2
  <2> HIDE DEF feedback
  <2>4. runs' = runs \cup {feedback} /\ produced' = produced \cup {feedback}
    BY <2>1 DEF feedback
  <2>5. IsFiniteSet(produced')
    BY <2>4, FS_AddElement DEF ExperienceInv, DirectoryIsFinite
  <2>6. \A b \in produced' : IsFiniteSet(Children(b))
    BY <2>3, <2>4 DEF ExperienceInv, DirectoryIsFinite
  <2>7. runs' \subseteq produced' /\ produced \subseteq produced'
    BY <2>4 DEF ExperienceInv, DirectoryIsFinite
  <2>8. UNCHANGED <<imported, output, store, patterns>>
    BY <1>2 DEF RecordFeedback
  <2> QED BY <2>5, <2>6, <2>7, <2>8, DirectoryStep
<1>3. CASE Discard
  <2>1. UNCHANGED <<imported, output, store, patterns, produced>> /\ runs' \subseteq runs
    BY <1>3 DEF Discard
  <2> QED BY <2>1, DirectoryStep DEF ExperienceInv, DirectoryIsFinite
<1>4. CASE Harvest
  <2>1. PICK packs \in {{}, store} :
          /\ \A pack \in packs : \A row \in pack.rows : IsEvidenceOnly(row)
          /\ output' = [kind |-> "experiences",
                        rows |-> Merged(ExperiencesOf(runs)
                                   \cup UNION {{Upgraded(row) : row \in pack.rows} : pack \in packs}),
                        of |-> Harvestable(runs) \cup UNION {pack.of : pack \in packs}]
    BY <1>4 DEF Harvest
  <2>2. UNCHANGED <<imported, runs, store, patterns, produced>>
    BY <1>4 DEF Harvest
  <2>3. PackTells(output')
    BY <2>1, HarvestTells
  <2>4. \A row \in output'.rows : Recorded(row) /\ Seen(row)
    BY <2>1, HarvestSeen, MergedRecords
  <2>5. (output # Nothing =>
           PackTells(output) /\ \A row \in output.rows : Recorded(row) /\ Seen(row))'
    BY <2>2, <2>3, <2>4, CommandStep
  <2>6. (\A pack \in store : PackTells(pack) /\ \A row \in pack.rows : Seen(Upgraded(row)))'
    BY <2>2, CommandStep DEF ExperienceInv, DirectoryIsFinite
  <2> QED BY <2>2, <2>5, <2>6, CommandStep DEF ExperienceInv, DirectoryIsFinite
<1>5. CASE Collect
  <2>1. /\ output # Nothing /\ store' = store \cup {output}
        /\ \A row \in output.rows : IsEvidenceOnly(row)
        /\ UNCHANGED <<imported, runs, output, patterns, produced>>
    BY <1>5 DEF Collect
  <2>2. \A row \in output.rows : Upgraded(row) = row
    BY <2>1 DEF ExperienceInv, Recorded, Upgraded
  <2>3. (\A pack \in store : PackTells(pack) /\ \A row \in pack.rows : Seen(Upgraded(row)))'
    BY <2>1, <2>2, CommandStep DEF ExperienceInv, DirectoryIsFinite
  <2>4. (output # Nothing =>
           PackTells(output) /\ \A row \in output.rows : Recorded(row) /\ Seen(row))'
    BY <2>1, CommandStep DEF ExperienceInv, DirectoryIsFinite
  <2>5. StoreIsClean'
    BY <2>1 DEF ExperienceInv, StoreIsClean, IsEvidenceOnly
  <2> QED BY <2>1, <2>3, <2>4, <2>5, CommandStep DEF ExperienceInv, DirectoryIsFinite
<1>6. CASE Mine
  <2>1. output # Nothing /\ UNCHANGED <<imported, runs, output, store, produced>>
    BY <1>6 DEF Mine
  <2>2. IsFiniteSet(Experiences)
    BY ExperiencesFinite DEF ExperienceInv, ExperiencesAreFinite
  <2>3. ASSUME NEW p \in patterns', p.confidence = "HIGH"
        PROVE  Earned(Experiences, p.kind)
    <3> DEFINE codes == UNION {row.deviations : row \in output.rows}
               proof == codes \cap ProofCodes
               handoff == [kind |-> "PROOF_HANDOFF_FAILURE", confidence |-> "LOW",
                           refs |-> UNION {{r.id : r \in Support(c)} : c \in proof}]
    <3>0. patterns' \subseteq {Pattern(c) : c \in codes} \cup {handoff}
      BY <1>6 DEF Mine
    <3>1. PICK code \in codes : p = Pattern(code)
      <4>1. handoff.confidence # "HIGH"
        OBVIOUS
      <4> HIDE DEF handoff, codes
      <4> QED BY <2>3, <3>0, <4>1
    <3>2. p.kind = code
      BY <3>1 DEF Pattern
    <3> QED BY <2>1, <2>2, <2>3, <3>1, <3>2, MineEarned DEF ExperienceInv, DirectoryIsFinite
  <2>4. Experiences' = Experiences
    BY <2>1 DEF Experiences
  <2>5. (\A p \in patterns : p.confidence = "HIGH" => Earned(Experiences, p.kind))'
    BY <2>3, <2>4
  <2>6. ConfidenceIsEarned'
    BY <2>5, EarnedIsShown, PTL
  <2> QED BY <2>1, <2>6, CommandStep DEF ExperienceInv, DirectoryIsFinite
<1>7. CASE UNCHANGED experienceVars
  <2>1. UNCHANGED <<imported, runs, output, store, patterns, produced>>
    BY <1>7 DEF experienceVars
  <2> QED BY <2>1, DirectoryStep DEF ExperienceInv, DirectoryIsFinite
<1> QED BY <1>1, <1>2, <1>3, <1>4, <1>5, <1>6, <1>7 DEF ExperienceNext

\* What a pack tells is what nothing is lost of.
LEMMA ToldIsKept == ExperienceInv => NothingIsLost
<1> SUFFICES ASSUME ExperienceInv, output # Nothing, NEW a \in output.of, NEW r \in ReportsIn(a),
                    NEW f \in r.findings, f[2] \in Bad
             PROVE  \E row \in output.rows :
                      /\ row.id[2][1] = r /\ ~row.completed /\ f[1] \in row.deviations
                      /\ \E p \in row.phenomena : p[1] = f[1] /\ Severity(p[2]) >= Severity(f[2])
  BY DEF NothingIsLost
<1>1. PICK row \in output.rows :
             /\ row.id[2][1] = r
             /\ \E p \in row.phenomena : p[1] = f[1] /\ Severity(p[2]) >= Severity(f[2])
  BY DEF ExperienceInv, PackTells
<1>2. PICK p \in row.phenomena : p[1] = f[1] /\ Severity(p[2]) >= Severity(f[2])
  BY <1>1
<1>3. p[2] # "PASS"
  BY <1>2, Severities DEF Severity, Bad
<1>4. f[1] \in row.deviations /\ ~row.completed
  BY <1>2, <1>3 DEF ExperienceInv, Recorded, Codes
<1> QED BY <1>1, <1>4

\* For any reports, containers, packs and codes, and however often one harvests, collects
\* and mines: every finding stays told, each pattern of high confidence was seen in five
\* reports of three repositories, and nothing private enters the store.
THEOREM ExperienceIsAlwaysKept == ExperienceSpec => []ExperienceIsKept
<1>1. ExperienceInv => ExperienceIsKept
  BY ToldIsKept DEF ExperienceInv, ExperienceIsKept
<1> QED BY <1>1, ExperienceInitHolds, ExperienceStepHolds, PTL DEF ExperienceSpec

(***************************************************************************)
(* Gates of a Skill: what passes was measured as it is                      *)
(***************************************************************************)

LEMMA TheNames ==
  /\ ToSet(Names) = {"core", "validation", "held_out"}
  /\ DOMAIN Names = 1..3 /\ Len(Names) = 3
  /\ Names[1] = "core" /\ Names[2] = "validation" /\ Names[3] = "held_out"
<1>1. DOMAIN Names = 1..3 /\ Len(Names) = 3
  BY DEF Names
<1>2. Names[1] = "core" /\ Names[2] = "validation" /\ Names[3] = "held_out"
  BY DEF Names
<1>3. ToSet(Names) = {Names[i] : i \in 1..3}
  BY <1>1 DEF ToSet
<1> QED BY <1>1, <1>2, <1>3

\* What the deterministic checks let through is of the Skill and the text there are.
LEMMA HardSaysBoth ==
  ASSUME NEW base, NEW sha, NEW done, NEW t, NEW p, HardFailures(base, sha, done, t, p) = {}
  PROVE  base = t /\ sha = p
<1>1. base = t
  <2> SUFFICES ASSUME base # t
               PROVE  "baseline" \in HardFailures(base, sha, done, t, p)
    OBVIOUS
  <2> QED BY DEF HardFailures
<1>2. sha = p
  <2> SUFFICES ASSUME sha # p
               PROVE  "hash" \in HardFailures(base, sha, done, t, p)
    OBVIOUS
  <2> QED BY DEF HardFailures
<1> QED BY <1>1, <1>2

LEMMA HardIsSound ==
  ASSUME NEW c, Hard(c) = {}
  PROVE  c.manifest.base = skill /\ c.manifest.sha = c.text
BY HardSaysBoth DEF Hard

\* No task twice: as many tasks as ids.
LEMMA RunnableIsVerified ==
  ASSUME suites \in InitialSuites \cup NewSuites, NEW n \in ToSet(Names), Runnable(n)
  PROVE  VerifiedSuite(n)
<1> DEFINE at == ObservedAt(n)
           ids == TaskIds(Observed(n))
           f == [i \in at |-> suites[n][i].id]
<1>1. IsFiniteSet(at)
  BY SuitesAreFinite, FS_Subset DEF ObservedAt
<1>2. \A i \in at : suites[n][i] \in Observed(n)
  BY DEF ObservedAt, Observed, Tasks, ToSet
<1>3. \A t \in Observed(n) : \E i \in at : suites[n][i] = t
  BY DEF ObservedAt, Observed, Tasks, ToSet
<1>4. f \in Surjection(at, ids)
  <2>1. f \in [at -> ids]
    BY <1>2 DEF TaskIds
  <2>2. \A t \in ids : \E i \in at : f[i] = t
    BY <1>3 DEF TaskIds
  <2> QED BY <2>1, <2>2 DEF Surjection
<1>5. Cardinality(ids) = Cardinality(at)
  BY DEF Runnable
<1>6. f \in Injection(at, ids)
  BY <1>1, <1>4, <1>5, FS_Surjection
<1>7. \A i, j \in at : suites[n][i].id = suites[n][j].id => i = j
  BY <1>6 DEF Injection, IsInjective
<1> QED BY <1>7 DEF Runnable, VerifiedSuite

---------------------------------------------------------------------------
(* The inductive invariant.                                                 *)

Shaped(j) ==
    j = [kind |-> j.kind, step |-> j.step, dir |-> j.dir, queue |-> j.queue, rows |-> j.rows,
         cache |-> j.cache, cand |-> j.cand, plan |-> j.plan, measured |-> j.measured,
         touched |-> j.touched, drifted |-> j.drifted]

\* The suites whose replay of a candidate was good.
GoodNames(cache, id) == {c.name : c \in {x \in cache : x.status \in Good /\ x.binding.id = id}}

\* What no change of the surroundings undoes: what a command is, and its rows.
Formed(j) ==
    /\ Shaped(j)
    /\ j.kind \in {"gate", "planned", "tournament"}
    /\ j.step \in {"check", "core", "validation", "gate"}
    /\ j.queue \in Seq(Dirs)
    /\ j.measured \in Seq(ToSet(j.measured))
    /\ j.step # "gate" => j.measured = <<>>
RowsEarned(j) ==
    \A w \in j.rows :
        /\ w.dir \in Dirs /\ w.gain \in {0, 1}
        /\ w.status \in Good => {"core", "validation"} \subseteq GoodNames(j.cache, w.id)

\* As long as nothing was edited, a replay ran the texts it is bound to.
RanAsBound(j, r) == j.touched \/ r.ran = <<r.binding.base, r.binding.sha>>
CacheRan(j) == \A r \in j.cache : RanAsBound(j, r)

\* The candidate of the round has passed its checks, and, at "validation", core.
RoundHolds(j) ==
    j.step \in {"core", "validation"} =>
        /\ j.queue # <<>>
        /\ j.touched \/ Hard(dirs[Head(j.queue)]) = {}
        /\ j.step = "validation" =>
             "core" \in GoodNames(j.cache, dirs[Head(j.queue)].manifest.id)

\* A gate is of the candidate that was checked, and of what was planned for.
Chosen(j) ==
    /\ j.queue = <<>>
    /\ \E w \in j.rows :
         /\ w.dir = j.dir /\ w.status \in Good
         /\ \A r \in j.rows : r.status \in Good => r.gain <= w.gain
         /\ {"core", "validation"} \subseteq GoodNames(j.cache, w.id)
AsPlanned(j) == \A n \in ToSet(Names) : j.plan.bindings[n] = Binding(j.cand, n)
GateHolds(j) ==
    j.step = "gate" =>
        /\ j.dir \in Dirs /\ dirs[j.dir].manifest = j.cand.manifest
        /\ j.touched \/ (dirs[j.dir] = j.cand /\ Hard(j.cand) = {})
        /\ j.drifted \/ (~Overlap /\ (j.kind = "planned" => AsPlanned(j)))
        /\ j.kind = "tournament" => Chosen(j)

\* The replays a gate has so far.
Suits(j, m) ==
    /\ m.binding.base = j.cand.manifest.base /\ m.binding.sha = j.cand.manifest.sha
    /\ RanAsBound(j, m)
    /\ j.drifted \/ m.binding = Binding(j.cand, m.name)
SoFar(j, s) ==
    /\ \A i \in DOMAIN s : s[i].name = Names[i] /\ Suits(j, s[i])
    /\ \A i, k \in DOMAIN s : s[i].binding.host.version = s[k].binding.host.version
MeasuredHolds(j) == Len(j.measured) <= 2 /\ SoFar(j, j.measured)

JobHolds(j) ==
    /\ Formed(j) /\ RowsEarned(j) /\ CacheRan(j) /\ RoundHolds(j) /\ GateHolds(j)
    /\ MeasuredHolds(j)

DirsAreCandidates ==
    /\ dirs = [d \in Dirs |-> dirs[d]]
    /\ \A d \in Dirs :
         dirs[d] # Null => dirs[d] = [manifest |-> dirs[d].manifest, text |-> dirs[d].text]
StaticIsBare == \A r \in reports : r.kind = "static" => r.measured = <<>>

GateInv ==
    /\ DirsAreCandidates
    /\ suites \in InitialSuites \cup NewSuites
    /\ job # Null => JobHolds(job)
    /\ PassIsMeasured
    /\ StaticIsBare

---------------------------------------------------------------------------
(* The properties follow from it.                                           *)

LEMMA GateInvSuffices == GateInv => GatesAreEarned
<1> SUFFICES ASSUME GateInv
             PROVE  StageableWasMeasured /\ HeldOutIsLast
  BY DEF GateInv, GatesAreEarned
<1>1. StageableWasMeasured
  <2> SUFFICES ASSUME NEW r \in reports, NEW m \in ToSet(r.measured), NEW d \in DOMAIN dirs,
                      r.status = "PASS", ~r.touched, Hard(dirs[d]) = {},
                      <<r.id, r.base, r.sha>> =
                        <<dirs[d].manifest.id, dirs[d].manifest.base, dirs[d].manifest.sha>>
               PROVE  m.ran = <<skill, dirs[d].text>>
    BY DEF StageableWasMeasured
  <2>1. r.kind # "static"
    <3> SUFFICES ASSUME r.measured = <<>>
                 PROVE  FALSE
      BY DEF GateInv, StaticIsBare
    <3> QED BY DEF ToSet
  <2>2. m.ran = <<r.base, r.sha>>
    BY <2>1 DEF GateInv, PassIsMeasured
  <2>3. r.base = skill /\ r.sha = dirs[d].text
    BY HardIsSound
  <2> QED BY <2>2, <2>3
<1>2. HeldOutIsLast
  <2>1. ASSUME NEW n \in ToSet(Names), Runnable(n)
        PROVE  VerifiedSuite(n)
    BY <2>1, RunnableIsVerified DEF GateInv
  <2>2. ASSUME job # Null, job.kind = "tournament", job.step = "gate"
        PROVE  Chosen(job)
    BY <2>2 DEF GateInv, JobHolds, GateHolds
  <2> QED BY <2>1, <2>2 DEF HeldOutIsLast, Chosen, GoodNames
<1> QED BY <1>1, <1>2

---------------------------------------------------------------------------
(* The changes of a job.                                                    *)

Drifted(j, t) == [j EXCEPT !.touched = @ \/ t, !.drifted = @ \/ j.step = "gate"]
LEMMA JobDrifts ==
  ASSUME NEW j, Shaped(j), NEW t \in BOOLEAN, NEW k, k = Drifted(j, t)
  PROVE  /\ Shaped(k)
         /\ k.kind = j.kind /\ k.step = j.step /\ k.dir = j.dir /\ k.queue = j.queue
         /\ k.rows = j.rows /\ k.cache = j.cache /\ k.cand = j.cand /\ k.plan = j.plan
         /\ k.measured = j.measured
         /\ k.touched <=> (j.touched \/ t)
         /\ k.drifted <=> (j.drifted \/ j.step = "gate")
BY DEF Shaped, Drifted

Opened(j, d, c) == [j EXCEPT !.step = "gate", !.dir = d, !.cand = c]
LEMMA JobOpens ==
  ASSUME NEW j, Shaped(j), NEW d, NEW c, NEW k,
         k = Opened(j, d, c)
  PROVE  /\ Shaped(k)
         /\ k.kind = j.kind /\ k.step = "gate" /\ k.dir = d /\ k.queue = j.queue
         /\ k.rows = j.rows /\ k.cache = j.cache /\ k.cand = c /\ k.plan = j.plan
         /\ k.measured = j.measured
         /\ k.touched = j.touched /\ k.drifted = j.drifted
BY DEF Shaped, Opened

HavingMeasured(j, s) == [j EXCEPT !.measured = s]
LEMMA JobMeasures ==
  ASSUME NEW j, Shaped(j), NEW s, NEW k, k = HavingMeasured(j, s)
  PROVE  /\ Shaped(k)
         /\ k.kind = j.kind /\ k.step = j.step /\ k.dir = j.dir /\ k.queue = j.queue
         /\ k.rows = j.rows /\ k.cache = j.cache /\ k.cand = j.cand /\ k.plan = j.plan
         /\ k.measured = s
         /\ k.touched = j.touched /\ k.drifted = j.drifted
BY DEF Shaped, HavingMeasured

PassedOn(j, to, cache) == [j EXCEPT !.step = to, !.cache = cache]
LEMMA JobPasses ==
  ASSUME NEW j, Shaped(j), NEW to, NEW cache, NEW k,
         k = PassedOn(j, to, cache)
  PROVE  /\ Shaped(k)
         /\ k.kind = j.kind /\ k.step = to /\ k.dir = j.dir /\ k.queue = j.queue
         /\ k.rows = j.rows /\ k.cache = cache /\ k.cand = j.cand /\ k.plan = j.plan
         /\ k.measured = j.measured
         /\ k.touched = j.touched /\ k.drifted = j.drifted
BY DEF Shaped, PassedOn

EndedRound(j, row, cache) == [j EXCEPT !.step = "check", !.queue = Tail(@), !.rows = @ \cup {row},
                       !.cache = cache]
LEMMA JobEndsRound ==
  ASSUME NEW j, Shaped(j), NEW row, NEW cache, NEW k,
         k = EndedRound(j, row, cache)
  PROVE  /\ Shaped(k)
         /\ k.kind = j.kind /\ k.step = "check" /\ k.dir = j.dir /\ k.queue = Tail(j.queue)
         /\ k.rows = j.rows \cup {row} /\ k.cache = cache /\ k.cand = j.cand
         /\ k.plan = j.plan /\ k.measured = j.measured
         /\ k.touched = j.touched /\ k.drifted = j.drifted
BY DEF Shaped, EndedRound

LEMMA NoJobYet ==
  /\ Shaped(NoJob)
  /\ NoJob.kind = "gate" /\ NoJob.step = "gate" /\ NoJob.queue = <<>> /\ NoJob.rows = {}
  /\ NoJob.cache = {} /\ NoJob.plan = Null /\ NoJob.measured = <<>>
BY DEF Shaped, NoJob

Contest(queue) == [NoJob EXCEPT !.kind = "tournament", !.step = "check", !.queue = queue]
LEMMA ContestStarts ==
  ASSUME NEW queue, NEW k, k = Contest(queue)
  PROVE  /\ Shaped(k)
         /\ k.kind = "tournament" /\ k.step = "check" /\ k.queue = queue /\ k.rows = {}
         /\ k.cache = {} /\ k.measured = <<>>
BY NoJobYet DEF Shaped, Contest

Planned(p) == [NoJob EXCEPT !.kind = "planned", !.plan = p]
LEMMA PlannedStarts ==
  ASSUME NEW p, NEW k, k = Planned(p)
  PROVE  /\ Shaped(k)
         /\ k.kind = "planned" /\ k.queue = <<>> /\ k.rows = {} /\ k.cache = {}
         /\ k.plan = p /\ k.measured = <<>>
BY NoJobYet DEF Shaped, Planned

---------------------------------------------------------------------------
(* Steps.                                                                   *)

LEMMA GateInitially == GateInit => GateInv
BY DEF GateInit, GateInv, DirsAreCandidates, PassIsMeasured, StaticIsBare

\* Whatever changes around a job, what it has was so before.
LEMMA DriftKeepsJob ==
  ASSUME NEW j, NEW k, NEW t \in BOOLEAN, JobHolds(j), Shaped(k),
         k.kind = j.kind /\ k.step = j.step /\ k.dir = j.dir /\ k.queue = j.queue,
         k.rows = j.rows /\ k.cache = j.cache /\ k.cand = j.cand /\ k.plan = j.plan,
         k.measured = j.measured,
         k.touched <=> (j.touched \/ t),
         k.drifted <=> (j.drifted \/ j.step = "gate"),
         \A d \in Dirs : dirs'[d].manifest = dirs[d].manifest,
         ~t => UNCHANGED <<skill, dirs>>
  PROVE  JobHolds(k)'
<1>1. Formed(k) /\ Formed(j)
  BY DEF JobHolds, Formed
<1>2. RowsEarned(k)
  BY DEF JobHolds, RowsEarned
<1>3. CacheRan(k)
  BY DEF JobHolds, CacheRan, RanAsBound
<1>4. RoundHolds(k)'
  <2> SUFFICES ASSUME k.step \in {"core", "validation"}
               PROVE  /\ k.queue # <<>>
                      /\ k.touched \/ Hard(dirs[Head(k.queue)])' = {}
                      /\ k.step = "validation" =>
                           "core" \in GoodNames(k.cache, dirs'[Head(k.queue)].manifest.id)
    BY DEF RoundHolds, GoodNames
  <2>1. /\ j.queue # <<>>
        /\ j.touched \/ Hard(dirs[Head(j.queue)]) = {}
        /\ j.step = "validation" =>
             "core" \in GoodNames(j.cache, dirs[Head(j.queue)].manifest.id)
    BY DEF JobHolds, RoundHolds
  <2>2. Head(j.queue) \in Dirs
    BY <2>1, <1>1 DEF Formed
  <2>3. dirs'[Head(j.queue)].manifest = dirs[Head(j.queue)].manifest
    BY <2>2
  <2>4. k.touched \/ Hard(dirs[Head(k.queue)])' = {}
    BY <2>1 DEF Hard
  <2> QED BY <2>1, <2>3, <2>4
<1>5. GateHolds(k)'
  <2> SUFFICES ASSUME k.step = "gate"
               PROVE  /\ k.dir \in Dirs
                      /\ dirs'[k.dir].manifest = k.cand.manifest
                      /\ k.touched \/ (dirs'[k.dir] = k.cand /\ Hard(k.cand)' = {})
                      /\ k.drifted
                      /\ k.kind = "tournament" => Chosen(k)
    BY DEF GateHolds, Chosen, GoodNames
  <2>1. /\ j.dir \in Dirs /\ dirs[j.dir].manifest = j.cand.manifest
        /\ j.touched \/ (dirs[j.dir] = j.cand /\ Hard(j.cand) = {})
        /\ j.kind = "tournament" => Chosen(j)
    BY DEF JobHolds, GateHolds
  <2>2. k.kind = "tournament" => Chosen(k)
    BY <2>1 DEF Chosen
  <2>3. k.touched \/ (dirs'[k.dir] = k.cand /\ Hard(k.cand)' = {})
    BY <2>1 DEF Hard
  <2> QED BY <2>1, <2>2, <2>3
<1>6. MeasuredHolds(k)'
  <2>1. Len(j.measured) <= 2 /\ SoFar(j, j.measured)
    BY DEF JobHolds, MeasuredHolds
  <2>2. CASE j.step = "gate"
    <3> SUFFICES SoFar(k, k.measured)'
      BY <2>1 DEF MeasuredHolds
    <3>1. k.drifted /\ (j.touched => k.touched)
      BY <2>2
    <3> QED BY <2>1, <3>1 DEF SoFar, Suits, RanAsBound
  <2>3. CASE j.step # "gate"
    <3>1. k.measured = <<>>
      BY <2>3, <1>1 DEF Formed
    <3> QED BY <3>1 DEF MeasuredHolds, SoFar
  <2> QED BY <2>2, <2>3
<1> QED BY <1>1, <1>2, <1>3, <1>4, <1>5, <1>6
        DEF JobHolds, Formed, Shaped, RowsEarned, GoodNames, CacheRan, RanAsBound

LEMMA DriftKeeps ==
  ASSUME GateInv, NEW t \in BOOLEAN, Drift(t), UNCHANGED reports,
         DirsAreCandidates', suites' \in InitialSuites \cup NewSuites,
         \A d \in Dirs : dirs'[d].manifest = dirs[d].manifest,
         ~t => UNCHANGED <<skill, dirs>>
  PROVE  GateInv'
<1>1. PassIsMeasured' /\ StaticIsBare'
  BY DEF GateInv, PassIsMeasured, StaticIsBare
<1>2. ASSUME job' # Null
      PROVE  JobHolds(job)'
  <2>1. /\ job # Null
        /\ job' = Drifted(job, t)
    BY <1>2 DEF Drift, Drifted
  <2>2. PICK j, k : j = job /\ k = job'
    OBVIOUS
  <2>3. JobHolds(j)
    BY <2>1, <2>2 DEF GateInv
  <2>4. k = Drifted(j, t)
    BY <2>1, <2>2
  <2>5. /\ Shaped(k)
        /\ k.kind = j.kind /\ k.step = j.step /\ k.dir = j.dir /\ k.queue = j.queue
        /\ k.rows = j.rows /\ k.cache = j.cache /\ k.cand = j.cand /\ k.plan = j.plan
        /\ k.measured = j.measured
        /\ k.touched <=> (j.touched \/ t)
        /\ k.drifted <=> (j.drifted \/ j.step = "gate")
    BY <2>3, <2>4, JobDrifts DEF JobHolds, Formed
  <2>6. JobHolds(k)'
    BY <2>3, <2>5, DriftKeepsJob
  <2> QED BY <2>2, <2>6
<1> QED BY <1>1, <1>2 DEF GateInv

---------------------------------------------------------------------------
(* Reports.                                                                 *)

\* What PassIsMeasured says of one report.
PassHolds(r) ==
    (r.status = "PASS" /\ r.kind # "static") =>
        /\ [n \in DOMAIN r.measured |-> r.measured[n].name] = Names
        /\ \A m, n \in ToSet(r.measured) :
             /\ m.status = "PASS"
             /\ m.binding.host.version = n.binding.host.version
             /\ ~r.drifted => m.binding.host = n.binding.host
             /\ (~r.drifted /\ m # n) => TaskIds(m.binding.suite) \cap TaskIds(n.binding.suite) = {}
             /\ ~r.touched => m.ran = <<r.base, r.sha>>
             /\ (r.kind = "planned" /\ ~r.drifted) => m.binding = r.plan.bindings[m.name]

LEMMA ReportsStay ==
  ASSUME GateInv, NEW r, reports' = reports \cup {r}, PassHolds(r),
         r.kind = "static" => r.measured = <<>>
  PROVE  PassIsMeasured' /\ StaticIsBare'
<1>1. (\A x \in reports : PassHolds(x)) /\ StaticIsBare
  BY DEF GateInv, PassIsMeasured, PassHolds
<1>2. \A x \in reports' : x \in reports \/ x = r
  OBVIOUS
<1>3. \A x \in reports' : PassHolds(x)
  BY <1>1, <1>2
<1>4. PassIsMeasured'
  BY <1>3 DEF PassIsMeasured, PassHolds
<1> QED BY <1>1, <1>2, <1>4 DEF StaticIsBare

LEMMA BindingFields ==
  ASSUME NEW c, NEW n, NEW b, b = Binding(c, n)
  PROVE  /\ b.base = c.manifest.base /\ b.sha = c.manifest.sha /\ b.id = c.manifest.id
         /\ b.suite = Observed(n) /\ b.host = host
BY DEF Binding

\* The verdict is PASS only for three suites, each of which passed.
LEMMA VerdictOfAll ==
  ASSUME NEW s, s \in Seq(ToSet(s)), s # <<>>, Over(s), Verdict(s) = "PASS"
  PROVE  Len(s) = 3 /\ \A m \in ToSet(s) : m.status = "PASS"
<1>1. {m.status : m \in ToSet(s)} = {"PASS"}
  BY DEF Verdict
<1>2. \A m \in ToSet(s) : m.status = "PASS"
  BY <1>1
<1>3. Last(s) \in ToSet(s)
  BY DEF Last, ToSet
<1> QED BY <1>2, <1>3, TheNames DEF Over

\* A gate with one more replay.
LEMMA OneMore ==
  ASSUME NEW j, NEW r, Formed(j), MeasuredHolds(j), r.name = Names[Len(j.measured) + 1],
         Suits(j, r),
         \A m \in ToSet(j.measured) : m.binding.host.version = r.binding.host.version,
         NEW s, s = Append(j.measured, r)
  PROVE  /\ s \in Seq(ToSet(s)) /\ s # <<>> /\ Len(s) \in 1..3
         /\ DOMAIN s = 1..Len(s)
         /\ SoFar(j, s)
<1> DEFINE q == j.measured
<1>1. q \in Seq(ToSet(q)) /\ Len(q) \in Nat /\ Len(q) <= 2 /\ DOMAIN q = 1..Len(q)
  BY DEF Formed, MeasuredHolds
<1>2. SoFar(j, q)
  BY DEF MeasuredHolds
<1>3. \A i \in 1..Len(q) : q[i] \in ToSet(q)
  BY <1>1 DEF ToSet
<1> HIDE DEF q
<1>4. /\ s \in Seq(ToSet(q) \cup {r})
      /\ Len(s) = Len(q) + 1 /\ DOMAIN s = 1..(Len(q) + 1)
      /\ \A i \in 1..Len(q) : s[i] = q[i]
      /\ s[Len(q) + 1] = r
  BY <1>1 DEF q
<1>5. \A i \in DOMAIN s : s[i] \in ToSet(s)
  BY DEF ToSet
<1>6. s \in Seq(ToSet(s))
  BY <1>1, <1>4, <1>5
<1>7. \A i \in DOMAIN s : i \in DOMAIN q \/ i = Len(q) + 1
  BY <1>1, <1>4
<1>8. \A i \in DOMAIN s : s[i].name = Names[i] /\ Suits(j, s[i])
  BY <1>1, <1>2, <1>4, <1>7 DEF SoFar, q
<1>9. \A i, k \in DOMAIN s : s[i].binding.host.version = s[k].binding.host.version
  BY <1>1, <1>2, <1>3, <1>4, <1>7 DEF SoFar, q
<1> QED BY <1>1, <1>4, <1>6, <1>8, <1>9 DEF SoFar

LEMMA MeasuredKeeps ==
  ASSUME GateInv, NEW r, job # Null, job.step = "gate", r.name = Current,
         r.binding = Binding(job.cand, r.name), RanAsBound(job, r), SameVersion(r),
         Measured(r), UNCHANGED <<skill, dirs, suites, host>>
  PROVE  GateInv'
<1> DEFINE s == Append(job.measured, r)
<1>1. JobHolds(job)
  BY DEF GateInv
<1>2. Formed(job) /\ MeasuredHolds(job) /\ GateHolds(job)
  BY <1>1 DEF JobHolds
<1>3. Suits(job, r)
  BY BindingFields DEF Suits
<1>4. /\ s \in Seq(ToSet(s)) /\ s # <<>> /\ Len(s) \in 1..3 /\ DOMAIN s = 1..Len(s)
      /\ SoFar(job, s)
  BY <1>2, <1>3, OneMore DEF Current, SameVersion
<1>5. DirsAreCandidates' /\ suites' \in InitialSuites \cup NewSuites
  BY DEF GateInv, DirsAreCandidates
<1> HIDE DEF s
<1>6. CASE Over(s)
  <2> DEFINE rep == Report(job.kind, job.cand, Verdict(s), s, job.plan)
  <2>1. job' = Null /\ reports' = reports \cup {rep}
    BY <1>6 DEF Measured, s
  <2>2. /\ rep.kind = job.kind /\ rep.base = job.cand.manifest.base
        /\ rep.sha = job.cand.manifest.sha /\ rep.status = Verdict(s) /\ rep.measured = s
        /\ rep.plan = job.plan
        /\ rep.touched <=> job.touched
        /\ rep.drifted <=> job.drifted
    BY DEF Report
  <2> HIDE DEF rep
  <2>3. ASSUME rep.status = "PASS"
        PROVE  /\ [n \in DOMAIN s |-> s[n].name] = Names
               /\ \A m, n \in ToSet(s) :
                    /\ m.status = "PASS"
                    /\ m.binding.host.version = n.binding.host.version
                    /\ ~job.drifted => m.binding.host = n.binding.host
                    /\ (~job.drifted /\ m # n) =>
                          TaskIds(m.binding.suite) \cap TaskIds(n.binding.suite) = {}
                    /\ ~job.touched => m.ran = <<rep.base, rep.sha>>
                    /\ (job.kind = "planned" /\ ~job.drifted) =>
                          m.binding = job.plan.bindings[m.name]
    <3>1. Len(s) = 3 /\ \A m \in ToSet(s) : m.status = "PASS"
      BY <1>4, <1>6, <2>2, <2>3, VerdictOfAll
    <3>2. \A i \in 1..3 : s[i].name = Names[i] /\ Suits(job, s[i])
      BY <1>4, <3>1 DEF SoFar
    <3>3. [n \in DOMAIN s |-> s[n].name] = Names
      <4>1. Names = [n \in 1..3 |-> Names[n]]
        BY DEF Names
      <4> QED BY <1>4, <3>1, <3>2, <4>1
    <3>4. ASSUME NEW m \in ToSet(s), NEW n \in ToSet(s)
          PROVE  /\ m.binding.host.version = n.binding.host.version
                 /\ ~job.drifted => m.binding.host = n.binding.host
                 /\ (~job.drifted /\ m # n) =>
                       TaskIds(m.binding.suite) \cap TaskIds(n.binding.suite) = {}
                 /\ ~job.touched => m.ran = <<rep.base, rep.sha>>
                 /\ (job.kind = "planned" /\ ~job.drifted) =>
                       m.binding = job.plan.bindings[m.name]
      <4>1. PICK i \in 1..3, k \in 1..3 : m = s[i] /\ n = s[k]
        BY <1>4, <3>1 DEF ToSet
      <4>2. /\ m.name = Names[i] /\ n.name = Names[k]
            /\ Suits(job, m) /\ Suits(job, n)
        BY <3>2, <4>1
      <4>3. m.name \in ToSet(Names) /\ n.name \in ToSet(Names) /\ (m # n => m.name # n.name)
        BY <4>1, <4>2, TheNames
      <4>4. m.binding.host.version = n.binding.host.version
        BY <1>4, <3>1, <4>1 DEF SoFar
      <4>5. ~job.drifted =>
              /\ m.binding = Binding(job.cand, m.name) /\ n.binding = Binding(job.cand, n.name)
              /\ ~Overlap /\ (job.kind = "planned" => AsPlanned(job))
        BY <1>2, <4>2 DEF Suits, GateHolds
      <4>6. ~job.drifted =>
              /\ m.binding.host = host /\ n.binding.host = host
              /\ m.binding.suite = Observed(m.name) /\ n.binding.suite = Observed(n.name)
        BY <4>5, BindingFields
      <4>7. (~job.drifted /\ m # n) =>
               TaskIds(m.binding.suite) \cap TaskIds(n.binding.suite) = {}
        BY <4>3, <4>5, <4>6 DEF Overlap
      <4>8. ~job.touched => m.ran = <<rep.base, rep.sha>>
        BY <2>2, <4>2 DEF Suits, RanAsBound
      <4>9. (job.kind = "planned" /\ ~job.drifted) => m.binding = job.plan.bindings[m.name]
        BY <4>3, <4>5 DEF AsPlanned
      <4> QED BY <4>4, <4>6, <4>7, <4>8, <4>9
    <3> QED BY <3>1, <3>3, <3>4
  <2>4. PassHolds(rep)
    BY <2>2, <2>3 DEF PassHolds
  <2>5. rep.kind # "static"
    BY <1>2, <2>2 DEF Formed
  <2>6. PassIsMeasured' /\ StaticIsBare'
    BY <2>1, <2>4, <2>5, ReportsStay
  <2> QED BY <1>5, <2>1, <2>6 DEF GateInv
<1>7. CASE ~Over(s)
  <2>1. job' = HavingMeasured(job, s) /\ UNCHANGED reports
    BY <1>7 DEF Measured, HavingMeasured, s
  <2>2. PassIsMeasured' /\ StaticIsBare'
    BY <2>1 DEF GateInv, PassIsMeasured, StaticIsBare
  <2>3. Len(s) <= 2
    BY <1>4, <1>7, TheNames DEF Over
  <2>4. PICK j, k : j = job /\ k = job'
    OBVIOUS
  <2>5. /\ Shaped(k)
        /\ k.kind = j.kind /\ k.step = j.step /\ k.dir = j.dir /\ k.queue = j.queue
        /\ k.rows = j.rows /\ k.cache = j.cache /\ k.cand = j.cand /\ k.plan = j.plan
        /\ k.measured = s
        /\ k.touched = j.touched /\ k.drifted = j.drifted
    <3>1. Shaped(j) /\ k = HavingMeasured(j, s)
      BY <1>2, <2>1, <2>4 DEF Formed
    <3> QED BY <3>1, JobMeasures
  <2>6. Formed(k)
    BY <1>2, <1>4, <2>4, <2>5 DEF Formed
  <2>7. RowsEarned(k) /\ CacheRan(k)
    BY <1>1, <2>4, <2>5 DEF JobHolds, RowsEarned, CacheRan, RanAsBound
  <2>8. RoundHolds(k)'
    BY <2>4, <2>5 DEF RoundHolds
  <2>9. GateHolds(k)'
    <3>1. GateHolds(j)
      BY <1>2, <2>4
    <3> QED BY <3>1, <2>5
         DEF GateHolds, Chosen, AsPlanned, Hard, Overlap, Binding, Files, Tasks, Observed
  <2>10. MeasuredHolds(k)'
    <3>1. SoFar(j, s)
      BY <1>4, <2>4
    <3>2. \A c, n : Binding(c, n)' = Binding(c, n)
      BY DEF Binding, Observed, Tasks
    <3> QED BY <2>3, <2>5, <3>1, <3>2 DEF MeasuredHolds, SoFar, Suits, RanAsBound
  <2>11. JobHolds(k)'
    BY <2>6, <2>7, <2>8, <2>9, <2>10
       DEF JobHolds, Formed, Shaped, RowsEarned, GoodNames, CacheRan, RanAsBound
  <2> QED BY <1>5, <2>2, <2>4, <2>11 DEF GateInv
<1> QED BY <1>6, <1>7

---------------------------------------------------------------------------
(* A gate that is opened, for the candidate in directory d.                 *)

Bare(j) ==
    /\ Shaped(j) /\ j.kind \in {"gate", "planned", "tournament"}
    /\ j.queue \in Seq(Dirs) /\ j.measured = <<>> /\ RowsEarned(j) /\ CacheRan(j)

LEMMA OpenKeeps ==
  ASSUME GateInv, NEW j, NEW d \in Dirs, Bare(j), dirs[d] # Null, Open(j, d),
         (j.kind = "planned" /\ Hard(dirs[d]) = {} /\ ~Flagged(dirs[d]) /\ ~Overlap) =>
            \A n \in ToSet(Names) : j.plan.bindings[n] = Binding(dirs[d], n),
         j.kind = "tournament" => Chosen([j EXCEPT !.dir = d]),
         UNCHANGED <<skill, dirs, suites, host>>
  PROVE  GateInv'
<1> DEFINE c == dirs[d]
           failed == Hard(c) # {} \/ Flagged(c) \/ Overlap
<1>1. DirsAreCandidates' /\ suites' \in InitialSuites \cup NewSuites
  BY DEF GateInv, DirsAreCandidates
<1>2. CASE failed \/ (j.plan # Null /\ j.plan.applicability = "NOT_APPLICABLE")
  <2> DEFINE status == IF failed THEN "FAIL" ELSE "NOT_APPLICABLE"
             rep == [Report(j.kind, c, status, <<>>, j.plan) EXCEPT !.touched = j.touched]
  <2>1. job' = Null /\ reports' = reports \cup {rep}
    BY <1>2 DEF Open
  <2>2. rep.kind = j.kind /\ rep.status # "PASS"
    BY DEF Report
  <2>3. rep.kind # "static"
    BY <2>2 DEF Bare
  <2> HIDE DEF rep
  <2>4. PassHolds(rep)
    BY <2>2 DEF PassHolds
  <2>5. PassIsMeasured' /\ StaticIsBare'
    BY <2>1, <2>3, <2>4, ReportsStay
  <2> QED BY <1>1, <2>1, <2>5 DEF GateInv
<1>3. CASE ~(failed \/ (j.plan # Null /\ j.plan.applicability = "NOT_APPLICABLE"))
  <2>1. job' = Opened(j, d, c) /\ UNCHANGED reports
    BY <1>3 DEF Open, Opened
  <2>2. PassIsMeasured' /\ StaticIsBare'
    BY <2>1 DEF GateInv, PassIsMeasured, StaticIsBare
  <2>3. PICK k : k = job'
    OBVIOUS
  <2>4. /\ Shaped(k)
        /\ k.kind = j.kind /\ k.step = "gate" /\ k.dir = d /\ k.queue = j.queue
        /\ k.rows = j.rows /\ k.cache = j.cache /\ k.cand = c /\ k.plan = j.plan
        /\ k.measured = j.measured
        /\ k.touched = j.touched /\ k.drifted = j.drifted
    BY <2>1, <2>3, JobOpens DEF Bare
  <2>5. Formed(k)
    BY <2>4 DEF Bare, Formed
  <2>6. RowsEarned(k) /\ CacheRan(k)
    BY <2>4 DEF Bare, RowsEarned, CacheRan, RanAsBound
  <2>7. RoundHolds(k)'
    BY <2>4 DEF RoundHolds
  <2>8. GateHolds(k)'
    <3>1. Hard(c) = {} /\ ~Overlap
      BY <1>3
    <3>2. Hard(k.cand)' = {} /\ ~Overlap'
      BY <2>4, <3>1 DEF Hard, Overlap, Files, Tasks, Observed
    <3>3. k.kind = "planned" => AsPlanned(k)'
      BY <1>3, <2>4 DEF AsPlanned, Binding, Observed, Tasks
    <3>4. k.kind = "tournament" => Chosen(k)
      <4>1. /\ [j EXCEPT !.dir = d].queue = j.queue /\ [j EXCEPT !.dir = d].dir = d
            /\ [j EXCEPT !.dir = d].rows = j.rows /\ [j EXCEPT !.dir = d].cache = j.cache
        BY DEF Bare, Shaped
      <4> QED BY <2>4, <4>1 DEF Chosen
    <3>5. k.dir \in Dirs /\ dirs'[k.dir] # Null /\ dirs'[k.dir] = k.cand
      BY <2>4
    <3> QED BY <3>2, <3>3, <3>4, <3>5 DEF GateHolds, Chosen, GoodNames
  <2>9. MeasuredHolds(k)'
    BY <2>4 DEF Bare, MeasuredHolds, SoFar
  <2>10. JobHolds(k)'
    BY <2>5, <2>6, <2>7, <2>8, <2>9
       DEF JobHolds, Formed, Shaped, RowsEarned, GoodNames, CacheRan, RanAsBound
  <2> QED BY <1>1, <2>2, <2>3, <2>10 DEF GateInv
<1> QED BY <1>2, <1>3

---------------------------------------------------------------------------
(* The rounds of a tournament.                                              *)

LEMMA RoundReplay ==
  ASSUME JobHolds(job), job.step \in {"core", "validation"}, NEW n, NEW status, NEW gain,
         NEW r, r = Replay(Head(job.queue), n, status, gain)
  PROVE  /\ r.name = n /\ r.status = status
         /\ r.binding.id = dirs[Head(job.queue)].manifest.id
         /\ RanAsBound(job, r)
<1> DEFINE c == dirs[Head(job.queue)]
<1>1. /\ r.name = n /\ r.status = status
      /\ r.binding = Binding(c, n) /\ r.ran = <<skill, c.text>>
  BY DEF Replay
<1>2. r.binding.base = c.manifest.base /\ r.binding.sha = c.manifest.sha
        /\ r.binding.id = c.manifest.id
  BY <1>1, BindingFields
<1>3. job.touched \/ Hard(c) = {}
  BY DEF JobHolds, RoundHolds
<1>4. Hard(c) = {} => c.manifest.base = skill /\ c.manifest.sha = c.text
  BY HardIsSound
<1> QED BY <1>1, <1>2, <1>3, <1>4 DEF RanAsBound

LEMMA RoundGoesOn ==
  ASSUME GateInv, job # Null, job.step # "gate", job.queue # <<>>,
         NEW to \in {"core", "validation"}, NEW cache, job.cache \subseteq cache,
         \A r \in cache \ job.cache : RanAsBound(job, r),
         job.touched \/ Hard(dirs[Head(job.queue)]) = {},
         to = "validation" =>
            "core" \in GoodNames(cache, dirs[Head(job.queue)].manifest.id),
         job' = PassedOn(job, to, cache),
         UNCHANGED <<skill, dirs, suites, host, reports>>
  PROVE  GateInv'
<1>1. DirsAreCandidates' /\ suites' \in InitialSuites \cup NewSuites
  BY DEF GateInv, DirsAreCandidates
<1>2. PassIsMeasured' /\ StaticIsBare'
  BY DEF GateInv, PassIsMeasured, StaticIsBare
<1>3. PICK j, k : j = job /\ k = job'
  OBVIOUS
<1>4. JobHolds(j)
  BY <1>3 DEF GateInv
<1>5. Shaped(j) /\ k = PassedOn(j, to, cache)
  BY <1>3, <1>4 DEF JobHolds, Formed
<1>6. /\ Shaped(k)
      /\ k.kind = j.kind /\ k.step = to /\ k.dir = j.dir /\ k.queue = j.queue
      /\ k.rows = j.rows /\ k.cache = cache /\ k.cand = j.cand /\ k.plan = j.plan
      /\ k.measured = j.measured
      /\ k.touched = j.touched /\ k.drifted = j.drifted
  BY <1>5, JobPasses
<1>7. Formed(k) /\ k.measured = <<>>
  BY <1>3, <1>4, <1>6 DEF JobHolds, Formed
<1>8. RowsEarned(k) /\ CacheRan(k)
  BY <1>3, <1>4, <1>6 DEF JobHolds, RowsEarned, CacheRan, RanAsBound, GoodNames
<1>9. RoundHolds(k)'
  BY <1>3, <1>6 DEF RoundHolds, Hard, GoodNames
<1>10. GateHolds(k)' /\ MeasuredHolds(k)'
  BY <1>6, <1>7 DEF GateHolds, MeasuredHolds, SoFar
<1>11. JobHolds(k)'
  BY <1>7, <1>8, <1>9, <1>10
     DEF JobHolds, Formed, Shaped, RowsEarned, GoodNames, CacheRan, RanAsBound
<1> QED BY <1>1, <1>2, <1>3, <1>11 DEF GateInv

LEMMA RoundEnds ==
  ASSUME GateInv, job # Null, job.step # "gate", job.queue # <<>>, NEW row, NEW cache,
         job.cache \subseteq cache, \A r \in cache \ job.cache : RanAsBound(job, r),
         row.dir \in Dirs, row.gain \in {0, 1},
         row.status \in Good => {"core", "validation"} \subseteq GoodNames(cache, row.id),
         EndsRound(row, cache),
         UNCHANGED <<skill, dirs, suites, host, reports>>
  PROVE  GateInv'
<1>1. DirsAreCandidates' /\ suites' \in InitialSuites \cup NewSuites
  BY DEF GateInv, DirsAreCandidates
<1>2. PassIsMeasured' /\ StaticIsBare'
  BY DEF GateInv, PassIsMeasured, StaticIsBare
<1>3. PICK j, k : j = job /\ k = job'
  OBVIOUS
<1>4. JobHolds(j)
  BY <1>3 DEF GateInv
<1>5. Shaped(j) /\ k = EndedRound(j, row, cache)
  BY <1>3, <1>4 DEF JobHolds, Formed, EndsRound, EndedRound
<1>6. /\ Shaped(k)
      /\ k.kind = j.kind /\ k.step = "check" /\ k.dir = j.dir /\ k.queue = Tail(j.queue)
      /\ k.rows = j.rows \cup {row} /\ k.cache = cache /\ k.cand = j.cand
      /\ k.plan = j.plan /\ k.measured = j.measured
      /\ k.touched = j.touched /\ k.drifted = j.drifted
  BY <1>5, JobEndsRound
<1>7. Formed(k) /\ k.measured = <<>>
  BY <1>3, <1>4, <1>6 DEF JobHolds, Formed
<1>8. RowsEarned(k) /\ CacheRan(k)
  BY <1>3, <1>4, <1>6 DEF JobHolds, RowsEarned, CacheRan, RanAsBound, GoodNames
<1>9. RoundHolds(k)' /\ GateHolds(k)' /\ MeasuredHolds(k)'
  BY <1>6, <1>7 DEF RoundHolds, GateHolds, MeasuredHolds, SoFar
<1>10. JobHolds(k)'
  BY <1>7, <1>8, <1>9
     DEF JobHolds, Formed, Shaped, RowsEarned, GoodNames, CacheRan, RanAsBound
<1> QED BY <1>1, <1>2, <1>3, <1>10 DEF GateInv

LEMMA RowFields ==
  ASSUME NEW d, NEW status, NEW gain, NEW row, row = Row(d, status, gain)
  PROVE  row.dir = d /\ row.id = dirs[d].manifest.id /\ row.status = status /\ row.gain = gain
BY DEF Row

LEMMA HeadIsDir ==
  ASSUME GateInv, job # Null, job.queue # <<>>
  PROVE  Head(job.queue) \in Dirs
<1>1. job.queue \in Seq(Dirs)
  BY DEF GateInv, JobHolds, Formed
<1> QED BY <1>1

LEMMA CheckKeeps == ASSUME GateInv, CheckCandidate PROVE GateInv'
<1> DEFINE d == Head(job.queue)
<1>1. /\ job # Null /\ job.step = "check" /\ job.queue # <<>>
      /\ UNCHANGED <<skill, dirs, suites, host, reports>>
  BY DEF CheckCandidate, InRound
<1>2. CASE Hard(dirs[d]) = {} /\ ~Flagged(dirs[d])
  <2>1. Shaped(job) /\ job' = [job EXCEPT !.step = "core"]
    BY <1>1, <1>2 DEF CheckCandidate, Passes, GateInv, JobHolds, Formed
  <2>2. job' = PassedOn(job, "core", job.cache)
    BY <2>1 DEF Shaped, PassedOn
  <2> QED BY <1>1, <1>2, <2>2, RoundGoesOn
<1>3. CASE ~(Hard(dirs[d]) = {} /\ ~Flagged(dirs[d]))
  <2> DEFINE row == Row(d, "FAIL", 0)
  <2>1. EndsRound(row, job.cache)
    BY <1>3 DEF CheckCandidate
  <2>2. row.dir = d /\ row.status = "FAIL" /\ row.gain = 0
    BY RowFields
  <2> HIDE DEF row
  <2>3. row.status \notin Good
    BY <2>2 DEF Good
  <2> QED BY <1>1, <2>1, <2>2, <2>3, HeadIsDir, RoundEnds
<1> QED BY <1>2, <1>3

LEMMA CoreKeeps == ASSUME GateInv, ReplayCore PROVE GateInv'
<1> DEFINE d == Head(job.queue)
<1>1. /\ job # Null /\ job.step = "core" /\ job.queue # <<>>
      /\ UNCHANGED <<skill, dirs, suites, host, reports>>
      /\ JobHolds(job)
  BY DEF ReplayCore, InRound, GateInv
<1>2. PICK status \in Statuses :
        LET r == Replay(d, "core", status, 0)
        IN  IF status \in Good
            THEN job' = [job EXCEPT !.step = "validation", !.cache = @ \cup {r}]
            ELSE EndsRound(Row(d, status, 0), job.cache)
  BY DEF ReplayCore
<1>3. CASE status \in Good
  <2> DEFINE r == Replay(d, "core", status, 0)
             cache == job.cache \cup {r}
  <2>1. job' = [job EXCEPT !.step = "validation", !.cache = @ \cup {r}]
    BY <1>2, <1>3
  <2>2. job' = PassedOn(job, "validation", cache)
    BY <1>1, <2>1 DEF PassedOn, JobHolds, Formed, Shaped
  <2>3. r.name = "core" /\ r.status = status /\ r.binding.id = dirs[d].manifest.id
          /\ RanAsBound(job, r)
    BY <1>1, RoundReplay
  <2>4. job.touched \/ Hard(dirs[d]) = {}
    BY <1>1 DEF JobHolds, RoundHolds
  <2> HIDE DEF r
  <2>5. "core" \in GoodNames(cache, dirs[d].manifest.id)
    BY <1>3, <2>3 DEF GoodNames
  <2>6. \A x \in cache \ job.cache : RanAsBound(job, x)
    BY <2>3
  <2> QED BY <1>1, <2>2, <2>4, <2>5, <2>6, RoundGoesOn
<1>4. CASE status \notin Good
  <2> DEFINE row == Row(d, status, 0)
  <2>1. EndsRound(row, job.cache)
    BY <1>2, <1>4
  <2>2. row.dir = d /\ row.status = status /\ row.gain = 0
    BY RowFields
  <2> HIDE DEF row
  <2> QED BY <1>1, <1>4, <2>1, <2>2, HeadIsDir, RoundEnds
<1> QED BY <1>3, <1>4

LEMMA ValidationKeeps == ASSUME GateInv, ReplayValidation PROVE GateInv'
<1> DEFINE d == Head(job.queue)
<1>1. /\ job # Null /\ job.step = "validation" /\ job.queue # <<>>
      /\ UNCHANGED <<skill, dirs, suites, host, reports>>
      /\ JobHolds(job)
  BY DEF ReplayValidation, InRound, GateInv
<1>2. PICK status \in Statuses, gain \in {0, 1} :
        EndsRound(Row(d, status, gain),
                  job.cache \cup {Replay(d, "validation", status, gain)})
  BY DEF ReplayValidation
<1> DEFINE r == Replay(d, "validation", status, gain)
           cache == job.cache \cup {r}
           row == Row(d, status, gain)
<1>3. r.name = "validation" /\ r.status = status /\ r.binding.id = dirs[d].manifest.id
        /\ RanAsBound(job, r)
  BY <1>1, RoundReplay
<1>4. row.dir = d /\ row.id = dirs[d].manifest.id /\ row.status = status /\ row.gain = gain
  BY RowFields
<1>5. EndsRound(row, cache)
  BY <1>2
<1>6. "core" \in GoodNames(job.cache, dirs[d].manifest.id)
  BY <1>1 DEF JobHolds, RoundHolds
<1> HIDE DEF r, row
<1>7. row.status \in Good => {"core", "validation"} \subseteq GoodNames(cache, row.id)
  BY <1>3, <1>4, <1>6 DEF GoodNames
<1>8. \A x \in cache \ job.cache : RanAsBound(job, x)
  BY <1>3
<1> QED BY <1>1, <1>4, <1>5, <1>7, <1>8, HeadIsDir, RoundEnds

---------------------------------------------------------------------------
(* Commands.                                                                *)

LEMMA TournamentKeeps == ASSUME GateInv, Tournament PROVE GateInv'
<1>1. PICK d \in Dirs, e \in Dirs : job' = Contest(<<d, e>>)
  BY DEF Tournament, Contest
<1>2. UNCHANGED <<skill, dirs, suites, host, reports>>
  BY DEF Tournament
<1>3. DirsAreCandidates' /\ suites' \in InitialSuites \cup NewSuites
  BY <1>2 DEF GateInv, DirsAreCandidates
<1>4. PassIsMeasured' /\ StaticIsBare'
  BY <1>2 DEF GateInv, PassIsMeasured, StaticIsBare
<1>5. PICK k : k = job'
  OBVIOUS
<1>6. /\ Shaped(k)
      /\ k.kind = "tournament" /\ k.step = "check" /\ k.queue = <<d, e>> /\ k.rows = {}
      /\ k.cache = {} /\ k.measured = <<>>
  BY <1>1, <1>5, ContestStarts
<1>7. <<d, e>> \in Seq(Dirs)
  OBVIOUS
<1>8. JobHolds(k)'
  BY <1>6, <1>7
     DEF JobHolds, Formed, Shaped, RowsEarned, CacheRan, RoundHolds, GateHolds,
         MeasuredHolds, SoFar
<1> QED BY <1>3, <1>4, <1>5, <1>8 DEF GateInv

LEMMA GateObservedKeeps ==
  ASSUME GateInv, NEW d \in Dirs, GateObserved(d) PROVE GateInv'
<1>1. /\ dirs[d] # Null /\ Open(NoJob, d)
      /\ UNCHANGED <<skill, dirs, suites, host>>
  BY DEF GateObserved, Usable
<1>2. Bare(NoJob) /\ NoJob.kind = "gate"
  BY NoJobYet DEF Bare, RowsEarned, CacheRan
<1> QED BY <1>1, <1>2, OpenKeeps

LEMMA GatePlannedKeeps ==
  ASSUME GateInv, NEW d \in Dirs, GatePlanned(d) PROVE GateInv'
<1> DEFINE j == Planned(plan)
<1>1. /\ dirs[d] # Null /\ Open(j, d)
      /\ (Hard(dirs[d]) = {} /\ ~Flagged(dirs[d]) /\ ~Overlap) => PlanHolds(dirs[d])
      /\ UNCHANGED <<skill, dirs, suites, host>>
  BY DEF GatePlanned, Usable, Planned
<1>4. PICK x : x = j
  OBVIOUS
<1>5. Shaped(x) /\ x.rows = {} /\ x.cache = {} /\ x.queue = <<>>
      /\ x.measured = <<>> /\ x.kind = "planned" /\ x.plan = plan
  BY <1>4, PlannedStarts
<1>6. Bare(x) /\ x.kind = "planned" /\ x.plan = plan
  BY <1>5 DEF Bare, RowsEarned, CacheRan
<1>2. Bare(j) /\ j.kind = "planned" /\ j.plan = plan
  BY <1>4, <1>6
<1> HIDE DEF j
<1>3. (Hard(dirs[d]) = {} /\ ~Flagged(dirs[d]) /\ ~Overlap) =>
         \A n \in ToSet(Names) : j.plan.bindings[n] = Binding(dirs[d], n)
  BY <1>1, <1>2 DEF PlanHolds
<1> QED BY <1>1, <1>2, <1>3, OpenKeeps

\* A winner gained as much as any finalist.
LEMMA SelectKeeps == ASSUME GateInv, Select PROVE GateInv'
<1>1. /\ job # Null /\ job.kind = "tournament" /\ job.step = "check" /\ job.queue = <<>>
      /\ UNCHANGED <<skill, dirs, suites, host>>
      /\ JobHolds(job)
  BY DEF Select, GateInv
<1>2. CASE Finalists = {}
  <2>1. job' = Null /\ UNCHANGED reports
    BY <1>2 DEF Select
  <2> QED BY <1>1, <2>1 DEF GateInv, DirsAreCandidates, PassIsMeasured, StaticIsBare
<1>3. CASE Finalists # {}
  <2>1. PICK w \in Winners : Usable(w.dir) /\ Open(job, w.dir)
    BY <1>3 DEF Select
  <2>2. w \in job.rows /\ w.status \in Good
    BY DEF Winners, Finalists
  <2>3. \A r \in job.rows : r.status \in Good => r.gain <= w.gain
    <3> SUFFICES ASSUME NEW r \in job.rows, r.status \in Good
                 PROVE  r.gain <= w.gain
      OBVIOUS
    <3>1. ~Better(r, w)
      BY DEF Winners, Finalists
    <3>2. r.gain \in {0, 1} /\ w.gain \in {0, 1}
      BY <1>1, <2>2 DEF JobHolds, RowsEarned
    <3> QED BY <3>1, <3>2 DEF Better
  <2>4. {"core", "validation"} \subseteq GoodNames(job.cache, w.id)
    BY <1>1, <2>2 DEF JobHolds, RowsEarned
  <2>5. w.dir \in Dirs /\ dirs[w.dir] # Null
    BY <1>1, <2>1, <2>2 DEF Usable, JobHolds, RowsEarned
  <2>6. Bare(job)
    BY <1>1 DEF Bare, JobHolds, Formed
  <2>7. Chosen([job EXCEPT !.dir = w.dir])
    <3>1. /\ [job EXCEPT !.dir = w.dir].queue = job.queue
          /\ [job EXCEPT !.dir = w.dir].dir = w.dir
          /\ [job EXCEPT !.dir = w.dir].rows = job.rows
          /\ [job EXCEPT !.dir = w.dir].cache = job.cache
      BY <1>1 DEF JobHolds, Formed, Shaped
    <3> QED BY <1>1, <2>2, <2>3, <2>4, <3>1 DEF Chosen
  <2> QED BY <1>1, <2>1, <2>5, <2>6, <2>7, OpenKeeps
<1> QED BY <1>2, <1>3

LEMMA MeasureCachedKeeps == ASSUME GateInv, MeasureCached PROVE GateInv'
<1>1. PICK r \in job.cache :
        /\ Measuring(r.name) /\ Verifies(r) /\ SameVersion(r) /\ Measured(r)
  BY DEF MeasureCached
<1>2. /\ job # Null /\ job.step = "gate" /\ r.name = Current
      /\ UNCHANGED <<skill, dirs, suites, host>>
  BY <1>1 DEF Measuring
<1>3. RanAsBound(job, r)
  BY <1>2 DEF GateInv, JobHolds, CacheRan
<1> QED BY <1>1, <1>2, <1>3, MeasuredKeeps DEF Verifies

LEMMA MeasureFreshKeeps == ASSUME GateInv, MeasureFresh PROVE GateInv'
<1>1. PICK n \in ToSet(Names), status \in Statuses :
        /\ Measuring(n)
        /\ LET r == Replay(job.dir, n, status, 0)
           IN  SameVersion(r) /\ Measured(r)
  BY DEF MeasureFresh
<1> DEFINE r == Replay(job.dir, n, status, 0)
           c == dirs[job.dir]
<1>2. /\ job # Null /\ job.step = "gate" /\ n = Current
      /\ UNCHANGED <<skill, dirs, suites, host>>
  BY <1>1 DEF Measuring
<1>3. c.manifest = job.cand.manifest /\ (job.touched \/ (c = job.cand /\ Hard(job.cand) = {}))
  BY <1>2 DEF GateInv, JobHolds, GateHolds
<1>4. r.name = n /\ r.binding = Binding(c, n) /\ r.ran = <<skill, c.text>>
  BY DEF Replay
<1>5. r.binding = Binding(job.cand, n)
  BY <1>3, <1>4 DEF Binding
<1>6. RanAsBound(job, r)
  <2>1. r.binding.base = c.manifest.base /\ r.binding.sha = c.manifest.sha
    BY <1>4, BindingFields
  <2>2. Hard(c) = {} => c.manifest.base = skill /\ c.manifest.sha = c.text
    BY HardIsSound
  <2> QED BY <1>3, <1>4, <2>1, <2>2 DEF RanAsBound
<1>7. SameVersion(r) /\ Measured(r)
  BY <1>1
<1> HIDE DEF r
<1> QED BY <1>2, <1>4, <1>5, <1>6, <1>7, MeasuredKeeps

\* With no command running, candidates are made and gated statically.
LEMMA QuietKeeps ==
  ASSUME GateInv, job = Null, UNCHANGED <<job, suites>>, DirsAreCandidates',
         PassIsMeasured' /\ StaticIsBare'
  PROVE  GateInv'
BY DEF GateInv

LEMMA MadeKeeps ==
  ASSUME GateInv, NEW d \in Dirs, Propose(d) \/ HandMake(d) PROVE GateInv'
<1>1. job = Null /\ UNCHANGED <<job, suites, reports>>
  BY DEF Propose, HandMake, Turn
<1>2. \E m, t : dirs' = [dirs EXCEPT ![d] = [manifest |-> m, text |-> t]]
  BY DEF Propose, HandMake
<1>3. DirsAreCandidates'
  BY <1>2 DEF GateInv, DirsAreCandidates
<1>4. PassIsMeasured' /\ StaticIsBare'
  BY <1>1 DEF GateInv, PassIsMeasured, StaticIsBare
<1> QED BY <1>1, <1>3, <1>4, QuietKeeps

LEMMA StaticKeeps ==
  ASSUME GateInv, NEW d \in Dirs, StaticGate(d) \/ PlanGate(d) PROVE GateInv'
<1>1. job = Null /\ UNCHANGED <<job, suites, dirs>>
  BY DEF StaticGate, PlanGate, Turn
<1>2. DirsAreCandidates'
  BY <1>1 DEF GateInv, DirsAreCandidates
<1>3. CASE StaticGate(d)
  <2> DEFINE rep == Report("static", dirs[d],
                           IF StaticPass(dirs[d]) THEN "PASS" ELSE "FAIL", <<>>, Null)
  <2>1. reports' = reports \cup {rep}
    BY <1>3 DEF StaticGate
  <2>2. rep.kind = "static" /\ rep.measured = <<>>
    BY DEF Report
  <2> HIDE DEF rep
  <2>3. PassHolds(rep)
    BY <2>2 DEF PassHolds
  <2> QED BY <1>1, <1>2, <2>1, <2>2, <2>3, ReportsStay, QuietKeeps
<1>4. CASE PlanGate(d)
  <2>1. UNCHANGED reports
    BY <1>4 DEF PlanGate
  <2>2. PassIsMeasured' /\ StaticIsBare'
    BY <2>1 DEF GateInv, PassIsMeasured, StaticIsBare
  <2> QED BY <1>1, <1>2, <2>2, QuietKeeps
<1> QED BY <1>3, <1>4

LEMMA SurroundingsKeep ==
  ASSUME GateInv, EditSkill \/ EditSuites \/ \E what \in {"version", "scorer"} : Upgrade(what)
  PROVE  GateInv'
<1>1. UNCHANGED <<dirs, reports>>
  BY DEF EditSkill, EditSuites, Upgrade
<1>2. DirsAreCandidates'
  BY <1>1 DEF GateInv, DirsAreCandidates
<1>3. CASE EditSkill
  <2>1. Drift(TRUE) /\ UNCHANGED suites
    BY <1>3 DEF EditSkill
  <2>2. suites' \in InitialSuites \cup NewSuites
    BY <2>1 DEF GateInv
  <2> QED BY <1>1, <1>2, <2>1, <2>2, DriftKeeps
<1>4. CASE EditSuites
  <2>1. Drift(FALSE) /\ UNCHANGED skill /\ suites' \in InitialSuites \cup NewSuites
    BY <1>4 DEF EditSuites
  <2> QED BY <1>1, <1>2, <2>1, DriftKeeps
<1>5. CASE \E what \in {"version", "scorer"} : Upgrade(what)
  <2>1. Drift(FALSE) /\ UNCHANGED <<skill, suites>>
    BY <1>5 DEF Upgrade
  <2>2. suites' \in InitialSuites \cup NewSuites
    BY <2>1 DEF GateInv
  <2> QED BY <1>1, <1>2, <2>1, <2>2, DriftKeeps
<1> QED BY <1>3, <1>4, <1>5

LEMMA EditKeeps ==
  ASSUME GateInv, NEW d \in Dirs, EditCandidate(d) PROVE GateInv'
<1>1. Drift(TRUE) /\ UNCHANGED <<suites, reports>> /\ dirs[d] # Null
  BY DEF EditCandidate
<1>2. PICK t : dirs' = [dirs EXCEPT ![d].text = t]
  BY DEF EditCandidate
<1>3. dirs[d] = [manifest |-> dirs[d].manifest, text |-> dirs[d].text]
  BY <1>1 DEF GateInv, DirsAreCandidates
<1>4. dirs' = [dirs EXCEPT ![d] = [manifest |-> dirs[d].manifest, text |-> t]]
  <2>1. [dirs[d] EXCEPT !.text = t] = [manifest |-> dirs[d].manifest, text |-> t]
    BY <1>3
  <2>2. dirs' = [dirs EXCEPT ![d] = [dirs[d] EXCEPT !.text = t]]
    BY <1>2
  <2> QED BY <2>1, <2>2
<1>5. DirsAreCandidates'
  BY <1>4 DEF GateInv, DirsAreCandidates
<1>6. suites' \in InitialSuites \cup NewSuites
  BY <1>1 DEF GateInv
<1>7. \A e \in Dirs : dirs'[e].manifest = dirs[e].manifest
  <2>1. \A e \in Dirs : dirs'[e] = IF e = d THEN [manifest |-> dirs[d].manifest, text |-> t]
                                   ELSE dirs[e]
    BY <1>4 DEF GateInv, DirsAreCandidates
  <2> QED BY <2>1
<1> QED BY <1>1, <1>5, <1>6, <1>7, DriftKeeps

LEMMA FailKeeps == ASSUME GateInv, Fail PROVE GateInv'
BY DEF GateInv, Fail, DirsAreCandidates, PassIsMeasured, StaticIsBare

LEMMA GateStep == GateInv /\ [GateNext]_gateVars => GateInv'
<1> SUFFICES ASSUME GateInv, [GateNext]_gateVars
             PROVE  GateInv'
  OBVIOUS
<1>1. CASE UNCHANGED gateVars
  BY <1>1 DEF gateVars, GateInv, DirsAreCandidates, PassIsMeasured, StaticIsBare, JobHolds,
              Formed, Shaped, RowsEarned, GoodNames, CacheRan, RanAsBound, RoundHolds, Hard,
              GateHolds, Chosen, AsPlanned, Overlap, Files, Tasks, Observed, Binding,
              MeasuredHolds, SoFar, Suits
<1>2. CASE \E d \in Dirs :
             \/ Propose(d) \/ HandMake(d) \/ EditCandidate(d)
             \/ StaticGate(d) \/ PlanGate(d) \/ GateObserved(d) \/ GatePlanned(d)
  BY <1>2, MadeKeeps, EditKeeps, StaticKeeps, GateObservedKeeps, GatePlannedKeeps
<1>3. CASE EditSkill \/ EditSuites \/ \E what \in {"version", "scorer"} : Upgrade(what)
  BY <1>3, SurroundingsKeep
<1>4. CASE Tournament \/ CheckCandidate \/ ReplayCore \/ ReplayValidation \/ Select
  BY <1>4, TournamentKeeps, CheckKeeps, CoreKeeps, ValidationKeeps, SelectKeeps
<1>5. CASE MeasureCached \/ MeasureFresh \/ Fail
  BY <1>5, MeasureCachedKeeps, MeasureFreshKeeps, FailKeeps
<1> QED BY <1>1, <1>2, <1>3, <1>4, <1>5 DEF GateNext

\* What a gate lets through was measured as it is, on suites that were apart, and the
\* suite kept for the end was opened for one candidate of a tournament, whatever
\* changes around the commands.
THEOREM GatesAreAlwaysEarned == GateSpec => []GatesAreEarned
<1>1. GateInit => GateInv
  BY GateInitially
<1>2. GateInv /\ [GateNext]_gateVars => GateInv'
  BY GateStep
<1>3. GateInv => GatesAreEarned
  BY GateInvSuffices
<1> QED BY <1>1, <1>2, <1>3, PTL DEF GateSpec

(***************************************************************************)
(* A rollout                                                               *)
(***************************************************************************)

\* What a Trace report says is what a traced command did: how it ended, on which
\* sources, and under which contract.
Honest(report, happened, files) ==
    \E r \in happened :
        /\ r.child = report.argv /\ r.passed = report.passed
        /\ Source \in DOMAIN report.snapshot => r.source = report.snapshot[Source]
        /\ report.proof # NotYet =>
              /\ Intent \in DOMAIN files
              /\ report.proof.sha = r.intent
              /\ report.proof.command = report.proof.sha[2][report.proof.id].command

SealsAreHonest(happened, files) ==
    \A f \in DOMAIN files :
        /\ files[f][1] \in {"text", "intent", "log", "report", "seal"}
        /\ files[f][1] = "seal" => Honest(files[f][2], happened, files)

FilesInv ==
    /\ Source \in DOMAIN fixture /\ \A f \in DOMAIN fixture : Untraced(fixture[f])
    /\ phase # "hash" => Source \in DOMAIN hashed
    /\ phase \in {"work", "ended", "scored"} => before = hashed /\ Source \in DOMAIN workspace
    /\ SealsAreHonest(ran, workspace)

Ended(id, printed) ==
    \E m \in 1..Len(printed) : printed[m].kind = "done" /\ printed[m].id = id
OfCommand(n) == lines[n].kind \in {"use", "done"}

LinesAreTyped ==
    /\ lines \in Seq({lines[n] : n \in 1..Len(lines)})
    /\ \A n \in 1..Len(lines) : lines[n].id \in 0..Len(lines)
    /\ running # NotYet => running.id \in 0..Len(lines)

\* The lines of a command have its number and nobody else's.
NumbersAreUnique ==
    /\ \A n, m \in 1..Len(lines) :
          OfCommand(n) /\ OfCommand(m) /\ lines[n].id = lines[m].id
             => lines[n].command = lines[m].command
    /\ \A n \in 1..Len(lines) :
          OfCommand(n) /\ running # NotYet /\ lines[n].id = running.id
             => lines[n].command = running.command

\* A command that a script started is told to have ended, or is running.
UsesEnd ==
    scene.runner = "scripted" => \A n \in 1..Len(lines) :
        lines[n].kind = "use" =>
            Ended(lines[n].id, lines) \/ (running # NotYet /\ running.id = lines[n].id)

\* A Trace that is told to have succeeded has its report.
TracesAreThere ==
    \A n \in 1..Len(lines) :
        lines[n].kind = "done" /\ lines[n].zero /\ IsTrace(lines[n].command) =>
            ReportFile(lines[n].command.out) \in DOMAIN workspace

LinesInv == LinesAreTyped /\ NumbersAreUnique /\ UsesEnd /\ TracesAreThere

PhaseInv ==
    phase \in {"ended", "scored"} /\ outcome.kind = "exit" /\ scene.runner = "scripted" =>
        running = NotYet

RolloutInv == RolloutTypeOK /\ FilesInv /\ LinesInv /\ PhaseInv
---------------------------------------------------------------------------
\* A seal stays honest while traced commands are added and no file is removed.
LEMMA HonestStays ==
  ASSUME NEW report, NEW happened, NEW files, NEW later, NEW after,
         happened \subseteq later, DOMAIN files \subseteq DOMAIN after,
         Honest(report, happened, files)
  PROVE  Honest(report, later, after)
  BY DEF Honest

\* A file that is written is there, and nothing is removed.
LEMMA PutKeeps ==
  ASSUME NEW files, NEW path, NEW content
  PROVE  DOMAIN files \subseteq DOMAIN Put(files, path, content)
         /\ path \in DOMAIN Put(files, path, content)
  BY DEF Put

\* So they do when a file that is no seal, or is an honest one, is written.
LEMMA PutHonest ==
  ASSUME NEW happened, NEW files, NEW path, NEW content, SealsAreHonest(happened, files),
         content[1] \in {"text", "intent", "log", "report", "seal"},
         content[1] = "seal" => Honest(content[2], happened, Put(files, path, content))
  PROVE  SealsAreHonest(happened, Put(files, path, content))
<1> DEFINE new == Put(files, path, content)
<1>0. /\ DOMAIN new = DOMAIN files \cup {path} /\ new[path] = content
      /\ \A f \in DOMAIN files : f # path => new[f] = files[f]
  BY DEF Put
<1>1. SUFFICES ASSUME NEW f \in DOMAIN new
               PROVE  /\ new[f][1] \in {"text", "intent", "log", "report", "seal"}
                      /\ new[f][1] = "seal" => Honest(new[f][2], happened, new)
  BY DEF SealsAreHonest
<1> HIDE DEF new
<1>2. CASE f = path
  <2>1. content[1] = "seal" => Honest(content[2], happened, new)
    BY DEF new
  <2> QED BY <1>0, <1>2, <2>1
<1>3. CASE f # path
  <2>1. f \in DOMAIN files /\ new[f] = files[f] /\ DOMAIN files \subseteq DOMAIN new
    BY <1>0, <1>3
  <2>2. files[f][1] \in {"text", "intent", "log", "report", "seal"}
    BY <2>1 DEF SealsAreHonest
  <2>3. ASSUME files[f][1] = "seal" PROVE Honest(files[f][2], happened, new)
    <3>1. Honest(files[f][2], happened, files)
      BY <2>1, <2>3 DEF SealsAreHonest
    <3> QED BY <2>1, <3>1, HonestStays
  <2> QED BY <2>1, <2>2, <2>3
<1>4. QED BY <1>2, <1>3

\* And when a traced command is added.
LEMMA MoreHonest ==
  ASSUME NEW happened, NEW later, NEW files, SealsAreHonest(happened, files),
         happened \subseteq later
  PROVE  SealsAreHonest(later, files)
  BY HonestStays DEF SealsAreHonest

\* What is recorded of a traced command.
Happened(c, files) ==
    [child |-> c.child, passed |-> TestPasses(c.child, files),
     source |-> Ran(c.child, files)[Source], intent |-> Sha(files, Intent)]

\* trace_command writes an honest seal and removes nothing.
LEMMA TracedHonest ==
  ASSUME NEW c, NEW files, NEW happened, SealsAreHonest(happened, files), Bindable(c, files),
         Happened(c, files) \in happened
  PROVE  LET new == Traced(c, files, Run(c.child, files)) IN
         /\ DOMAIN files \subseteq DOMAIN new
         /\ ReportFile(c.out) \in DOMAIN new
         /\ SealsAreHonest(happened, new)
<1> DEFINE left == Ran(c.child, files)
           logged == Put(left, LogFile(c.out), <<"log", c.child, TestPasses(c.child, files)>>)
           report == [argv |-> c.child, passed |-> TestPasses(c.child, files),
                      proof |-> Proof(c, files),
                      artifacts |-> {Captured(a, logged, files) : a \in c.artifacts},
                      log |-> logged[LogFile(c.out)], snapshot |-> Snapshot(logged, c.out)]
           reported == Put(logged, ReportFile(c.out), <<"report", report>>)
           new == Put(reported, SealFile(c.out), SealOf(report))
<1>1. Traced(c, files, Run(c.child, files)) = new
  BY DEF Traced, Run
<1>2. DOMAIN files \subseteq DOMAIN left /\ SealsAreHonest(happened, left)
  <2>1. CASE c.child = "test"
    <3> DEFINE text == <<"text", files[Source][2], "token">>
    <3>1. left = Put(files, Build, text)
      BY <2>1 DEF Ran
    <3>2. text[1] = "text"
      OBVIOUS
    <3> HIDE DEF text, left
    <3>3. SealsAreHonest(happened, Put(files, Build, text))
      BY <3>2, PutHonest
    <3>4. DOMAIN files \subseteq DOMAIN Put(files, Build, text)
      BY PutKeeps
    <3> QED BY <3>1, <3>3, <3>4
  <2>2. CASE c.child # "test"
    BY <2>2 DEF Ran
  <2> QED BY <2>1, <2>2
<1>3. DOMAIN left \subseteq DOMAIN logged /\ SealsAreHonest(happened, logged)
  <2> DEFINE log == <<"log", c.child, TestPasses(c.child, files)>>
  <2>1. log[1] = "log"
    OBVIOUS
  <2>2. logged = Put(left, LogFile(c.out), log)
    OBVIOUS
  <2> HIDE DEF log, left, logged
  <2>3. SealsAreHonest(happened, Put(left, LogFile(c.out), log))
    BY <1>2, <2>1, PutHonest
  <2>4. DOMAIN left \subseteq DOMAIN Put(left, LogFile(c.out), log)
    BY PutKeeps
  <2> QED BY <2>2, <2>3, <2>4
<1>4. Source \in DOMAIN report.snapshot => report.snapshot[Source] = left[Source]
  <2>1. SUFFICES ASSUME Source \in DOMAIN Snapshot(logged, c.out)
                 PROVE  Snapshot(logged, c.out)[Source] = left[Source]
    OBVIOUS
  <2>2. Source \in DOMAIN logged /\ Snapshot(logged, c.out)[Source] = logged[Source]
    <3> QED BY <2>1 DEF Snapshot, Restrict
  <2>3. Source # LogFile(c.out)
    BY DEF Source, File, LogFile
  <2>4. logged[Source] = left[Source]
    <3> DEFINE log == <<"log", c.child, TestPasses(c.child, files)>>
    <3>1. logged = Put(left, LogFile(c.out), log)
      OBVIOUS
    <3> HIDE DEF left, logged, log
    <3>2. Source \in DOMAIN Put(left, LogFile(c.out), log)
      BY <2>2, <3>1
    <3>3. Put(left, LogFile(c.out), log)[Source] = left[Source]
      BY <2>3, <3>2 DEF Put
    <3> QED BY <3>1, <3>3
  <2> QED BY <2>2, <2>4
<1>5. Proof(c, files) # NotYet =>
        /\ Intent \in DOMAIN files
        /\ Proof(c, files).sha = Sha(files, Intent)
        /\ Proof(c, files).command = Proof(c, files).sha[2][Proof(c, files).id].command
  <2>1. SUFFICES ASSUME c.proof # "none"
                 PROVE  /\ Intent \in DOMAIN files
                        /\ files[Intent] = Sha(files, Intent)
                        /\ Declared(files)[c.proof].command = files[Intent][2][c.proof].command
    BY DEF Proof
  <2>2. c.proof \in DOMAIN Declared(files)
    BY <2>1 DEF Bindable
  <2>3. Intent \in DOMAIN files
    BY <2>2 DEF Declared
  <2> QED BY <2>3 DEF Declared, Sha
<1>6. DOMAIN logged \subseteq DOMAIN reported /\ SealsAreHonest(happened, reported)
      /\ ReportFile(c.out) \in DOMAIN reported
  <2> DEFINE content == <<"report", report>>
  <2>1. content[1] = "report"
    OBVIOUS
  <2>2. reported = Put(logged, ReportFile(c.out), content)
    OBVIOUS
  <2> HIDE DEF content, logged, reported
  <2>3. SealsAreHonest(happened, Put(logged, ReportFile(c.out), content))
    BY <1>3, <2>1, PutHonest
  <2>4. DOMAIN logged \subseteq DOMAIN Put(logged, ReportFile(c.out), content)
        /\ ReportFile(c.out) \in DOMAIN Put(logged, ReportFile(c.out), content)
    BY PutKeeps
  <2> QED BY <2>2, <2>3, <2>4
<1>7. DOMAIN reported \subseteq DOMAIN new
  <2> DEFINE seal == SealOf(report)
  <2>1. new = Put(reported, SealFile(c.out), seal)
    OBVIOUS
  <2> HIDE DEF reported, seal, new
  <2>2. DOMAIN reported \subseteq DOMAIN Put(reported, SealFile(c.out), seal)
    BY PutKeeps
  <2> QED BY <2>1, <2>2
<1>8. Honest(report, happened, new)
  <2>1. DOMAIN files \subseteq DOMAIN new
    BY <1>2, <1>3, <1>6, <1>7
  <2> DEFINE r == Happened(c, files)
  <2>2. r.child = report.argv /\ r.passed = report.passed /\ report.proof = Proof(c, files)
        /\ r.source = left[Source] /\ r.intent = Sha(files, Intent)
    BY DEF Happened
  <2>3. r \in happened
    OBVIOUS
  <2> HIDE DEF r, report, new, left
  <2> QED BY <1>4, <1>5, <2>1, <2>2, <2>3 DEF Honest
<1>9. SealsAreHonest(happened, new)
  <2> DEFINE seal == SealOf(report)
  <2>1. seal[1] = "seal" /\ seal[2] = report
    BY DEF SealOf
  <2>2. new = Put(reported, SealFile(c.out), seal)
    OBVIOUS
  <2> HIDE DEF seal, report, reported, new
  <2> QED BY <1>6, <1>8, <2>1, <2>2, PutHonest
<1> HIDE DEF new, reported, logged, left, report
<1> QED BY <1>1, <1>2, <1>3, <1>6, <1>7, <1>9
---------------------------------------------------------------------------
\* A rollout starts with a fixture and nothing else.
LEMMA RolloutStarts == RolloutInit => RolloutInv
<1> SUFFICES ASSUME RolloutInit PROVE RolloutInv
  OBVIOUS
<1> USE DEF RolloutInit
<1>1. FilesInv
  <2>1. DOMAIN workspace = {}
    OBVIOUS
  <2> QED BY <2>1, ScenesAreRollouts DEF FilesInv, SealsAreHonest
<1>2. LinesInv
  <2>1. Len(lines) = 0 /\ running = NotYet
    OBVIOUS
  <2>2. lines \in Seq({lines[n] : n \in 1..Len(lines)})
    OBVIOUS
  <2> QED BY <2>1, <2>2 DEF LinesInv, LinesAreTyped, NumbersAreUnique, UsesEnd, TracesAreThere
<1>3. PhaseInv /\ RolloutTypeOK
  BY DEF PhaseInv, RolloutTypeOK
<1> QED BY <1>1, <1>2, <1>3 DEF RolloutInv

\* What the lines are when one more is printed.
LEMMA LineAdded ==
  ASSUME LinesAreTyped, NEW l, lines' = Append(lines, l)
  PROVE  /\ Len(lines) \in Nat /\ Len(lines') = Len(lines) + 1
         /\ \A n \in 1..Len(lines) : lines'[n] = lines[n]
         /\ lines'[Len(lines) + 1] = l
         /\ lines' \in Seq({lines'[n] : n \in 1..Len(lines')})
<1> DEFINE T == {lines[n] : n \in 1..Len(lines)} \cup {l}
<1>1. lines \in Seq(T) /\ l \in T
  <2>1. lines \in Seq({lines[n] : n \in 1..Len(lines)})
    BY DEF LinesAreTyped
  <2> QED BY <2>1
<1> HIDE DEF T
<1>2. /\ Len(lines) \in Nat /\ Len(lines') = Len(lines) + 1 /\ lines' \in Seq(T)
      /\ \A n \in 1..Len(lines) : lines'[n] = lines[n]
      /\ lines'[Len(lines) + 1] = l
  BY <1>1
<1>3. lines' \in Seq({lines'[n] : n \in 1..Len(lines')})
  BY <1>2
<1> QED BY <1>2, <1>3

\* An added line of a command has to be one of that command.
LEMMA NumbersStay ==
  ASSUME LinesAreTyped, NumbersAreUnique, NEW l, lines' = Append(lines, l),
         l.kind \in {"use", "done"} =>
            \A n \in 1..Len(lines) :
                OfCommand(n) /\ lines[n].id = l.id => lines[n].command = l.command
  PROVE  \A n, m \in 1..Len(lines') :
            /\ lines'[n].kind \in {"use", "done"} /\ lines'[m].kind \in {"use", "done"}
            /\ lines'[n].id = lines'[m].id
            => lines'[n].command = lines'[m].command
<1> DEFINE last == Len(lines) + 1
<1>1. /\ Len(lines) \in Nat /\ Len(lines') = last
      /\ \A n \in 1..Len(lines) : lines'[n] = lines[n]
      /\ lines'[last] = l
  BY LineAdded
<1>2. 1..Len(lines') = (1..Len(lines)) \cup {last}
  BY <1>1
<1> HIDE DEF last
<1>3. SUFFICES ASSUME NEW n \in 1..Len(lines'), NEW m \in 1..Len(lines'),
                      lines'[n].kind \in {"use", "done"}, lines'[m].kind \in {"use", "done"},
                      lines'[n].id = lines'[m].id
               PROVE  lines'[n].command = lines'[m].command
  OBVIOUS
<1>4. CASE n \in 1..Len(lines) /\ m \in 1..Len(lines)
  BY <1>1, <1>3, <1>4 DEF NumbersAreUnique, OfCommand
<1>5. CASE n = last /\ m \in 1..Len(lines)
  BY <1>1, <1>3, <1>5 DEF OfCommand
<1>6. CASE n \in 1..Len(lines) /\ m = last
  BY <1>1, <1>3, <1>6 DEF OfCommand
<1>7. CASE n = last /\ m = last
  BY <1>7
<1> QED BY <1>2, <1>4, <1>5, <1>6, <1>7

\* And its number is not beyond the lines.
LEMMA TypesStay ==
  ASSUME LinesAreTyped, NEW l, lines' = Append(lines, l), l.id \in 0..(Len(lines) + 1),
         running' # NotYet => running'.id \in 0..(Len(lines) + 1)
  PROVE  LinesAreTyped'
<1>1. /\ Len(lines) \in Nat /\ Len(lines') = Len(lines) + 1
      /\ \A n \in 1..Len(lines) : lines'[n] = lines[n]
      /\ lines'[Len(lines) + 1] = l
      /\ lines' \in Seq({lines'[n] : n \in 1..Len(lines')})
  BY LineAdded
<1>2. ASSUME NEW n \in 1..Len(lines') PROVE lines'[n].id \in 0..Len(lines')
  <2>1. CASE n \in 1..Len(lines)
    <3>1. lines[n].id \in 0..Len(lines)
      BY <2>1 DEF LinesAreTyped
    <3> QED BY <1>1, <2>1, <3>1
  <2>2. CASE n = Len(lines) + 1
    BY <1>1, <2>2
  <2> QED BY <1>1, <2>1, <2>2
<1>3. running' # NotYet => running'.id \in 0..Len(lines')
  BY <1>1
<1> QED BY <1>1, <1>2, <1>3 DEF LinesAreTyped

\* The user, the copying of the fixture and the start of the agent.
LEMMA CopyingKeeps ==
  ASSUME RolloutInv,
         EditFixture \/ HashFixture \/ CopyFile \/ RefuseCopy \/ StartAgent
  PROVE  RolloutInv'
<1> USE DEF agent
<1>1. UNCHANGED <<scene, lines, running, final, outcome, score, ran>>
      /\ phase \in {"hash", "copy", "verify"}
  BY DEF EditFixture, HashFixture, CopyFile, RefuseCopy, StartAgent
<1>2. phase' \in {"copy", "verify", "work", "refused"}
  BY DEF EditFixture, HashFixture, CopyFile, RefuseCopy, StartAgent
<1>3. PhaseInv'
  BY <1>1, <1>2 DEF PhaseInv, RolloutInv
<1>4. DOMAIN workspace \subseteq DOMAIN workspace'
  <2>1. CASE CopyFile
    BY <2>1, PutKeeps DEF CopyFile
  <2>2. CASE ~CopyFile
    BY <2>2 DEF EditFixture, HashFixture, RefuseCopy, StartAgent
  <2> QED BY <2>1, <2>2
<1>5. LinesInv'
  BY <1>1, <1>4
  DEF RolloutInv, LinesInv, LinesAreTyped, NumbersAreUnique, UsesEnd, TracesAreThere, Ended,
      OfCommand
<1>6. FilesInv' /\ RolloutTypeOK'
  <2> USE DEF RolloutInv, RolloutTypeOK
  <2>1. CASE EditFixture
    <3>1. PICK v : fixture' = Put(fixture, Source, <<"text", v, "none">>)
      BY <2>1 DEF EditFixture
    <3> DEFINE text == <<"text", v, "none">>
    <3>2. text[1] = "text"
      OBVIOUS
    <3>3. fixture' = Put(fixture, Source, text)
      BY <3>1
    <3> HIDE DEF text
    <3>4. DOMAIN fixture \subseteq DOMAIN fixture' /\ Source \in DOMAIN fixture'
      BY <3>3, PutKeeps
    <3>5. \A f \in DOMAIN fixture' : Untraced(fixture'[f])
      BY <3>2, <3>3 DEF FilesInv, Put, Untraced
    <3>6. UNCHANGED <<phase, hashed, pending, before, workspace>>
      BY <2>1 DEF EditFixture
    <3> QED BY <1>1, <3>4, <3>5, <3>6 DEF FilesInv
  <2>2. CASE HashFixture
    BY <1>1, <2>2 DEF HashFixture, FilesInv
  <2>3. CASE CopyFile
    <3>1. PICK path \in pending : workspace' = Put(workspace, path, fixture[path])
                                  /\ pending' = pending \ {path}
      BY <2>3 DEF CopyFile
    <3>2. fixture[path][1] \in {"text", "intent"}
      BY <3>1 DEF FilesInv, Untraced
    <3>3. SealsAreHonest(ran, workspace')
      <4> DEFINE content == fixture[path]
      <4>1. content[1] \in {"text", "intent"} /\ workspace' = Put(workspace, path, content)
        BY <3>1, <3>2
      <4>2. SealsAreHonest(ran, workspace)
        BY DEF FilesInv
      <4> HIDE DEF content
      <4> QED BY <4>1, <4>2, PutHonest
    <3> QED BY <1>1, <2>3, <3>1, <3>3 DEF CopyFile, FilesInv
  <2>4. CASE RefuseCopy
    BY <1>1, <2>4 DEF RefuseCopy, FilesInv
  <2>5. CASE StartAgent
    BY <1>1, <2>5 DEF StartAgent, FilesInv
  <2> QED BY <2>1, <2>2, <2>3, <2>4, <2>5
<1> QED BY <1>3, <1>5, <1>6 DEF RolloutInv

\* What no step of the agent changes.
LEMMA AgentKeeps ==
  ASSUME RolloutInv, phase = "work", phase' \in {"work", "ended"},
         UNCHANGED <<scene, fixture, hashed, pending, before, score>>,
         DOMAIN workspace \subseteq DOMAIN workspace', SealsAreHonest(ran', workspace')
  PROVE  FilesInv' /\ RolloutTypeOK'
  BY DEF RolloutInv, RolloutTypeOK, FilesInv

\* The agent writes a file, or says something.
LEMMA SilentKeeps ==
  ASSUME RolloutInv, WriteFile \/ Say
  PROVE  RolloutInv'
<1>1. UNCHANGED <<scene, fixture, hashed, pending, before, score, phase, lines, running, ran,
                  outcome>> /\ phase = "work"
  BY DEF WriteFile, Say, Move
<1>2. DOMAIN workspace \subseteq DOMAIN workspace' /\ SealsAreHonest(ran, workspace')
  <2>1. SealsAreHonest(ran, workspace)
    BY DEF RolloutInv, FilesInv
  <2>2. CASE WriteFile
    <3>1. PICK w \in scene.writes : workspace' = Put(workspace, w[1], w[2])
      BY <2>2 DEF WriteFile
    <3> DEFINE content == w[2]
               path == w[1]
    <3>2. content[1] \in {"text", "intent"}
      BY <3>1, ScenesAreRollouts DEF RolloutInv, RolloutTypeOK, Untraced
    <3>3. workspace' = Put(workspace, path, content)
      BY <3>1
    <3> HIDE DEF content, path
    <3> QED BY <2>1, <3>2, <3>3, PutKeeps, PutHonest
  <2>3. CASE Say
    BY <2>1, <2>3 DEF Say
  <2> QED BY <2>2, <2>3
<1>3. FilesInv' /\ RolloutTypeOK'
  BY <1>1, <1>2, AgentKeeps
<1>4. LinesInv'
  BY <1>1, <1>2
  DEF RolloutInv, LinesInv, LinesAreTyped, NumbersAreUnique, UsesEnd, TracesAreThere, Ended,
      OfCommand
<1>5. PhaseInv'
  BY <1>1 DEF RolloutInv, PhaseInv
<1> QED BY <1>3, <1>4, <1>5 DEF RolloutInv

\* A command is started.
LEMMA UseKeeps ==
  ASSUME RolloutInv, Use
  PROVE  RolloutInv'
<1>1. /\ UNCHANGED <<scene, fixture, hashed, pending, before, score, phase, ran, workspace, outcome>>
      /\ phase = "work" /\ running = NotYet
  BY DEF Use, Move
<1> DEFINE id == Len(lines) + 1
<1>2. PICK c \in scene.commands :
         /\ running' = [kind |-> "command", command |-> c, id |-> id]
         /\ lines' = Append(lines, [kind |-> "use", command |-> c, id |-> id])
  BY DEF Use, Prints, Line
<1>3. LinesInv
  BY DEF RolloutInv
<1>4. /\ Len(lines) \in Nat /\ Len(lines') = Len(lines) + 1
      /\ \A n \in 1..Len(lines) : lines'[n] = lines[n]
      /\ lines'[id] = [kind |-> "use", command |-> c, id |-> id]
      /\ lines' \in Seq({lines'[n] : n \in 1..Len(lines')})
  BY <1>2, <1>3, LineAdded DEF LinesInv
<1>5. 1..Len(lines') = (1..Len(lines)) \cup {id}
  BY <1>4
<1>6. running' # NotYet /\ running'.id = id /\ running'.command = c
  BY <1>2 DEF NotYet
<1>7. \A n \in 1..Len(lines) : lines[n].id \in 0..Len(lines) /\ lines[n].id # id
  BY <1>3, <1>4 DEF LinesInv, LinesAreTyped
<1> DEFINE l == [kind |-> "use", command |-> c, id |-> id]
<1>14. l.id = id /\ l.id \in 0..(Len(lines) + 1) /\ lines' = Append(lines, l)
  BY <1>2, <1>4
<1> HIDE DEF l
<1>8. LinesAreTyped'
  BY <1>3, <1>6, <1>14, TypesStay DEF LinesInv
<1>9. NumbersAreUnique'
  <2>1. \A n \in 1..Len(lines) : lines[n].id # l.id
    BY <1>7, <1>14
  <2>2. \A n, m \in 1..Len(lines') :
            /\ lines'[n].kind \in {"use", "done"} /\ lines'[m].kind \in {"use", "done"}
            /\ lines'[n].id = lines'[m].id
            => lines'[n].command = lines'[m].command
    BY <1>3, <1>14, <2>1, NumbersStay DEF LinesInv
  <2>3. \A n \in 1..Len(lines') : lines'[n].id = running'.id => lines'[n].command = running'.command
    BY <1>4, <1>5, <1>6, <1>7
  <2> QED BY <2>2, <2>3 DEF NumbersAreUnique, OfCommand
<1>10. UsesEnd'
  <2>1. ASSUME scene.runner = "scripted", NEW n \in 1..Len(lines'), lines'[n].kind = "use"
        PROVE  Ended(lines'[n].id, lines') \/ running'.id = lines'[n].id
    <3>1. CASE n = id
      BY <1>4, <1>6, <3>1
    <3>2. CASE n \in 1..Len(lines)
      <4>1. Ended(lines[n].id, lines)
        BY <1>1, <1>3, <1>4, <2>1, <3>2 DEF LinesInv, UsesEnd
      <4> QED BY <1>4, <1>5, <3>2, <4>1 DEF Ended
    <3> QED BY <1>5, <2>1, <3>1, <3>2
  <2> QED BY <1>1, <1>6, <2>1 DEF UsesEnd
<1>11. TracesAreThere'
  BY <1>1, <1>3, <1>4, <1>5 DEF LinesInv, TracesAreThere
<1>12. FilesInv' /\ RolloutTypeOK'
  <2>1. SealsAreHonest(ran, workspace)
    BY DEF RolloutInv, FilesInv
  <2> QED BY <1>1, <2>1, AgentKeeps
<1>13. PhaseInv'
  BY <1>1 DEF RolloutInv, PhaseInv
<1> QED BY <1>8, <1>9, <1>10, <1>11, <1>12, <1>13 DEF RolloutInv, LinesInv

\* What a command leaves, and whether its Trace is there when it exits with zero.
LEMMA EffectIs ==
  ASSUME NEW c, NEW files, NEW happened, SealsAreHonest(happened, files),
         IsTrace(c) /\ Bindable(c, files) /\ ~c.reuse => Happened(c, files) \in happened
  PROVE  LET effect == Effect(c, files) IN
         /\ DOMAIN files \subseteq DOMAIN effect.files
         /\ SealsAreHonest(happened, effect.files)
         /\ effect.zero /\ IsTrace(c) => ReportFile(c.out) \in DOMAIN effect.files
<1>1. CASE ~IsTrace(c)
  BY <1>1 DEF Effect
<1>2. CASE IsTrace(c) /\ ~Bindable(c, files)
  BY <1>2 DEF Effect
<1>3. CASE IsTrace(c) /\ Bindable(c, files) /\ c.reuse
  BY <1>3 DEF Effect, Reusable, IsReport
<1>4. CASE IsTrace(c) /\ Bindable(c, files) /\ ~c.reuse
  <2> DEFINE new == Traced(c, files, Run(c.child, files))
  <2>1. /\ DOMAIN files \subseteq DOMAIN new
        /\ ReportFile(c.out) \in DOMAIN new
        /\ SealsAreHonest(happened, new)
    BY <1>4, TracedHonest
  <2>2. Effect(c, files).files = new
    BY <1>4 DEF Effect
  <2> HIDE DEF new
  <2> QED BY <2>1, <2>2
<1> QED BY <1>1, <1>2, <1>3, <1>4

\* The command ends.
LEMMA CompletesKeeps ==
  ASSUME RolloutInv, Completes
  PROVE  RolloutInv'
<1> DEFINE c == running.command
           effect == Effect(c, workspace)
           new == [kind |-> "done", id |-> running.id, command |-> c, zero |-> effect.zero]
<1>1. /\ UNCHANGED <<scene, fixture, hashed, pending, before, score, phase, outcome>>
      /\ phase = "work" /\ running # NotYet /\ running' = NotYet
      /\ workspace' = effect.files /\ lines' = Append(lines, new)
  BY DEF Completes, TakesEffect, Prints
<1>2. /\ ran \subseteq ran'
      /\ IsTrace(c) /\ Bindable(c, workspace) /\ ~c.reuse => Happened(c, workspace) \in ran'
  BY DEF Completes, TakesEffect, Happened
<1>3. LinesInv
  BY DEF RolloutInv
<1>4. /\ Len(lines) \in Nat /\ Len(lines') = Len(lines) + 1
      /\ \A n \in 1..Len(lines) : lines'[n] = lines[n]
      /\ lines'[Len(lines) + 1] = new
      /\ lines' \in Seq({lines'[n] : n \in 1..Len(lines')})
  BY <1>1, <1>3, LineAdded DEF LinesInv
<1>5. 1..Len(lines') = (1..Len(lines)) \cup {Len(lines) + 1}
  BY <1>4
<1>6. /\ DOMAIN workspace \subseteq DOMAIN workspace'
      /\ SealsAreHonest(ran', workspace')
      /\ effect.zero /\ IsTrace(c) => ReportFile(c.out) \in DOMAIN workspace'
  <2>1. SealsAreHonest(ran', workspace)
    BY <1>2, MoreHonest DEF RolloutInv, FilesInv
  <2> QED BY <1>1, <1>2, <2>1, EffectIs
<1>7. new.kind = "done" /\ new.id = running.id /\ new.command = running.command
      /\ new.zero = effect.zero
  OBVIOUS
<1> HIDE DEF effect, new
<1>8. LinesAreTyped'
  <2>1. new.id \in 0..(Len(lines) + 1)
    BY <1>1, <1>3, <1>4, <1>7 DEF LinesInv, LinesAreTyped
  <2> QED BY <1>1, <1>3, <2>1, TypesStay DEF LinesInv
<1>9. NumbersAreUnique'
  <2>1. \A n \in 1..Len(lines) :
            OfCommand(n) /\ lines[n].id = new.id => lines[n].command = new.command
    BY <1>1, <1>3, <1>7 DEF LinesInv, NumbersAreUnique
  <2>2. \A n, m \in 1..Len(lines') :
            /\ lines'[n].kind \in {"use", "done"} /\ lines'[m].kind \in {"use", "done"}
            /\ lines'[n].id = lines'[m].id
            => lines'[n].command = lines'[m].command
    BY <1>1, <1>3, <2>1, NumbersStay DEF LinesInv
  <2> QED BY <1>1, <2>2 DEF NumbersAreUnique, OfCommand
<1>10. UsesEnd'
  <2>1. ASSUME scene.runner = "scripted", NEW n \in 1..Len(lines'), lines'[n].kind = "use"
        PROVE  Ended(lines'[n].id, lines')
    <3>1. n \in 1..Len(lines) /\ lines'[n] = lines[n]
      BY <1>4, <1>5, <1>7, <2>1
    <3>2. Ended(lines[n].id, lines) \/ running.id = lines[n].id
      BY <1>3, <2>1, <3>1 DEF LinesInv, UsesEnd
    <3>3. CASE Ended(lines[n].id, lines)
      BY <1>4, <1>5, <3>1, <3>3 DEF Ended
    <3>4. CASE running.id = lines[n].id
      BY <1>4, <1>5, <1>7, <3>1, <3>4 DEF Ended
    <3> QED BY <3>2, <3>3, <3>4
  <2> QED BY <1>1, <2>1 DEF UsesEnd
<1>11. TracesAreThere'
  BY <1>3, <1>4, <1>5, <1>6, <1>7 DEF LinesInv, TracesAreThere
<1>12. FilesInv' /\ RolloutTypeOK'
  BY <1>1, <1>6, AgentKeeps
<1>13. PhaseInv'
  BY <1>1 DEF RolloutInv, PhaseInv
<1> QED BY <1>8, <1>9, <1>10, <1>11, <1>12, <1>13 DEF RolloutInv, LinesInv

\* The command is left open.
LEMMA LeaveOpenKeeps ==
  ASSUME RolloutInv, LeaveOpen
  PROVE  RolloutInv'
<1> DEFINE c == running.command
           effect == Effect(c, workspace)
<1>1. /\ UNCHANGED <<scene, fixture, hashed, pending, before, score, phase, outcome, lines>>
      /\ phase = "work" /\ running' = NotYet /\ scene.runner # "scripted"
  BY DEF LeaveOpen
<1>2. DOMAIN workspace \subseteq DOMAIN workspace' /\ SealsAreHonest(ran', workspace')
  <2>1. CASE UNCHANGED <<workspace, ran>>
    BY <2>1 DEF RolloutInv, FilesInv
  <2>2. CASE TakesEffect(c)
    <3>1. /\ ran \subseteq ran' /\ workspace' = effect.files
          /\ IsTrace(c) /\ Bindable(c, workspace) /\ ~c.reuse => Happened(c, workspace) \in ran'
      BY <2>2 DEF TakesEffect, Happened
    <3>2. SealsAreHonest(ran', workspace)
      BY <3>1, MoreHonest DEF RolloutInv, FilesInv
    <3> QED BY <3>1, <3>2, EffectIs
  <2> QED BY <2>1, <2>2 DEF LeaveOpen
<1>3. LinesInv'
  BY <1>1, <1>2
  DEF RolloutInv, LinesInv, LinesAreTyped, NumbersAreUnique, UsesEnd, TracesAreThere, OfCommand
<1>4. FilesInv' /\ RolloutTypeOK'
  BY <1>1, <1>2, AgentKeeps
<1>5. PhaseInv'
  BY <1>1 DEF PhaseInv
<1> QED BY <1>3, <1>4, <1>5 DEF RolloutInv

\* The host prints a line again, a call of a tool, or an error.
LEMMA PrintingKeeps ==
  ASSUME RolloutInv, Repeat \/ CallTool \/ EndInError
  PROVE  RolloutInv'
<1>1. /\ UNCHANGED <<scene, fixture, hashed, pending, before, score, ran, workspace, running>>
      /\ phase = "work"
  BY DEF Repeat, CallTool, EndInError, Move
<1>2. LinesInv
  BY DEF RolloutInv
<1>3. PICK l : /\ lines' = Append(lines, l)
               /\ \/ \E n \in 1..Len(lines) : OfCommand(n) /\ l = lines[n]
                  \/ l.kind = "tool" /\ l.id = Len(lines) + 1
                  \/ l.kind = "error" /\ l.id = 0
  <2>1. CASE Repeat
    BY <2>1 DEF Repeat, Prints, OfCommand
  <2>2. CASE CallTool
    <3>1. PICK t \in scene.tools :
             lines' = Append(lines, [kind |-> "tool", tool |-> t, id |-> Len(lines) + 1])
      BY <2>2 DEF CallTool, Prints
    <3> QED BY <3>1
  <2>3. CASE EndInError
    <3>1. lines' = Append(lines, [kind |-> "error", id |-> 0])
      BY <2>3 DEF EndInError, Prints
    <3> QED BY <3>1
  <2> QED BY <2>1, <2>2, <2>3
<1>4. /\ Len(lines) \in Nat /\ Len(lines') = Len(lines) + 1
      /\ \A n \in 1..Len(lines) : lines'[n] = lines[n]
      /\ lines'[Len(lines) + 1] = l
      /\ lines' \in Seq({lines'[n] : n \in 1..Len(lines')})
  BY <1>2, <1>3, LineAdded DEF LinesInv
<1>5. 1..Len(lines') = (1..Len(lines)) \cup {Len(lines) + 1}
  BY <1>4
<1>6. l.kind \in {"use", "done"} => \E n \in 1..Len(lines) : OfCommand(n) /\ l = lines[n]
  BY <1>3
<1>7. LinesAreTyped'
  <2>1. l.id \in 0..(Len(lines) + 1)
    <3>1. ASSUME NEW n \in 1..Len(lines), l = lines[n] PROVE l.id \in 0..(Len(lines) + 1)
      <4>1. lines[n].id \in 0..Len(lines)
        BY <1>2 DEF LinesInv, LinesAreTyped
      <4> QED BY <1>4, <3>1, <4>1
    <3>2. CASE l.id = 0 \/ l.id = Len(lines) + 1
      BY <1>4, <3>2
    <3> QED BY <1>3, <3>1, <3>2
  <2>2. running' # NotYet => running'.id \in 0..(Len(lines) + 1)
    BY <1>1, <1>2, <1>4 DEF LinesInv, LinesAreTyped
  <2> QED BY <1>2, <1>3, <2>1, <2>2, TypesStay DEF LinesInv
<1>8. NumbersAreUnique'
  <2>1. l.kind \in {"use", "done"} =>
           \A n \in 1..Len(lines) :
               OfCommand(n) /\ lines[n].id = l.id => lines[n].command = l.command
    BY <1>2, <1>6 DEF LinesInv, NumbersAreUnique
  <2>2. \A n, m \in 1..Len(lines') :
            /\ lines'[n].kind \in {"use", "done"} /\ lines'[m].kind \in {"use", "done"}
            /\ lines'[n].id = lines'[m].id
            => lines'[n].command = lines'[m].command
    BY <1>2, <1>3, <2>1, NumbersStay DEF LinesInv
  <2>3. ASSUME NEW n \in 1..Len(lines'), lines'[n].kind \in {"use", "done"}, running' # NotYet,
               lines'[n].id = running'.id
        PROVE  lines'[n].command = running'.command
    <3>1. PICK m \in 1..Len(lines) : OfCommand(m) /\ lines[m] = lines'[n]
      BY <1>4, <1>5, <1>6, <2>3 DEF OfCommand
    <3> QED BY <1>1, <1>2, <2>3, <3>1 DEF LinesInv, NumbersAreUnique
  <2> QED BY <2>2, <2>3 DEF NumbersAreUnique, OfCommand
<1>9. UsesEnd'
  <2>1. ASSUME scene.runner = "scripted", NEW n \in 1..Len(lines'), lines'[n].kind = "use"
        PROVE  Ended(lines'[n].id, lines') \/ (running' # NotYet /\ running'.id = lines'[n].id)
    <3>1. PICK m \in 1..Len(lines) : lines[m] = lines'[n]
      BY <1>4, <1>5, <1>6, <2>1
    <3>2. Ended(lines[m].id, lines) \/ (running # NotYet /\ running.id = lines[m].id)
      BY <1>2, <2>1, <3>1 DEF LinesInv, UsesEnd
    <3> QED BY <1>1, <1>4, <1>5, <3>1, <3>2 DEF Ended
  <2> QED BY <1>1, <2>1 DEF UsesEnd
<1>10. TracesAreThere'
  BY <1>1, <1>2, <1>4, <1>5, <1>6 DEF LinesInv, TracesAreThere
<1>11. FilesInv' /\ RolloutTypeOK'
  <2>1. SealsAreHonest(ran, workspace)
    BY DEF RolloutInv, FilesInv
  <2>2. phase' \in {"work", "ended"}
    BY DEF Repeat, CallTool, EndInError, Move
  <2> QED BY <1>1, <2>1, <2>2, AgentKeeps
<1>12. PhaseInv'
  <2>1. CASE Repeat \/ CallTool
    <3>1. phase' = "work" /\ outcome' = outcome
      BY <2>1 DEF Repeat, CallTool, Move
    <3> QED BY <1>1, <3>1 DEF RolloutInv, PhaseInv
  <2>2. CASE EndInError
    BY <1>1, <2>2 DEF EndInError, PhaseInv
  <2> QED BY <2>1, <2>2
<1> QED BY <1>7, <1>8, <1>9, <1>10, <1>11, <1>12 DEF RolloutInv, LinesInv

\* The host ends, a script is given up, the score is written.
LEMMA EndingKeeps ==
  ASSUME RolloutInv, EndHost \/ RefuseScript \/ WriteScore
  PROVE  RolloutInv'
<1>1. UNCHANGED <<scene, fixture, hashed, pending, workspace, before, lines, running, final, ran>>
  BY DEF EndHost, RefuseScript, WriteScore
<1>2. LinesInv'
  BY <1>1
  DEF RolloutInv, LinesInv, LinesAreTyped, NumbersAreUnique, UsesEnd, TracesAreThere, Ended,
      OfCommand
<1>3. FilesInv' /\ RolloutTypeOK' /\ PhaseInv'
  <2>1. CASE EndHost \/ RefuseScript
    <3>1. phase = "work" /\ phase' = "ended" /\ UNCHANGED score
      BY <2>1 DEF EndHost, RefuseScript
    <3>2. SealsAreHonest(ran, workspace)
      BY DEF RolloutInv, FilesInv
    <3>3. FilesInv' /\ RolloutTypeOK'
      BY <1>1, <3>1, <3>2, AgentKeeps
    <3>4. outcome'.kind = "exit" /\ scene.runner = "scripted" => running = NotYet
      BY <2>1 DEF EndHost, RefuseScript
    <3> QED BY <1>1, <3>1, <3>3, <3>4 DEF PhaseInv
  <2>2. CASE WriteScore
    <3>1. phase = "ended" /\ phase' = "scored" /\ UNCHANGED outcome
      BY <2>2 DEF WriteScore
    <3>2. \E said \in Response :
             score' = IF Complete THEN Scored(Events, workspace, said)
                      ELSE [status |-> "INFRASTRUCTURE_ERROR", findings |-> {"INFRASTRUCTURE_ERROR"}]
      BY <2>2 DEF WriteScore
    <3>5. score'.status \in {"PASS", "FAIL", "INFRASTRUCTURE_ERROR"}
      BY <3>2 DEF Scored
    <3> QED BY <1>1, <3>1, <3>5 DEF RolloutInv, RolloutTypeOK, FilesInv, PhaseInv
  <2> QED BY <2>1, <2>2
<1> QED BY <1>2, <1>3 DEF RolloutInv
---------------------------------------------------------------------------
\* Every set of numbers that is not empty has a smallest one.
LEMMA Smallest ==
  ASSUME NEW T, T \subseteq Nat, T # {}
  PROVE  \E x \in T : \A y \in T : x <= y
<1> DEFINE less == OpToRel(<, Nat)
<1>1. \A m, n \in Nat : <<m, n>> \in less <=> m < n
  BY DEF OpToRel
<1>2. IsWellFoundedOn(less, Nat)
  BY NatLessThanWellFounded
<1> HIDE DEF less
<1>3. PICK x \in T : \A y \in T : ~ (<<y, x>> \in less)
  BY <1>2, WFMin
<1>4. ASSUME NEW y \in T PROVE x <= y
  <2>1. x \in Nat /\ y \in Nat /\ ~ (y < x)
    BY <1>1, <1>3
  <2> QED BY <2>1
<1> QED BY <1>3, <1>4

\* The lines a rollout's events are made from.
LEMMA KeptAreLines ==
  ASSUME RolloutInv
  PROVE  /\ scene \in Scenes /\ Len(lines) \in Nat /\ scene.lines \in Nat
         /\ Kept \subseteq 1..Len(lines)
         /\ AllKept => Kept = 1..Len(lines)
<1>1. scene \in Scenes
  BY DEF RolloutInv, RolloutTypeOK
<1>2. Len(lines) \in Nat
  BY DEF RolloutInv, LinesInv, LinesAreTyped
<1>3. scene.lines \in Nat
  BY <1>1, ScenesAreRollouts
<1> QED BY <1>1, <1>2, <1>3 DEF Kept, AllKept

\* An event is told at its line: a call of a tool as it was printed, and a command
\* that exited with zero where a line says that it did.
TellsLine(n, e) ==
    /\ e.type = "tool_call" => lines[n].kind = "tool" /\ e.tool = lines[n].tool
    /\ e.type = "command" => OfCommand(n) /\ e.command = lines[n].command
    /\ e.type = "command" /\ e.zero = "yes" =>
          \E m \in 1..Len(lines) :
              lines[m].kind = "done" /\ lines[m].zero /\ lines[m].command = e.command

LEMMA CodexTells ==
  ASSUME RolloutInv, NEW kept, kept \subseteq 1..Len(lines)
  PROVE  LET events == FromCodex(kept) IN
         /\ DOMAIN events \subseteq kept
         /\ \A n \in DOMAIN events : TellsLine(n, events[n])
         /\ \A n \in kept : lines[n].kind = "error" =>
                n \in DOMAIN events /\ events[n].type = "runner_error"
         /\ \A n \in kept : FirstDone(n, kept) =>
                n \in DOMAIN events /\ events[n].type = "command" /\ events[n].command = lines[n].command
<1> DEFINE told == {m \in kept : lines[m].kind \in {"error", "tool"} \/ FirstDone(m, kept)}
           zero(n) == IF lines[n].zero THEN "yes" ELSE "no"
           events == FromCodex(kept)
<1>1. DOMAIN events = told /\ \A n \in told : events[n] = EventOf(lines[n], zero(n))
  BY DEF FromCodex
<1> HIDE DEF events
<1>2. ASSUME NEW n \in told, lines[n].kind = "error"
      PROVE  events[n].type = "runner_error"
  BY <1>1, <1>2 DEF EventOf
<1>3. ASSUME NEW n \in told, lines[n].kind = "tool"
      PROVE  events[n].type = "tool_call" /\ events[n].tool = lines[n].tool
  <2>1. events[n] = ToolEvent(lines[n].tool)
    BY <1>1, <1>3 DEF EventOf
  <2> QED BY <2>1 DEF ToolEvent
<1>4. ASSUME NEW n \in told, FirstDone(n, kept)
      PROVE  /\ events[n].type = "command" /\ events[n].command = lines[n].command
             /\ lines[n].kind = "done" /\ events[n].zero = "yes" => lines[n].zero
  <2>1. lines[n].kind = "done"
    BY <1>4 DEF FirstDone
  <2>2. events[n] = CommandEvent(lines[n].command, zero(n))
    BY <1>1, <2>1 DEF EventOf
  <2> QED BY <2>1, <2>2 DEF CommandEvent
<1>5. ASSUME NEW n \in told PROVE TellsLine(n, events[n])
  <2>1. CASE lines[n].kind = "error"
    BY <1>2, <2>1 DEF TellsLine
  <2>2. CASE lines[n].kind = "tool"
    BY <1>3, <2>2 DEF TellsLine
  <2>3. CASE FirstDone(n, kept)
    <3>1. lines[n].kind = "done" /\ n \in 1..Len(lines)
      BY <2>3 DEF FirstDone
    <3> QED BY <1>4, <2>3, <3>1 DEF TellsLine, OfCommand
  <2> QED BY <2>1, <2>2, <2>3
<1> QED BY <1>1, <1>2, <1>4, <1>5 DEF events

LEMMA ClaudeTells ==
  ASSUME RolloutInv, NEW kept, kept \subseteq 1..Len(lines)
  PROVE  LET events == FromClaude(kept) IN
         /\ DOMAIN events \subseteq kept
         /\ \A n \in DOMAIN events : TellsLine(n, events[n])
         /\ \A n \in kept : lines[n].kind = "error" =>
                n \in DOMAIN events /\ events[n].type = "runner_error"
         /\ \A n \in kept : lines[n].kind = "use" =>
                n \in DOMAIN events /\ events[n].type = "command" /\ events[n].command = lines[n].command
<1> DEFINE told == {m \in kept : lines[m].kind \in {"use", "tool", "error"}}
           zero(n) == LastZero(Results(n, kept))
           events == FromClaude(kept)
<1>1. DOMAIN events = told /\ \A n \in told : events[n] = EventOf(lines[n], zero(n))
  BY DEF FromClaude
<1> HIDE DEF events
<1>2. ASSUME NEW n \in told, lines[n].kind = "error"
      PROVE  events[n].type = "runner_error"
  BY <1>1, <1>2 DEF EventOf
<1>3. ASSUME NEW n \in told, lines[n].kind = "tool"
      PROVE  events[n].type = "tool_call" /\ events[n].tool = lines[n].tool
  <2>1. events[n] = ToolEvent(lines[n].tool)
    BY <1>1, <1>3 DEF EventOf
  <2> QED BY <2>1 DEF ToolEvent
<1>4. ASSUME NEW n \in told, lines[n].kind = "use"
      PROVE  /\ events[n].type = "command" /\ events[n].command = lines[n].command
             /\ events[n].zero = "yes" =>
                   \E m \in 1..Len(lines) :
                       lines[m].kind = "done" /\ lines[m].zero /\ lines[m].command = lines[n].command
  <2>1. events[n] = CommandEvent(lines[n].command, zero(n))
    BY <1>1, <1>4 DEF EventOf
  <2>2. events[n].type = "command" /\ events[n].command = lines[n].command
        /\ events[n].zero = LastZero(Results(n, kept))
    BY <2>1 DEF CommandEvent
  <2>3. ASSUME LastZero(Results(n, kept)) = "yes"
        PROVE  \E m \in 1..Len(lines) :
                  lines[m].kind = "done" /\ lines[m].zero /\ lines[m].command = lines[n].command
    <3>1. PICK m \in Results(n, kept) : lines[m].zero
      BY <2>3 DEF LastZero
    <3>2. m \in 1..Len(lines) /\ lines[m].kind = "done" /\ lines[m].id = lines[n].id
      BY DEF Results
    <3>3. lines[m].command = lines[n].command
      BY <1>4, <3>2 DEF RolloutInv, LinesInv, NumbersAreUnique, OfCommand
    <3> QED BY <3>1, <3>2, <3>3
  <2> QED BY <2>2, <2>3
<1>5. ASSUME NEW n \in told PROVE TellsLine(n, events[n])
  <2>1. CASE lines[n].kind = "error"
    BY <1>2, <2>1 DEF TellsLine
  <2>2. CASE lines[n].kind = "tool"
    BY <1>3, <2>2 DEF TellsLine
  <2>3. CASE lines[n].kind = "use"
    BY <1>4, <2>3 DEF TellsLine, OfCommand
  <2> QED BY <2>1, <2>2, <2>3
<1> QED BY <1>1, <1>2, <1>4, <1>5 DEF events

\* What is told of a host: nothing but what it printed, its errors, and when all is kept
\* every command that has ended, or that Claude has used.
LEMMA EventsTell ==
  ASSUME RolloutInv
  PROVE  /\ DOMAIN Events \subseteq 1..Len(lines)
         /\ \A n \in DOMAIN Events : TellsLine(n, Events[n])
         /\ AllKept => \A n \in 1..Len(lines) : Scoreable(n) /\ (scene.runner = "scripted" => Ended(lines[n].id, lines)) =>
                \E m \in DOMAIN Events :
                    Events[m].type = "command" /\ Events[m].command = lines[n].command
<1>1. /\ scene \in Scenes /\ Len(lines) \in Nat /\ Kept \subseteq 1..Len(lines)
      /\ AllKept => Kept = 1..Len(lines)
  BY KeptAreLines
<1>2. scene.runner \in {"scripted", "codex", "claude-code"}
  BY <1>1, ScenesAreRollouts
<1>3. CASE scene.runner = "claude-code"
  <2>1. Events = FromClaude(Kept)
    BY <1>3 DEF Events
  <2>2. Kept \subseteq 1..Len(lines)
    BY <1>1
  <2>3. /\ DOMAIN Events \subseteq Kept
        /\ \A n \in DOMAIN Events : TellsLine(n, Events[n])
        /\ \A n \in Kept : lines[n].kind = "error" =>
                n \in DOMAIN Events /\ Events[n].type = "runner_error"
        /\ \A n \in Kept : lines[n].kind = "use" =>
                n \in DOMAIN Events /\ Events[n].type = "command"
                /\ Events[n].command = lines[n].command
    BY <2>1, <2>2, ClaudeTells
  <2>4. DOMAIN Events \subseteq 1..Len(lines)
    BY <2>2, <2>3
  <2>5. ASSUME AllKept PROVE Kept = 1..Len(lines)
    BY <1>1, <2>5
  <2> QED BY <2>3, <2>4, <2>5 DEF Scoreable
<1>4. CASE scene.runner # "claude-code"
  <2>1. PICK kept : /\ Events = FromCodex(kept) /\ kept \subseteq 1..Len(lines)
                    /\ AllKept => kept = 1..Len(lines)
    BY <1>1, <1>2, <1>4 DEF Events
  <2>2. /\ DOMAIN Events \subseteq kept
        /\ \A n \in DOMAIN Events : TellsLine(n, Events[n])
        /\ \A n \in kept : lines[n].kind = "error" =>
                n \in DOMAIN Events /\ Events[n].type = "runner_error"
        /\ \A n \in kept : FirstDone(n, kept) =>
                n \in DOMAIN Events /\ Events[n].type = "command" /\ Events[n].command = lines[n].command
    BY <2>1, CodexTells
  <2>3. ASSUME AllKept, NEW n \in 1..Len(lines), lines[n].kind = "use", Ended(lines[n].id, lines)
        PROVE  \E m \in DOMAIN Events :
                  Events[m].type = "command" /\ Events[m].command = lines[n].command
    <3> DEFINE T == {m \in 1..Len(lines) : lines[m].kind = "done" /\ lines[m].id = lines[n].id}
    <3>1. T \subseteq Nat /\ T # {}
      BY <1>1, <2>3 DEF Ended
    <3>2. PICK m \in T : \A k \in T : m <= k
      BY <3>1, Smallest
    <3>3. FirstDone(m, kept)
      <4>1. ASSUME NEW k \in kept, k < m, lines[k].kind = "done" PROVE lines[k].id # lines[m].id
        <5>1. k \in 1..Len(lines) /\ ~ (m <= k)
          BY <2>1, <3>1, <4>1
        <5> QED BY <3>2, <4>1, <5>1
      <4> QED BY <3>2, <4>1 DEF FirstDone
    <3>4. lines[m].command = lines[n].command
      BY <2>3, <3>2 DEF RolloutInv, LinesInv, NumbersAreUnique, OfCommand
    <3> QED BY <2>1, <2>2, <2>3, <3>2, <3>3, <3>4
  <2>4. ASSUME NEW n, Scoreable(n), scene.runner = "scripted" => Ended(lines[n].id, lines)
        PROVE  lines[n].kind = "use" /\ Ended(lines[n].id, lines)
    BY <1>2, <1>4, <2>4 DEF Scoreable, EndIsTold, Ended
  <2> QED BY <2>1, <2>2, <2>3, <2>4
<1> QED BY <1>3, <1>4

\* A score that passes: the host told no error, and nothing was found that fails a
\* rollout.
LEMMA PassingFinds ==
  ASSUME NEW events, NEW files, NEW said, Scored(events, files, said).status = "PASS"
  PROVE  /\ \A n \in DOMAIN events : events[n].type # "runner_error"
         /\ \A f \in Findings(events, files, said) : f \notin HardFindings
<1>1. CASE \E n \in DOMAIN events : events[n].type = "runner_error"
  <2>1. Scored(events, files, said) =
          [status |-> "INFRASTRUCTURE_ERROR", findings |-> {"INFRASTRUCTURE_ERROR"}]
    BY <1>1 DEF Scored
  <2> QED BY <2>1
<1>2. CASE \A n \in DOMAIN events : events[n].type # "runner_error"
  <2> DEFINE findings == Findings(events, files, said)
             verdict == IF findings \cap HardFindings = {} THEN "PASS" ELSE "FAIL"
  <2>1. Scored(events, files, said) = [status |-> verdict, findings |-> findings]
    BY <1>2 DEF Scored
  <2> HIDE DEF findings
  <2>2. verdict = "PASS"
    BY <2>1
  <2>3. findings \cap HardFindings = {}
    BY <2>2
  <2>4. \A f \in findings : f \notin HardFindings
    BY <2>3
  <2> QED BY <1>2, <2>4 DEF findings
<1> QED BY <1>1, <1>2

\* A passing rollout's commands are all allowed.
LEMMA PassingIsAllowed ==
  ASSUME NEW events, NEW files, NEW said,
         \A f \in Findings(events, files, said) : f \notin HardFindings,
         NEW n \in Attempts(events), task.allowed # {}
  PROVE  events[n].command.name \in task.allowed /\ events[n].command.shell # "active"
<1>1. "UNAUTHORIZED_COMMAND" \in HardFindings
  BY DEF HardFindings
<1>2. "UNAUTHORIZED_COMMAND" \notin ToolCalls(events)
  BY <1>1 DEF Findings
<1>3. ~Unauthorized(events[n].command)
  BY <1>2 DEF ToolCalls
<1> QED BY <1>3 DEF Unauthorized, ShellProgram

\* A passing rollout's required calls were told in order.
LEMMA PassingIsOrdered ==
  ASSUME scene \in Scenes, NEW events, NEW files, NEW said,
         \A f \in Findings(events, files, said) : f \notin HardFindings
  PROVE  Takes(Len(task.tools), Len(task.tools), task.tools, CalledTools(events))
<1> DEFINE called == CalledTools(events)
           required == task.tools
           failing == {m \in 1..Len(required) : ~Takes(m, m, required, called)}
<1>1. Len(required) \in Nat
  BY ScenesAreRollouts DEF task
<1>2. Takes(0, 0, required, called)
  <2> DEFINE none == [n \in {} |-> n]
  <2>1. none \in [1..0 -> DOMAIN called]
    OBVIOUS
  <2>2. \A n \in 1..0 : FALSE
    OBVIOUS
  <2> HIDE DEF none, called, required
  <2>3. \A n \in 1..0 : TakesFirst(none, n, required, called)
                       /\ ArgumentsMatch(required[n], called[none[n]])
    BY <2>2
  <2> QED BY <2>1, <2>3 DEF Takes
<1>3. SUFFICES ASSUME ~Takes(Len(required), Len(required), required, called) PROVE FALSE
  OBVIOUS
<1> HIDE DEF called, required
<1>4. failing \subseteq Nat /\ failing # {}
  BY <1>1, <1>2, <1>3
<1>5. PICK m \in failing : \A k \in failing : m <= k
  BY <1>4, Smallest
<1>6. Takes(m - 1, m - 1, required, called)
  <2>1. CASE m = 1
    BY <1>2, <2>1
  <2>2. CASE m # 1
    <3>1. m - 1 \in 1..Len(required) /\ ~ (m <= m - 1)
      BY <1>1, <1>5, <2>2
    <3> QED BY <1>5, <3>1
  <2> QED BY <2>1, <2>2
<1>7. ToolFailure(m, required, called) \in ToolOrder(required, called)
  BY <1>5, <1>6 DEF ToolOrder
<1>8. ToolFailure(m, required, called) \in Findings(events, files, said)
  BY <1>7 DEF Findings, called, required
<1>9. ToolFailure(m, required, called) \in HardFindings
  BY DEF ToolFailure, HardFindings
<1> QED BY <1>8, <1>9

\* What the check of a Trace lets through: a sealed report of this workspace, which
\* passed, of a required proof of the contract that the agent started with.
LEMMA TraceIsChecked ==
  ASSUME NEW c, NEW files, TraceFailure(c, files) = "none", task.proofs # {}
  PROVE  LET r == files[ReportFile(c.out)][2] IN
         /\ SealFile(c.out) \in DOMAIN files /\ files[SealFile(c.out)] = SealOf(r)
         /\ r.passed /\ r.snapshot = Snapshot(files, c.out)
         /\ r.argv = c.child /\ r.proof # NotYet /\ r.proof.id = c.proof
         /\ Intent \in DOMAIN files =>
               /\ r.proof.sha = files[Intent] /\ Sha(before, Intent) = files[Intent]
               /\ r.proof.command = r.argv
<1> DEFINE r == files[ReportFile(c.out)][2]
<1>1. IsReport(files, c.out) /\ r.passed
  BY DEF TraceFailure
<1>2. Sealed(files, c.out) /\ SameWorkspace(r, c, files)
  BY <1>1 DEF TraceFailure
<1>3. r.argv = c.child
  BY <1>1, <1>2 DEF TraceFailure
<1>4. r.proof # NotYet /\ r.proof.id = c.proof
  BY <1>1, <1>2, <1>3 DEF TraceFailure
<1>5. Intent \in DOMAIN files =>
        /\ r.proof.sha = files[Intent] /\ Sha(before, Intent) = files[Intent]
        /\ r.proof.command = r.argv
  BY <1>1, <1>2, <1>3, <1>4 DEF TraceFailure
<1> QED BY <1>1, <1>2, <1>3, <1>4, <1>5 DEF Sealed, SameWorkspace

\* A passing rollout's required proofs were run.
LEMMA PassingIsProved ==
  ASSUME RolloutInv, phase = "ended", NEW said,
         \A f \in Findings(Events, workspace, said) : f \notin HardFindings,
         task.trace, NEW p \in task.proofs
  PROVE  \E r \in ran :
            /\ r.passed /\ r.child = hashed[Intent][2][p].command
            /\ r.source = workspace[Source] /\ r.intent = hashed[Intent]
<1>1. PICK c \in Traces(Events) : c.proof = p
  <2>1. "MISSING_TRACE_PROOF" \in HardFindings
    BY DEF HardFindings
  <2>2. "MISSING_TRACE_PROOF" \notin ToolCalls(Events)
    BY <2>1 DEF Findings
  <2> QED BY <2>2 DEF ToolCalls
<1>2. ReportFile(c.out) \in DOMAIN workspace
  <2>1. c \in Commands(Events) /\ IsTrace(c)
    BY DEF Traces
  <2>2. PICK n \in DOMAIN Events : /\ Events[n].type = "command" /\ Events[n].zero = "yes"
                                   /\ Events[n].command = c
    BY <2>1 DEF Commands, Attempts
  <2>3. PICK m \in 1..Len(lines) :
            lines[m].kind = "done" /\ lines[m].zero /\ lines[m].command = c
    BY <2>2, EventsTell DEF TellsLine
  <2> QED BY <2>1, <2>3 DEF RolloutInv, LinesInv, TracesAreThere
<1>3. TraceFailure(c, workspace) = "none"
  <2>1. Evidence(Events, workspace) \subseteq Findings(Events, workspace, said)
    BY DEF Findings
  <2>2. ASSUME TraceFailure(c, workspace) # "none"
        PROVE  TraceFailure(c, workspace) \in Evidence(Events, workspace)
    BY <1>2, <2>2 DEF Evidence
  <2>3. TraceFailure(c, workspace) \in
            {"none", "MISSING_ARTIFACT", "STALE_EVIDENCE", "MISSING_TRACE_PROOF"}
    BY DEF TraceFailure, ArtifactFailure
  <2>4. {"MISSING_ARTIFACT", "STALE_EVIDENCE", "MISSING_TRACE_PROOF"} \subseteq HardFindings
    BY DEF HardFindings
  <2> QED BY <2>1, <2>2, <2>3, <2>4
<1> DEFINE report == workspace[ReportFile(c.out)][2]
<1>4. /\ SealFile(c.out) \in DOMAIN workspace /\ workspace[SealFile(c.out)] = SealOf(report)
      /\ report.passed /\ report.snapshot = Snapshot(workspace, c.out)
      /\ report.argv = c.child /\ report.proof # NotYet /\ report.proof.id = p
      /\ Intent \in DOMAIN workspace =>
            /\ report.proof.sha = workspace[Intent] /\ Sha(before, Intent) = workspace[Intent]
            /\ report.proof.command = report.argv
  BY <1>1, <1>3, TraceIsChecked
<1> HIDE DEF report
<1>5. SealsAreHonest(ran, workspace) /\ before = hashed /\ Source \in DOMAIN workspace
  BY DEF RolloutInv, FilesInv
<1>6. Honest(report, ran, workspace)
  <2>1. workspace[SealFile(c.out)][1] = "seal" /\ workspace[SealFile(c.out)][2] = report
    BY <1>4 DEF SealOf
  <2> QED BY <1>4, <1>5, <2>1 DEF SealsAreHonest
<1>7. PICK r \in ran :
        /\ r.child = report.argv /\ r.passed = report.passed
        /\ Source \in DOMAIN report.snapshot => r.source = report.snapshot[Source]
        /\ Intent \in DOMAIN workspace
        /\ report.proof.sha = r.intent
        /\ report.proof.command = report.proof.sha[2][report.proof.id].command
  BY <1>4, <1>6 DEF Honest
<1>8. hashed[Intent] = workspace[Intent]
  <2>1. Sha(hashed, Intent) = workspace[Intent]
    BY <1>4, <1>5, <1>7
  <2>2. CASE Intent \in DOMAIN hashed
    BY <2>1, <2>2 DEF Sha
  <2>3. CASE Intent \notin DOMAIN hashed
    <3>1. workspace[Intent] = <<"missing">>
      BY <2>1, <2>3 DEF Sha
    <3>2. workspace[Intent][1] # "missing"
      BY <1>5, <1>7 DEF SealsAreHonest
    <3> QED BY <3>1, <3>2
  <2> QED BY <2>2, <2>3
<1>9. Source \in DOMAIN Snapshot(workspace, c.out)
      /\ Snapshot(workspace, c.out)[Source] = workspace[Source]
  <2>1. Source \notin scene.ignored
    BY ScenesAreRollouts DEF RolloutInv, RolloutTypeOK
  <2>2. Source # ReportFile(c.out) /\ Source # SealFile(c.out)
    BY DEF Source, File, ReportFile, SealFile
  <2> QED BY <1>5, <2>1, <2>2 DEF Snapshot, Restrict
<1> QED BY <1>4, <1>7, <1>8, <1>9

\* The score is written of a rollout that was earned.
LEMMA WriteScoreEarns ==
  ASSUME RolloutInv, WriteScore
  PROVE  ScoresAreEarned'
<1>1. /\ UNCHANGED <<scene, fixture, hashed, pending, workspace, before, lines, running, final,
                     outcome, ran>>
      /\ phase = "ended"
  BY DEF WriteScore
<1>2. StartedFromHashed'
  BY <1>1 DEF StartedFromHashed, RolloutInv, FilesInv
<1>3. CASE score'.status # "PASS"
  BY <1>2, <1>3
  DEF ScoresAreEarned, ProofsWereRun, NothingForbiddenRan, ToolsInOrder, RolloutPassed
<1>4. CASE score'.status = "PASS"
  <2>1. PICK said \in Response : Complete /\ Scored(Events, workspace, said).status = "PASS"
    BY <1>4 DEF WriteScore
  <2>2. /\ \A n \in DOMAIN Events : Events[n].type # "runner_error"
        /\ \A f \in Findings(Events, workspace, said) : f \notin HardFindings
    BY <2>1, PassingFinds
  <2>3. scene \in Scenes
    BY KeptAreLines
  <2>4. ProofsWereRun'
    <3>1. task.trace => \A p \in task.proofs : \E r \in ran :
            /\ r.passed /\ r.child = hashed[Intent][2][p].command
            /\ r.source = workspace[Source] /\ r.intent = hashed[Intent]
      BY <1>1, <2>2, PassingIsProved
    <3> QED BY <1>1, <3>1 DEF ProofsWereRun, task
  <2>5. NothingForbiddenRan'
    <3>1. ASSUME AllKept, task.allowed # {}, NEW n \in 1..Len(lines), Scoreable(n)
          PROVE  lines[n].command.name \in task.allowed /\ lines[n].command.shell # "active"
      <4>1. scene.runner = "scripted" => running = NotYet
        BY <1>1, <2>1 DEF Complete, RolloutInv, PhaseInv
      <4>2. scene.runner = "scripted" => Ended(lines[n].id, lines)
        BY <3>1, <4>1 DEF RolloutInv, LinesInv, UsesEnd, Scoreable
      <4>3. PICK m \in DOMAIN Events :
               Events[m].type = "command" /\ Events[m].command = lines[n].command
        BY <3>1, <4>2, EventsTell
      <4>4. m \in Attempts(Events)
        BY <4>3 DEF Attempts
      <4> QED BY <2>2, <3>1, <4>3, <4>4, PassingIsAllowed
    <3> QED BY <1>1, <3>1 DEF NothingForbiddenRan, Scoreable, EndIsTold, task, AllKept
  <2>6. ToolsInOrder'
    <3> DEFINE called == CalledTools(Events)
               wanted == 1..Len(task.tools)
    <3>1. Takes(Len(task.tools), Len(task.tools), task.tools, called)
      BY <2>2, <2>3, PassingIsOrdered
    <3>2. /\ DOMAIN called \subseteq 1..Len(lines)
          /\ \A n \in DOMAIN called : lines[n].kind = "tool" /\ called[n] = lines[n].tool
      BY EventsTell DEF CalledTools, TellsLine
    <3> HIDE DEF called
    <3>3. PICK at \in [wanted -> DOMAIN called] :
             \A n \in wanted : /\ TakesFirst(at, n, task.tools, called)
                               /\ ArgumentsMatch(task.tools[n], called[at[n]])
      BY <3>1 DEF Takes
    <3>4. at \in [wanted -> 1..Len(lines)]
      BY <3>2, <3>3
    <3>5. ASSUME NEW n \in wanted
          PROVE  /\ lines[at[n]].kind = "tool"
                 /\ lines[at[n]].tool.name = task.tools[n].name
                 /\ ArgumentsMatch(task.tools[n], lines[at[n]].tool)
                 /\ n > 1 => at[n] > at[n - 1]
      <4>1. /\ at[n] \in DOMAIN called /\ called[at[n]].name = task.tools[n].name
            /\ n > 1 => at[n] > at[n - 1]
        BY <3>3 DEF TakesFirst
      <4>2. lines[at[n]].kind = "tool" /\ called[at[n]] = lines[at[n]].tool
        BY <3>2, <4>1
      <4>3. ArgumentsMatch(task.tools[n], called[at[n]])
        BY <3>3
      <4> QED BY <4>1, <4>2, <4>3
    <3> QED BY <1>1, <3>4, <3>5 DEF ToolsInOrder, task, ArgumentsMatch
  <2> QED BY <1>2, <2>4, <2>5, <2>6 DEF ScoresAreEarned
<1> QED BY <1>3, <1>4

\* A rollout passes only on proofs that were run, with commands and tools that its task
\* allows as far as the host tells of them, from the fixture that was hashed: whatever the agent, its host and the owner
\* of the fixture do, and in whatever order.
THEOREM ScoresAreAlwaysEarned == RolloutSpec => []ScoresAreEarned
<1>1. RolloutInit => RolloutInv /\ ScoresAreEarned
  <2>1. RolloutInit => ScoresAreEarned
    BY DEF RolloutInit, ScoresAreEarned, ProofsWereRun, NothingForbiddenRan, ToolsInOrder,
           StartedFromHashed, RolloutPassed
  <2> QED BY <2>1, RolloutStarts
<1>2. RolloutInv /\ ScoresAreEarned /\ [RolloutNext]_rolloutVars => RolloutInv' /\ ScoresAreEarned'
  <2> SUFFICES ASSUME RolloutInv, ScoresAreEarned, [RolloutNext]_rolloutVars
               PROVE  RolloutInv' /\ ScoresAreEarned'
    OBVIOUS
  <2>1. CASE WriteScore
    BY <2>1, EndingKeeps, WriteScoreEarns
  <2>2. CASE RolloutNext /\ ~WriteScore
    <3>1. RolloutInv'
      BY <2>2, CopyingKeeps, SilentKeeps, UseKeeps, CompletesKeeps, LeaveOpenKeeps,
         PrintingKeeps, EndingKeeps
      DEF RolloutNext
    <3>2. phase' # "scored"
      BY <2>2 DEF RolloutNext, EditFixture, HashFixture, CopyFile, RefuseCopy, StartAgent, WriteFile,
                  Use, RefuseScript, Completes, LeaveOpen, Repeat, CallTool, Say, EndHost, EndInError,
                  Move
    <3> QED BY <3>1, <3>2 DEF ScoresAreEarned, ProofsWereRun, NothingForbiddenRan, ToolsInOrder,
                              StartedFromHashed, RolloutPassed
  <2>3. CASE UNCHANGED rolloutVars
    <3>1. RolloutInv'
      BY <2>3
      DEF rolloutVars, RolloutInv, RolloutTypeOK, FilesInv, LinesInv, LinesAreTyped,
          NumbersAreUnique, UsesEnd, TracesAreThere, Ended, OfCommand, PhaseInv
    <3>2. ScoresAreEarned'
      BY <2>3 DEF rolloutVars, ScoresAreEarned, ProofsWereRun, NothingForbiddenRan, ToolsInOrder,
                  StartedFromHashed, RolloutPassed, Scoreable, EndIsTold, AllKept, task
    <3> QED BY <3>1, <3>2
  <2> QED BY <2>1, <2>2, <2>3
<1> QED BY <1>1, <1>2, PTL DEF RolloutSpec
=============================================================================
