---------------------------- MODULE Runs_proofs ----------------------------
(***************************************************************************)
(* Proofs about Run Manifests, for any commands, workspaces and reports,   *)
(* however many of them; and about investigations, for any records,        *)
(* receipts and budgets.                                                   *)
(*                                                                         *)
(* That a history is earned is a matter of one manifest (Good): whatever a *)
(* command extends was good, and a manifest that overwrites another one is *)
(* a command's copy.  It holds when commands overlap.  That a manifest     *)
(* only grows and is closed on its last report needs that what a command   *)
(* has seen is still so when it writes (UpToDate), and that holds of a     *)
(* command that runs alone.                                                *)
(*                                                                         *)
(* An investigation's conclusions follow from what its parts say of one    *)
(* another (InvestigationInv): evidence is all that the inspected receipts *)
(* say of the recorded calls, nothing is left out unless a budget ended,   *)
(* and the ledger has an entry for each record and each tool call.         *)
(***************************************************************************)
EXTENDS DeliveryRun, PortableInvestigation, FiniteSetTheorems, TLAPS

Places == {"idle", "init", "write", "writestale", "attach", "snapshot", "verify", "close"}

EventNames == {"created", "bind_intent", "attach_audit", "attach_review", "attach_trace",
               "attach_evidence_pack", "close", "repository_changed"}
Steps == States \cup {"CREATED"}
Events == [event : EventNames, from : Steps, to : Steps, art : Nat]
Manifests(W, R) ==
    [run : Procs, state : States, intent : {w.intent : w \in W}, latest : W,
     arts : SUBSET R, history : Seq(Events)]

Legal(e) == \/ e.from = e.to /\ e.to # "CLOSED"
            \/ e.to = "STALE"
            \/ <<e.from, e.event, e.to>> \in Transitions

\* The events of a manifest are a path to its state; nothing follows STALE.
Path(m) ==
    /\ m.history # <<>>
    /\ m.history[1].from = "CREATED" /\ m.history[Len(m.history)].to = m.state
    /\ \A i \in 2..Len(m.history) : m.history[i].from = m.history[i - 1].to
    /\ \A i \in 1..Len(m.history) : Legal(m.history[i])
    /\ \A i \in 1..Len(m.history) : m.history[i].to = "STALE" => i = Len(m.history)

WentTo(m, s) == \E i \in 1..Len(m.history) : m.history[i].to = s

Earned(m) ==
    /\ WentTo(m, "REVIEWED") => \E r \in m.arts :
           r.kind = "review" /\ r.passes /\ r.intent = m.intent
    /\ WentTo(m, "PROVEN") => WentTo(m, "REVIEWED") /\ \E r \in m.arts :
           r.kind = "trace" /\ r.passes /\ r.intent = m.intent
    /\ WentTo(m, "PACKED") => WentTo(m, "PROVEN") /\ \E r \in m.arts :
           r.kind = "evidence_pack" /\ r.passes
    /\ WentTo(m, "CLOSED") => WentTo(m, "PACKED")

\* The report of the last event that attached one.
LastOf(m, r) ==
    \E i \in 1..Len(m.history) :
        /\ m.history[i].art = r.id /\ r.id # 0
        /\ \A j \in 1..Len(m.history) : m.history[j].art # 0 => j <= i

\* As long as it is not stale, the snapshot of a run is that of its last report.
AtLatest(m) ==
    m.state \notin {"INTENT_BOUND", "STALE"} => \E r \in m.arts : LastOf(m, r) /\ r.snap = m.latest

Good(m, W, R) == m \in Manifests(W, R) /\ Path(m) /\ Earned(m) /\ AtLatest(m)

\* Nothing of a manifest is lost, and one that is over stays as it is.
Grows(m, n) ==
    /\ n.run = m.run
    /\ Len(n.history) >= Len(m.history)
    /\ SubSeq(n.history, 1, Len(m.history)) = m.history
    /\ m.arts \subseteq n.arts
    /\ m.state \in {"STALE", "CLOSED"} => n = m

SeenStatuses(W) == [snap : W, fresh : BOOLEAN, state : States]

(***************************************************************************)
(* The invariant.                                                          *)
(***************************************************************************)

ReportsTyped ==
    /\ IsFiniteSet(reports) /\ Cardinality(reports) <= scene.reports
    /\ \A r \in reports : r.kind \in Kinds /\ r.snap \in scene.workspaces
                          /\ r.id \in 1..Cardinality(reports)
    /\ \A r, s \in reports : r.id = s.id => r = s

ManifestGood == Exists => Good(manifest, scene.workspaces, reports)

\* What a command holds (its job j, what it has seen v, its copy c), by where it is.
Placed(at, j, v, c, m, W, R) ==
    /\ at \in Places
    /\ at \in {"idle", "init"} => j = Nothing
    /\ at = "init" => c.state = "INTENT_BOUND"
    /\ at \in {"init", "write", "writestale"} => Good(c, W, R)
    /\ at = "attach" => j \in R
    /\ at = "snapshot" => Good(v, W, R)
    /\ at \in {"verify", "writestale", "close"} => v \in SeenStatuses(W)
    /\ at \in {"snapshot", "verify", "writestale", "close"} => m # None

\* What a command has seen of the manifest m is so.
UpToDate(at, j, v, c, m) ==
    /\ at = "init" => m = None
    /\ at \in {"write", "writestale"} /\ m # None => Grows(m, c)
    /\ at = "snapshot" => v = m
    /\ at = "verify" => /\ v.state = "STALE" => m.state # "CLOSED"
                        /\ v.fresh => v.snap = m.latest
    /\ at = "writestale" => c.latest = v.snap
    /\ at = "close" /\ v.fresh => v.snap = m.latest
    /\ at = "write" /\ j.kind = "close" =>
         /\ m # None /\ m.state = "PACKED" /\ c.state = "CLOSED" /\ v.snap = m.latest

Typed ==
    /\ scene \in Scenes /\ ws \in scene.workspaces
    /\ pc = [p \in Procs |-> pc[p]] /\ job = [p \in Procs |-> job[p]]
    /\ seen = [p \in Procs |-> seen[p]] /\ copy = [p \in Procs |-> copy[p]]

IInv ==
    /\ Typed /\ ReportsTyped /\ ManifestGood
    /\ \A p \in Procs : Placed(pc[p], job[p], seen[p], copy[p], manifest, scene.workspaces, reports)
    /\ Alone => \A p \in scene.procs : UpToDate(pc[p], job[p], seen[p], copy[p], manifest)

(***************************************************************************)
(* Manifests.                                                              *)
(***************************************************************************)

\* A manifest is not None.
LEMMA NotNone ==
  ASSUME NEW W, NEW R, NEW m \in Manifests(W, R)
  PROVE  m # None
  BY DEF Manifests, None, States

LEMMA Appended ==
  ASSUME NEW S, NEW h \in Seq(S), NEW e \in S
  PROVE  /\ Append(h, e) \in Seq(S)
         /\ Len(h) \in Nat /\ Len(Append(h, e)) = Len(h) + 1
         /\ \A i \in 1..Len(h) : Append(h, e)[i] = h[i]
         /\ Append(h, e)[Len(h) + 1] = e
         /\ SubSeq(Append(h, e), 1, Len(h)) = h
         /\ SubSeq(h, 1, Len(h)) = h
  OBVIOUS

\* With more reports a manifest is still good.
LEMMA GoodWithMore ==
  ASSUME NEW W, NEW R, NEW Q, NEW m, R \subseteq Q, Good(m, W, R)
  PROVE  Good(m, W, Q)
  BY DEF Good, Manifests

\* A manifest that is not stale and goes on by a legal event is on a path, which went
\* through one more state at most.
LEMMA PathGoesOn ==
  ASSUME NEW W, NEW R, NEW m, Good(m, W, R), m.state # "STALE",
         NEW e \in Events, e.from = m.state, Legal(e),
         NEW n \in Manifests(W, R), n.history = Append(m.history, e), n.state = e.to
  PROVE  /\ Path(n)
         /\ WentTo(m, m.state)
         /\ \A s : WentTo(n, s) <=> WentTo(m, s) \/ s = e.to
<1> DEFINE h == m.history
           k == n.history
<1>1. /\ h \in Seq(Events) /\ h # <<>>
      /\ h[1].from = "CREATED" /\ h[Len(h)].to = m.state
      /\ \A i \in 2..Len(h) : h[i].from = h[i - 1].to
      /\ \A i \in 1..Len(h) : Legal(h[i])
      /\ \A i \in 1..Len(h) : h[i].to # "STALE"
  BY DEF Good, Path, Manifests
<1>2. /\ Len(h) \in Nat \ {0} /\ Len(k) = Len(h) + 1
      /\ \A i \in 1..Len(h) : k[i] = h[i]
      /\ k[Len(h) + 1] = e
  BY <1>1, Appended
<1>3. WentTo(m, m.state)
  BY <1>1, <1>2 DEF WentTo
<1>4. ASSUME NEW s PROVE WentTo(n, s) <=> WentTo(m, s) \/ s = e.to
  BY <1>2 DEF WentTo
<1>5. \A i \in 2..Len(k) : k[i].from = k[i - 1].to
  <2> SUFFICES ASSUME NEW i \in 2..Len(k) PROVE k[i].from = k[i - 1].to
    OBVIOUS
  <2>1. CASE i = Len(h) + 1
    BY <1>1, <1>2, <2>1
  <2>2. CASE i \in 2..Len(h)
    BY <1>1, <1>2, <2>2
  <2> QED BY <1>2, <2>1, <2>2
<1>6. \A i \in 1..Len(k) : Legal(k[i])
  <2> SUFFICES ASSUME NEW i \in 1..Len(k) PROVE Legal(k[i])
    OBVIOUS
  <2>1. i \in 1..Len(h) \/ i = Len(h) + 1
    BY <1>2
  <2> QED BY <1>1, <1>2, <2>1
<1>7. /\ k # <<>> /\ k[1].from = "CREATED" /\ k[Len(k)].to = n.state
      /\ \A i \in 1..Len(k) : k[i].to = "STALE" => i = Len(k)
  BY <1>1, <1>2
<1> QED BY <1>3, <1>4, <1>5, <1>6, <1>7 DEF Path

\* _append_event.
Continues(n, m, e, to, art, W, R) ==
    /\ n \in Manifests(W, R)
    /\ n.history = Append(m.history, Event(e, m.state, to, art))
    /\ n.state = to /\ n.arts = m.arts /\ n.run = m.run
    /\ n.intent = m.intent /\ n.latest = m.latest
    /\ Event(e, m.state, to, art) \in Events

LEMMA Extends ==
  ASSUME NEW W, NEW R, NEW m \in Manifests(W, R), NEW e \in EventNames, NEW to \in States,
         NEW art \in Nat
  PROVE  Continues(Extended(m, e, to, art), m, e, to, art, W, R)
<1>1. Event(e, m.state, to, art) \in Events
  BY DEF Event, Events, Manifests, Steps
<1>2. Append(m.history, Event(e, m.state, to, art)) \in Seq(Events)
  BY <1>1, Appended DEF Manifests
<1> HIDE DEF Event
<1> QED BY <1>1, <1>2 DEF Extended, Continues, Manifests

\* The manifest of init.
LEMMA InitGood ==
  ASSUME NEW W, NEW R, NEW p \in Procs, NEW w \in W, NEW v \in W
  PROVE  Good([run |-> p, state |-> "INTENT_BOUND", intent |-> w.intent, latest |-> v, arts |-> {},
               history |-> <<Event("created", "CREATED", "CREATED", 0),
                             Event("bind_intent", "CREATED", "INTENT_BOUND", 0)>>], W, R)
<1> DEFINE e == Event("created", "CREATED", "CREATED", 0)
           f == Event("bind_intent", "CREATED", "INTENT_BOUND", 0)
           m == [run |-> p, state |-> "INTENT_BOUND", intent |-> w.intent, latest |-> v,
                 arts |-> {}, history |-> <<e, f>>]
<1>1. /\ e \in Events /\ f \in Events /\ Legal(e) /\ Legal(f)
      /\ e.from = "CREATED" /\ e.to = "CREATED" /\ f.from = "CREATED" /\ f.to = "INTENT_BOUND"
  BY DEF Event, Events, EventNames, Steps, States, Legal, Transitions
<1> HIDE DEF e, f
<1>2. /\ m.history = <<e, f>> /\ Len(m.history) = 2 /\ m.history[1] = e /\ m.history[2] = f
      /\ m.history # <<>> /\ m.state = "INTENT_BOUND"
  OBVIOUS
<1>3. m \in Manifests(W, R)
  BY <1>1 DEF Manifests, States
<1> HIDE DEF m
<1>4. Path(m)
  <2>1. \A i \in 1..2 : i = 1 \/ i = 2
    OBVIOUS
  <2> QED BY <1>1, <1>2, <2>1 DEF Path
<1>5. \A s : WentTo(m, s) => s \in {"CREATED", "INTENT_BOUND"}
  BY <1>1, <1>2 DEF WentTo
<1>6. Earned(m) /\ AtLatest(m)
  BY <1>2, <1>5 DEF Earned, AtLatest
<1> QED BY <1>3, <1>4, <1>6 DEF Good, m, e, f

\* Where an acceptable report takes a run.
LEMMA TargetOf ==
  ASSUME NEW m, NEW r, m.state \in States, r.kind \in Kinds, Acceptable(m, r)
  PROVE  /\ Attaches(r.kind) \in EventNames
         /\ m.state \notin {"CLOSED", "STALE"}
         /\ \/ Target(m, r) = m.state /\ (m.state = "INTENT_BOUND" => r.kind # "audit")
            \/ /\ <<m.state, Attaches(r.kind), Target(m, r)>> \in Transitions
               /\ \/ r.kind = "audit" /\ Target(m, r) = "AUDITED"
                  \/ /\ r.kind = "review" /\ Target(m, r) = "REVIEWED"
                     /\ r.passes /\ r.intent = m.intent
                  \/ /\ r.kind = "trace" /\ m.state = "REVIEWED" /\ Target(m, r) = "PROVEN"
                     /\ r.passes /\ r.intent = m.intent
                  \/ /\ r.kind = "evidence_pack" /\ m.state = "PROVEN" /\ Target(m, r) = "PACKED"
                     /\ r.passes
<1>1. /\ Attaches(r.kind) \in EventNames
      /\ r.kind = "audit" => Attaches(r.kind) = "attach_audit"
      /\ r.kind = "review" => Attaches(r.kind) = "attach_review"
      /\ r.kind = "trace" => Attaches(r.kind) = "attach_trace"
      /\ r.kind = "evidence_pack" => Attaches(r.kind) = "attach_evidence_pack"
  BY DEF Attaches, EventNames, Kinds
<1>2. m.state \notin {"CLOSED", "STALE"}
  BY DEF Acceptable
<1>3. CASE ~Moves(m, r)
  BY <1>1, <1>2, <1>3 DEF Target, Moves
<1>4. CASE Moves(m, r)
  <2>1. /\ r.kind \in {"review", "trace", "evidence_pack"} => r.passes
        /\ r.kind \in {"review", "trace"} => r.intent = m.intent
        /\ r.kind = "trace" => m.state = "REVIEWED"
        /\ r.kind = "evidence_pack" => m.state = "PROVEN"
        /\ \E t \in Transitions : t[1] = m.state /\ t[2] = Attaches(r.kind)
    BY <1>4 DEF Acceptable, Moves
  <2>2. \E s \in States : <<m.state, Attaches(r.kind), s>> \in Transitions
    BY <2>1 DEF Transitions, States
  <2>3. <<m.state, Attaches(r.kind), Target(m, r)>> \in Transitions
    BY <1>4, <2>2 DEF Target
  <2> QED BY <1>1, <1>2, <2>1, <2>3 DEF Transitions, Kinds
<1> QED BY <1>3, <1>4

\* attach_artifact: a run with an acceptable report more is good, and has only grown.
LEMMA AttachedGood ==
  ASSUME NEW W, NEW R, NEW m, NEW r \in R, Good(m, W, R),
         r.kind \in Kinds, r.snap \in W, r.id \in Nat \ {0}, Acceptable(m, r)
  PROVE  Good(Attached(m, r), W, R) /\ Grows(m, Attached(m, r))
<1> DEFINE mid == [m EXCEPT !.arts = m.arts \cup {r}, !.latest = r.snap]
           n == Attached(m, r)
           e == Event(Attaches(r.kind), m.state, Target(m, r), r.id)
<1>1. m \in Manifests(W, R) /\ m.state \in States
  BY DEF Good, Manifests
<1>2. /\ mid \in Manifests(W, R) /\ mid.state = m.state /\ mid.history = m.history
      /\ mid.run = m.run /\ mid.intent = m.intent
      /\ mid.arts = m.arts \cup {r} /\ mid.latest = r.snap
  BY <1>1 DEF Manifests
<1>3. n = Extended(mid, Attaches(r.kind), Target(m, r), r.id)
  BY DEF Attached
<1> HIDE DEF mid, n
<1>4. /\ Attaches(r.kind) \in EventNames
      /\ m.state \notin {"CLOSED", "STALE"} /\ Target(m, r) \in States
  BY <1>1, TargetOf DEF Transitions, States
<1>5. /\ n \in Manifests(W, R) /\ e \in Events
      /\ n.history = Append(m.history, e) /\ n.state = Target(m, r)
      /\ n.arts = m.arts \cup {r} /\ n.run = m.run /\ n.intent = m.intent /\ n.latest = r.snap
  <2>1. Continues(Extended(mid, Attaches(r.kind), Target(m, r), r.id),
                  mid, Attaches(r.kind), Target(m, r), r.id, W, R)
    BY <1>2, <1>4, Extends
  <2> QED BY <1>2, <1>3, <2>1 DEF Continues
<1>6. /\ e.from = m.state /\ e.to = Target(m, r) /\ e.event = Attaches(r.kind) /\ e.art = r.id
  BY DEF Event
<1> HIDE DEF e
<1>7. Legal(e)
  BY <1>1, <1>4, <1>6, TargetOf DEF Legal
<1>8. /\ Path(n) /\ WentTo(m, m.state)
      /\ \A s : WentTo(n, s) <=> WentTo(m, s) \/ s = Target(m, r)
  BY <1>4, <1>5, <1>6, <1>7, PathGoesOn
<1>9. Earned(n)
  <2>1. Earned(m)
    BY DEF Good
  <2>2. \/ Target(m, r) = m.state
        \/ Target(m, r) = "AUDITED"
        \/ Target(m, r) = "REVIEWED" /\ r.kind = "review" /\ r.passes /\ r.intent = m.intent
        \/ /\ Target(m, r) = "PROVEN" /\ m.state = "REVIEWED"
           /\ r.kind = "trace" /\ r.passes /\ r.intent = m.intent
        \/ /\ Target(m, r) = "PACKED" /\ m.state = "PROVEN"
           /\ r.kind = "evidence_pack" /\ r.passes
    BY <1>1, TargetOf
  <2> QED BY <1>5, <1>8, <2>1, <2>2 DEF Earned
<1>10. AtLatest(n)
  <2>1. LastOf(n, r)
    <3>1. /\ Len(n.history) \in Nat \ {0} /\ n.history[Len(n.history)] = e
      BY <1>1, <1>5, Appended DEF Manifests
    <3> QED BY <1>6, <3>1 DEF LastOf
  <2> QED BY <1>5, <2>1 DEF AtLatest
<1>11. Grows(m, n)
  BY <1>1, <1>4, <1>5, Appended DEF Grows, Manifests
<1> QED BY <1>5, <1>8, <1>9, <1>10, <1>11 DEF Good, n

\* An event that attaches nothing keeps what was attached last.
LEMMA LastStays ==
  ASSUME NEW W, NEW R, NEW m \in Manifests(W, R), NEW n, NEW e \in Events, NEW r,
         e.art = 0, n.history = Append(m.history, e), LastOf(m, r)
  PROVE  LastOf(n, r)
<1>1. /\ Len(m.history) \in Nat /\ Len(n.history) = Len(m.history) + 1
      /\ \A i \in 1..Len(m.history) : n.history[i] = m.history[i]
      /\ n.history[Len(m.history) + 1] = e
  BY Appended DEF Manifests
<1>2. PICK i \in 1..Len(m.history) :
        /\ m.history[i].art = r.id /\ r.id # 0
        /\ \A j \in 1..Len(m.history) : m.history[j].art # 0 => j <= i
  BY DEF LastOf
<1>3. \A j \in 1..Len(n.history) : n.history[j].art # 0 => j <= i
  <2> SUFFICES ASSUME NEW j \in 1..Len(n.history), n.history[j].art # 0 PROVE j <= i
    OBVIOUS
  <2>1. j \in 1..Len(m.history)
    BY <1>1
  <2> QED BY <1>1, <1>2, <2>1
<1> QED BY <1>1, <1>2, <1>3 DEF LastOf

\* verify_run: a run that is found stale is good, and has only grown if it was not over.
LEMMA StaleGood ==
  ASSUME NEW W, NEW R, NEW m, NEW w \in W, Good(m, W, R), m.state # "STALE"
  PROVE  LET n == Extended([m EXCEPT !.latest = w], "repository_changed", "STALE", 0)
         IN  /\ Good(n, W, R) /\ n.latest = w
             /\ m.state # "CLOSED" => Grows(m, n)
<1> DEFINE mid == [m EXCEPT !.latest = w]
           n == Extended(mid, "repository_changed", "STALE", 0)
           e == Event("repository_changed", m.state, "STALE", 0)
<1>1. m \in Manifests(W, R)
  BY DEF Good
<1>2. /\ mid \in Manifests(W, R) /\ mid.state = m.state /\ mid.history = m.history
      /\ mid.run = m.run /\ mid.intent = m.intent /\ mid.arts = m.arts /\ mid.latest = w
  BY <1>1 DEF Manifests
<1> HIDE DEF mid
<1>3. /\ n \in Manifests(W, R) /\ e \in Events
      /\ n.history = Append(m.history, e) /\ n.state = "STALE"
      /\ n.arts = m.arts /\ n.run = m.run /\ n.intent = m.intent /\ n.latest = w
  <2>1. Continues(Extended(mid, "repository_changed", "STALE", 0),
                  mid, "repository_changed", "STALE", 0, W, R)
    <3>1. "repository_changed" \in EventNames /\ "STALE" \in States /\ 0 \in Nat
      BY DEF EventNames, States
    <3> QED BY <1>2, <3>1, Extends
  <2> QED BY <1>2, <2>1 DEF Continues
<1>4. e.from = m.state /\ e.to = "STALE"
  BY DEF Event
<1> HIDE DEF n, e
<1>5. Path(n) /\ \A s : WentTo(n, s) <=> WentTo(m, s) \/ s = "STALE"
  <2>1. Legal(e)
    BY <1>4 DEF Legal
  <2> QED BY <1>3, <1>4, <2>1, PathGoesOn
<1>6. Earned(n)
  BY <1>3, <1>5 DEF Good, Earned
<1>7. AtLatest(n)
  BY <1>3 DEF AtLatest
<1>8. m.state # "CLOSED" => Grows(m, n)
  BY <1>1, <1>3, Appended DEF Grows, Manifests
<1> QED BY <1>3, <1>5, <1>6, <1>7, <1>8 DEF Good, n, mid

\* close_run: a packed run that is closed is good, and has only grown.
LEMMA CloseGood ==
  ASSUME NEW W, NEW R, NEW m, Good(m, W, R), m.state = "PACKED"
  PROVE  LET n == Extended(m, "close", "CLOSED", 0)
         IN  Good(n, W, R) /\ Grows(m, n) /\ n.state = "CLOSED"
<1> DEFINE n == Extended(m, "close", "CLOSED", 0)
           e == Event("close", m.state, "CLOSED", 0)
<1>1. m \in Manifests(W, R)
  BY DEF Good
<1>2. /\ n \in Manifests(W, R) /\ e \in Events
      /\ n.history = Append(m.history, e) /\ n.state = "CLOSED"
      /\ n.arts = m.arts /\ n.run = m.run /\ n.intent = m.intent /\ n.latest = m.latest
  <2>1. Continues(Extended(m, "close", "CLOSED", 0), m, "close", "CLOSED", 0, W, R)
    <3>1. "close" \in EventNames /\ "CLOSED" \in States /\ 0 \in Nat
      BY DEF EventNames, States
    <3> QED BY <1>1, <3>1, Extends
  <2> QED BY <2>1 DEF Continues
<1>3. e.from = m.state /\ e.to = "CLOSED" /\ e.event = "close" /\ e.art = 0
  BY DEF Event
<1> HIDE DEF n, e
<1>4. Path(n) /\ WentTo(m, "PACKED") /\ \A s : WentTo(n, s) <=> WentTo(m, s) \/ s = "CLOSED"
  BY <1>2, <1>3, PathGoesOn DEF Legal, Transitions
<1>5. Earned(n)
  BY <1>2, <1>4 DEF Good, Earned
<1>6. AtLatest(n)
  <2>1. PICK r \in m.arts : LastOf(m, r) /\ r.snap = m.latest
    BY DEF Good, AtLatest
  <2>2. LastOf(n, r)
    BY <1>1, <1>2, <1>3, <2>1, LastStays
  <2> QED BY <1>2, <2>1, <2>2 DEF AtLatest
<1>7. Grows(m, n)
  BY <1>1, <1>2, Appended DEF Grows, Manifests
<1> QED BY <1>2, <1>4, <1>5, <1>6, <1>7 DEF Good, n

(***************************************************************************)
(* The steps.                                                              *)
(***************************************************************************)

\* The invariant of the next state, said of the next values.
LEMMA Primed ==
  ASSUME scene' = scene, scene \in Scenes, ws' \in scene.workspaces,
         pc' = [q \in Procs |-> pc'[q]], job' = [q \in Procs |-> job'[q]],
         seen' = [q \in Procs |-> seen'[q]], copy' = [q \in Procs |-> copy'[q]],
         ReportsTyped',
         manifest' # None => Good(manifest', scene.workspaces, reports'),
         \A q \in Procs : Placed(pc'[q], job'[q], seen'[q], copy'[q], manifest',
                                 scene.workspaces, reports'),
         Alone => \A q \in scene.procs : UpToDate(pc'[q], job'[q], seen'[q], copy'[q], manifest')
  PROVE  IInv'
<1>1. Typed'
  BY DEF Typed
<1>2. ManifestGood'
  <2>1. ASSUME manifest' # None PROVE (Good(manifest, scene.workspaces, reports))'
    <3>1. Good(manifest', scene'.workspaces, reports')
      BY <2>1
    <3> QED BY <3>1 DEF Good, Manifests, Path, Earned, AtLatest, WentTo, LastOf, Legal
  <2> QED BY <2>1 DEF ManifestGood, Exists
<1>3. ASSUME NEW q \in Procs
      PROVE  (Placed(pc[q], job[q], seen[q], copy[q], manifest, scene.workspaces, reports))'
  <2>1. Placed(pc'[q], job'[q], seen'[q], copy'[q], manifest', scene'.workspaces, reports')
    OBVIOUS
  <2>2. Good(copy'[q], scene'.workspaces, reports') => (Good(copy[q], scene.workspaces, reports))'
    BY DEF Good, Manifests, Path, Earned, AtLatest, WentTo, LastOf, Legal
  <2>3. Good(seen'[q], scene'.workspaces, reports') => (Good(seen[q], scene.workspaces, reports))'
    BY DEF Good, Manifests, Path, Earned, AtLatest, WentTo, LastOf, Legal
  <2> QED BY <2>1, <2>2, <2>3 DEF Placed, Places, SeenStatuses, None, Nothing
<1>4. (Alone => \A q \in scene.procs : UpToDate(pc[q], job[q], seen[q], copy[q], manifest))'
  BY DEF Alone, UpToDate, Grows
<1> QED BY <1>1, <1>2, <1>3, <1>4 DEF IInv

\* Only the entry of p changes.
Only(p, f, g) == g = [q \in Procs |-> IF q = p THEN g[p] ELSE f[q]]

\* A step of a command leaves what the others hold; alone, there are none.
LEMMA Framed ==
  ASSUME IInv, NEW p \in scene.procs, scene' = scene, ws' = ws,
         Only(p, pc, pc'), Only(p, job, job'), Only(p, seen, seen'), Only(p, copy, copy'),
         ReportsTyped', reports \subseteq reports',
         manifest' # None => Good(manifest', scene.workspaces, reports'),
         manifest # None => manifest' # None,
         Placed(pc'[p], job'[p], seen'[p], copy'[p], manifest', scene.workspaces, reports'),
         Alone => UpToDate(pc'[p], job'[p], seen'[p], copy'[p], manifest')
  PROVE  IInv'
<1>1. /\ scene \in Scenes /\ ws \in scene.workspaces /\ p \in Procs
      /\ \A q \in Procs : Placed(pc[q], job[q], seen[q], copy[q], manifest, scene.workspaces, reports)
  BY SceneAssumption DEF IInv, Typed
<1>2. /\ pc' = [q \in Procs |-> pc'[q]] /\ job' = [q \in Procs |-> job'[q]]
      /\ seen' = [q \in Procs |-> seen'[q]] /\ copy' = [q \in Procs |-> copy'[q]]
  BY <1>1 DEF Only
<1>3. ASSUME NEW q \in Procs
      PROVE  Placed(pc'[q], job'[q], seen'[q], copy'[q], manifest', scene.workspaces, reports')
  <2>1. CASE q = p
    BY <2>1
  <2>2. CASE q # p
    <3>1. /\ pc'[q] = pc[q] /\ job'[q] = job[q] /\ seen'[q] = seen[q] /\ copy'[q] = copy[q]
      BY <2>2 DEF Only
    <3>2. Placed(pc[q], job[q], seen[q], copy[q], manifest, scene.workspaces, reports)
      BY <1>1
    <3>3. Placed(pc[q], job[q], seen[q], copy[q], manifest', scene.workspaces, reports')
      BY <3>2, GoodWithMore DEF Placed
    <3> QED BY <3>1, <3>3
  <2> QED BY <2>1, <2>2
<1>4. Alone => \A q \in scene.procs : UpToDate(pc'[q], job'[q], seen'[q], copy'[q], manifest')
  <2> SUFFICES ASSUME Alone, NEW q \in scene.procs
               PROVE  UpToDate(pc'[q], job'[q], seen'[q], copy'[q], manifest')
    OBVIOUS
  <2>1. q = p
    BY DEF Alone
  <2> QED BY <2>1
<1> QED BY <1>1, <1>2, <1>3, <1>4, Primed

\* So does one that writes nothing.
LEMMA Moved ==
  ASSUME IInv, NEW p \in scene.procs, UNCHANGED <<scene, ws, reports, manifest>>,
         Only(p, pc, pc'), Only(p, job, job'), Only(p, seen, seen'), Only(p, copy, copy'),
         Placed(pc'[p], job'[p], seen'[p], copy'[p], manifest, scene.workspaces, reports),
         Alone => UpToDate(pc'[p], job'[p], seen'[p], copy'[p], manifest)
  PROVE  IInv'
<1>1. /\ ReportsTyped'
      /\ manifest # None => Good(manifest, scene.workspaces, reports)
  BY DEF IInv, ReportsTyped, ManifestGood, Exists
<1> QED BY <1>1, Framed

\* The entry that changes, and those that do not.
LEMMA OnlyOne ==
  ASSUME NEW p \in Procs, NEW f, f = [q \in Procs |-> f[q]], NEW v
  PROVE  /\ Only(p, f, f)
         /\ Only(p, f, [f EXCEPT ![p] = v])
         /\ [f EXCEPT ![p] = v][p] = v
  BY DEF Only

\* What is known before a step of p.
LEMMA Before ==
  ASSUME IInv, NEW p \in scene.procs
  PROVE  /\ p \in Procs /\ Typed /\ ReportsTyped
         /\ Placed(pc[p], job[p], seen[p], copy[p], manifest, scene.workspaces, reports)
         /\ Alone => UpToDate(pc[p], job[p], seen[p], copy[p], manifest)
         /\ manifest # None => Good(manifest, scene.workspaces, reports)
  BY SceneAssumption DEF IInv, Typed, ManifestGood, Exists

\* A command that ends holds nothing.
LEMMA DoneHolds ==
  ASSUME IInv, NEW p \in scene.procs, Done(p), UNCHANGED <<scene, ws>>,
         ReportsTyped', reports \subseteq reports',
         manifest' # None => Good(manifest', scene.workspaces, reports'),
         manifest # None => manifest' # None
  PROVE  IInv'
<1>1. p \in Procs /\ Typed
  BY Before
<1>2. /\ Only(p, pc, pc') /\ Only(p, job, job') /\ Only(p, seen, seen') /\ Only(p, copy, copy')
      /\ pc'[p] = "idle" /\ job'[p] = Nothing
  BY <1>1, OnlyOne DEF Done, Typed
<1>3. /\ Placed(pc'[p], job'[p], seen'[p], copy'[p], manifest', scene.workspaces, reports')
      /\ UpToDate(pc'[p], job'[p], seen'[p], copy'[p], manifest')
  BY <1>2 DEF Placed, UpToDate, Places
<1> QED BY <1>2, <1>3, Framed

LEMMA DoneStill ==
  ASSUME IInv, NEW p \in scene.procs, Done(p), UNCHANGED <<scene, ws, reports, manifest>>
  PROVE  IInv'
<1>1. /\ ReportsTyped'
      /\ manifest # None => Good(manifest, scene.workspaces, reports)
  BY DEF IInv, ReportsTyped, ManifestGood, Exists
<1> QED BY <1>1, DoneHolds

\* init_run.
LEMMA InitIntentHolds ==
  ASSUME IInv, NEW p \in scene.procs, InitIntent(p), scene' = scene
  PROVE  IInv'
<1> DEFINE c == [run |-> p, state |-> "INTENT_BOUND", intent |-> ws.intent, latest |-> ws, arts |-> {},
                 history |-> <<Event("created", "CREATED", "CREATED", 0),
                               Event("bind_intent", "CREATED", "INTENT_BOUND", 0)>>]
<1>1. /\ p \in Procs /\ Typed
      /\ Placed(pc[p], job[p], seen[p], copy[p], manifest, scene.workspaces, reports)
  BY Before
<1>2. /\ pc[p] = "idle" /\ manifest = None
      /\ pc' = [pc EXCEPT ![p] = "init"] /\ copy' = [copy EXCEPT ![p] = c]
      /\ UNCHANGED <<ws, reports, manifest, job, seen>>
  BY DEF InitIntent
<1>3. Good(c, scene.workspaces, reports)
  BY <1>1, InitGood DEF Typed
<1>c. c.state = "INTENT_BOUND"
  OBVIOUS
<1> HIDE DEF c
<1>4. /\ Only(p, pc, pc') /\ Only(p, job, job') /\ Only(p, seen, seen') /\ Only(p, copy, copy')
      /\ pc'[p] = "init" /\ copy'[p] = c
  BY <1>1, <1>2, OnlyOne DEF Typed
<1>5. Placed(pc'[p], job'[p], seen'[p], copy'[p], manifest, scene.workspaces, reports)
  BY <1>1, <1>2, <1>3, <1>4, <1>c DEF Placed, Places
<1>6. UpToDate(pc'[p], job'[p], seen'[p], copy'[p], manifest)
  BY <1>2, <1>4 DEF UpToDate
<1> QED BY <1>2, <1>4, <1>5, <1>6, Moved

LEMMA InitSnapshotHolds ==
  ASSUME IInv, NEW p \in scene.procs, InitSnapshot(p), scene' = scene
  PROVE  IInv'
<1> DEFINE c == [copy[p] EXCEPT !.latest = ws]
<1>1. /\ p \in Procs /\ Typed
      /\ Placed(pc[p], job[p], seen[p], copy[p], manifest, scene.workspaces, reports)
      /\ Alone => UpToDate(pc[p], job[p], seen[p], copy[p], manifest)
  BY Before
<1>2. /\ pc[p] = "init"
      /\ pc' = [pc EXCEPT ![p] = "write"] /\ copy' = [copy EXCEPT ![p] = c]
      /\ UNCHANGED <<ws, reports, manifest, job, seen>>
  BY DEF InitSnapshot
<1>3. Good(c, scene.workspaces, reports)
  <2>1. /\ Good(copy[p], scene.workspaces, reports) /\ copy[p].state = "INTENT_BOUND"
        /\ ws \in scene.workspaces
    BY <1>1, <1>2 DEF Placed, Typed
  <2>2. /\ c \in Manifests(scene.workspaces, reports)
        /\ c.history = copy[p].history /\ c.state = copy[p].state
        /\ c.arts = copy[p].arts /\ c.intent = copy[p].intent
    BY <2>1 DEF Good, Manifests
  <2> HIDE DEF c
  <2> QED BY <2>1, <2>2 DEF Good, Path, Earned, WentTo, AtLatest
<1> HIDE DEF c
<1>4. /\ Only(p, pc, pc') /\ Only(p, job, job') /\ Only(p, seen, seen') /\ Only(p, copy, copy')
      /\ pc'[p] = "write" /\ copy'[p] = c
  BY <1>1, <1>2, OnlyOne DEF Typed
<1>5. Placed(pc'[p], job'[p], seen'[p], copy'[p], manifest, scene.workspaces, reports)
  BY <1>1, <1>2, <1>3, <1>4 DEF Placed, Places
<1>6. Alone => UpToDate(pc'[p], job'[p], seen'[p], copy'[p], manifest)
  <2>1. job[p].kind = "none"
    BY <1>1, <1>2 DEF Placed, Nothing
  <2> QED BY <1>1, <1>2, <1>4, <2>1 DEF UpToDate
<1> QED BY <1>2, <1>4, <1>5, <1>6, Moved

\* A report is written under the next number.
LEMMA ProduceHolds ==
  ASSUME IInv, NEW p \in scene.procs, Produce(p), scene' = scene
  PROVE  IInv'
<1>1. /\ p \in Procs /\ Typed /\ ReportsTyped
      /\ Placed(pc[p], job[p], seen[p], copy[p], manifest, scene.workspaces, reports)
      /\ Alone => UpToDate(pc[p], job[p], seen[p], copy[p], manifest)
      /\ manifest # None => Good(manifest, scene.workspaces, reports)
  BY Before
<1>2. PICK r \in Producible, attach \in BOOLEAN :
        /\ pc[p] = "idle" /\ Cardinality(reports) < scene.reports
        /\ reports' = reports \cup {r}
        /\ IF attach
           THEN pc' = [pc EXCEPT ![p] = "attach"] /\ job' = [job EXCEPT ![p] = r]
           ELSE UNCHANGED <<pc, job>>
        /\ UNCHANGED <<ws, manifest, seen, copy>>
  BY DEF Produce
<1>3. r.kind \in Kinds /\ r.snap = ws /\ r.id = Cardinality(reports) + 1
  BY DEF Producible, Packs, Report, Kinds
<1>4. ReportsTyped'
  <2>1. IsFiniteSet(reports) /\ Cardinality(reports) \in Nat /\ scene.reports \in Nat
    BY <1>1, FS_CardinalityType, SceneAssumption DEF ReportsTyped, Typed
  <2>2. r \notin reports
    BY <1>1, <1>3, <2>1 DEF ReportsTyped
  <2>3. IsFiniteSet(reports') /\ Cardinality(reports') = Cardinality(reports) + 1
    BY <1>2, <2>1, <2>2, FS_AddElement
  <2>4. Cardinality(reports') <= scene.reports
    BY <1>2, <2>1, <2>3
  <2>5. \A x \in reports' : /\ x.kind \in Kinds /\ x.snap \in scene.workspaces
                            /\ x.id \in 1..Cardinality(reports')
    BY <1>1, <1>2, <1>3, <2>1, <2>3 DEF ReportsTyped, Typed
  <2>6. \A x, y \in reports' : x.id = y.id => x = y
    BY <1>1, <1>2, <1>3, <2>1 DEF ReportsTyped
  <2> QED BY <2>3, <2>4, <2>5, <2>6 DEF ReportsTyped
<1>5. /\ Only(p, pc, pc') /\ Only(p, job, job') /\ Only(p, seen, seen') /\ Only(p, copy, copy')
      /\ \/ pc'[p] = "attach" /\ job'[p] = r
         \/ pc'[p] = "idle" /\ job'[p] = job[p]
  BY <1>1, <1>2, OnlyOne DEF Typed
<1>6. Placed(pc'[p], job'[p], seen'[p], copy'[p], manifest', scene.workspaces, reports')
  BY <1>1, <1>2, <1>5 DEF Placed, Places
<1>7. UpToDate(pc'[p], job'[p], seen'[p], copy'[p], manifest')
  BY <1>5 DEF UpToDate
<1>8. manifest' # None => Good(manifest', scene.workspaces, reports')
  BY <1>1, <1>2, GoodWithMore
<1> QED BY <1>2, <1>4, <1>5, <1>6, <1>7, <1>8, Framed

LEMMA ReuseHolds ==
  ASSUME IInv, NEW p \in scene.procs, Reuse(p), scene' = scene
  PROVE  IInv'
<1>1. /\ p \in Procs /\ Typed /\ ReportsTyped
      /\ Placed(pc[p], job[p], seen[p], copy[p], manifest, scene.workspaces, reports)
      /\ Alone => UpToDate(pc[p], job[p], seen[p], copy[p], manifest)
      /\ manifest # None => Good(manifest, scene.workspaces, reports)
  BY Before
<1>2. PICK r \in reports :
        /\ pc' = [pc EXCEPT ![p] = "attach"] /\ job' = [job EXCEPT ![p] = r]
        /\ UNCHANGED <<ws, reports, manifest, seen, copy>>
  BY DEF Reuse
<1>3. /\ Only(p, pc, pc') /\ Only(p, job, job') /\ Only(p, seen, seen') /\ Only(p, copy, copy')
      /\ pc'[p] = "attach" /\ job'[p] = r
  BY <1>1, <1>2, OnlyOne DEF Typed
<1>4. Placed(pc'[p], job'[p], seen'[p], copy'[p], manifest, scene.workspaces, reports)
  BY <1>3 DEF Placed, Places
<1>5. UpToDate(pc'[p], job'[p], seen'[p], copy'[p], manifest)
  BY <1>3 DEF UpToDate
<1> QED BY <1>2, <1>3, <1>4, <1>5, Moved

\* attach_artifact.
LEMMA AttachHolds ==
  ASSUME IInv, NEW p \in scene.procs, Attach(p), scene' = scene
  PROVE  IInv'
<1>1. /\ p \in Procs /\ Typed /\ ReportsTyped
      /\ Placed(pc[p], job[p], seen[p], copy[p], manifest, scene.workspaces, reports)
      /\ Alone => UpToDate(pc[p], job[p], seen[p], copy[p], manifest)
      /\ manifest # None => Good(manifest, scene.workspaces, reports)
  BY Before
<1> DEFINE c == Attached(manifest, job[p])
<1>2. /\ pc[p] = "attach" /\ manifest # None /\ Acceptable(manifest, job[p])
      /\ copy' = [copy EXCEPT ![p] = c] /\ pc' = [pc EXCEPT ![p] = "write"]
      /\ UNCHANGED <<ws, reports, manifest, job, seen>>
  BY DEF Attach, Attachable
<1>3. /\ job[p] \in reports /\ job[p].kind \in Kinds /\ job[p].snap \in scene.workspaces
      /\ job[p].id \in Nat \ {0}
  BY <1>1, <1>2, FS_CardinalityType DEF Placed, ReportsTyped
<1>4. Good(c, scene.workspaces, reports) /\ Grows(manifest, c)
  BY <1>1, <1>2, <1>3, AttachedGood
<1> HIDE DEF c
<1>5. /\ Only(p, pc, pc') /\ Only(p, job, job') /\ Only(p, seen, seen') /\ Only(p, copy, copy')
      /\ pc'[p] = "write" /\ copy'[p] = c
  BY <1>1, <1>2, OnlyOne DEF Typed
<1>6. Placed(pc'[p], job'[p], seen'[p], copy'[p], manifest, scene.workspaces, reports)
  BY <1>4, <1>5 DEF Placed, Places
<1>7. UpToDate(pc'[p], job'[p], seen'[p], copy'[p], manifest)
  BY <1>2, <1>3, <1>4, <1>5 DEF UpToDate, Kinds
<1> QED BY <1>2, <1>5, <1>6, <1>7, Moved

\* run_status.
LEMMA StatusLoadHolds ==
  ASSUME IInv, NEW p \in scene.procs, StatusLoad(p), scene' = scene
  PROVE  IInv'
<1>1. /\ p \in Procs /\ Typed /\ ReportsTyped
      /\ Placed(pc[p], job[p], seen[p], copy[p], manifest, scene.workspaces, reports)
      /\ Alone => UpToDate(pc[p], job[p], seen[p], copy[p], manifest)
      /\ manifest # None => Good(manifest, scene.workspaces, reports)
  BY Before
<1>2. PICK op \in {"verify", "close"} :
        /\ pc[p] = "idle" /\ manifest # None
        /\ job' = [job EXCEPT ![p] = [kind |-> op]] /\ seen' = [seen EXCEPT ![p] = manifest]
        /\ pc' = [pc EXCEPT ![p] = "snapshot"]
        /\ UNCHANGED <<ws, reports, manifest, copy>>
  BY DEF StatusLoad
<1>3. /\ Only(p, pc, pc') /\ Only(p, job, job') /\ Only(p, seen, seen') /\ Only(p, copy, copy')
      /\ pc'[p] = "snapshot" /\ seen'[p] = manifest
  BY <1>1, <1>2, OnlyOne DEF Typed
<1>4. Placed(pc'[p], job'[p], seen'[p], copy'[p], manifest, scene.workspaces, reports)
  BY <1>1, <1>2, <1>3 DEF Placed, Places
<1>5. UpToDate(pc'[p], job'[p], seen'[p], copy'[p], manifest)
  BY <1>3 DEF UpToDate
<1> QED BY <1>2, <1>3, <1>4, <1>5, Moved

LEMMA StatusSnapshotHolds ==
  ASSUME IInv, NEW p \in scene.procs, StatusSnapshot(p), scene' = scene
  PROVE  IInv'
<1>1. /\ p \in Procs /\ Typed /\ ReportsTyped
      /\ Placed(pc[p], job[p], seen[p], copy[p], manifest, scene.workspaces, reports)
      /\ Alone => UpToDate(pc[p], job[p], seen[p], copy[p], manifest)
      /\ manifest # None => Good(manifest, scene.workspaces, reports)
  BY Before
<1> DEFINE v == [snap |-> ws, fresh |-> ws = seen[p].latest,
                 state |-> IF ws # seen[p].latest /\ seen[p].state # "CLOSED" THEN "STALE"
                           ELSE seen[p].state]
<1>2. /\ pc[p] = "snapshot" /\ seen' = [seen EXCEPT ![p] = v]
      /\ pc' = [pc EXCEPT ![p] = "verify"]
      /\ UNCHANGED <<ws, reports, manifest, job, copy>>
  BY DEF StatusSnapshot
<1>3. /\ seen[p].state \in States /\ manifest # None
      /\ Alone => seen[p] = manifest
  BY <1>1, <1>2 DEF Placed, UpToDate, Good, Manifests
<1>4. /\ v \in SeenStatuses(scene.workspaces)
      /\ v.state = "STALE" => seen[p].state # "CLOSED"
      /\ v.fresh => v.snap = seen[p].latest
  BY <1>1, <1>3 DEF SeenStatuses, States, Typed
<1> HIDE DEF v
<1>5. /\ Only(p, pc, pc') /\ Only(p, job, job') /\ Only(p, seen, seen') /\ Only(p, copy, copy')
      /\ pc'[p] = "verify" /\ seen'[p] = v
  BY <1>1, <1>2, OnlyOne DEF Typed
<1>6. Placed(pc'[p], job'[p], seen'[p], copy'[p], manifest, scene.workspaces, reports)
  BY <1>3, <1>4, <1>5 DEF Placed, Places
<1>7. Alone => UpToDate(pc'[p], job'[p], seen'[p], copy'[p], manifest)
  BY <1>3, <1>4, <1>5 DEF UpToDate
<1> QED BY <1>2, <1>5, <1>6, <1>7, Moved

\* close_run goes on from verify_run, or the command ends.
LEMMA AfterwardsHolds ==
  ASSUME IInv, NEW p \in scene.procs, Afterwards(p), UNCHANGED <<scene, ws, reports>>,
         seen[p] \in SeenStatuses(scene.workspaces),
         manifest' # None, Good(manifest', scene.workspaces, reports),
         Alone => (seen[p].fresh => seen[p].snap = manifest'.latest)
  PROVE  IInv'
<1>1. p \in Procs /\ Typed /\ ReportsTyped /\ ReportsTyped'
  BY Before DEF ReportsTyped
<1>2. CASE job[p].kind = "close"
  <2>1. pc' = [pc EXCEPT ![p] = "close"] /\ UNCHANGED <<job, seen, copy>>
    BY <1>2 DEF Afterwards
  <2>2. /\ Only(p, pc, pc') /\ Only(p, job, job') /\ Only(p, seen, seen') /\ Only(p, copy, copy')
        /\ pc'[p] = "close" /\ seen'[p] = seen[p]
    BY <1>1, <2>1, OnlyOne DEF Typed
  <2>3. Placed(pc'[p], job'[p], seen'[p], copy'[p], manifest', scene.workspaces, reports')
    BY <2>2 DEF Placed, Places
  <2>4. Alone => UpToDate(pc'[p], job'[p], seen'[p], copy'[p], manifest')
    BY <2>2 DEF UpToDate
  <2> QED BY <1>1, <2>2, <2>3, <2>4, Framed
<1>3. CASE job[p].kind # "close"
  <2>1. Done(p)
    BY <1>3 DEF Afterwards
  <2> QED BY <1>1, <2>1, DoneHolds
<1> QED BY <1>2, <1>3

\* verify_run.
LEMMA VerifyNothingHolds ==
  ASSUME IInv, NEW p \in scene.procs, VerifyNothing(p), scene' = scene
  PROVE  IInv'
<1>1. /\ p \in Procs /\ Typed /\ ReportsTyped
      /\ Placed(pc[p], job[p], seen[p], copy[p], manifest, scene.workspaces, reports)
      /\ Alone => UpToDate(pc[p], job[p], seen[p], copy[p], manifest)
      /\ manifest # None => Good(manifest, scene.workspaces, reports)
  BY Before
<1>2. /\ pc[p] = "verify" /\ Afterwards(p) /\ UNCHANGED <<ws, reports, manifest>>
  BY DEF VerifyNothing
<1>3. /\ seen[p] \in SeenStatuses(scene.workspaces) /\ manifest # None
      /\ Alone => (seen[p].fresh => seen[p].snap = manifest.latest)
  BY <1>1, <1>2 DEF Placed, UpToDate
<1> QED BY <1>1, <1>2, <1>3, AfterwardsHolds

LEMMA VerifyStaleHolds ==
  ASSUME IInv, NEW p \in scene.procs, VerifyStale(p), scene' = scene
  PROVE  IInv'
<1>1. /\ p \in Procs /\ Typed /\ ReportsTyped
      /\ Placed(pc[p], job[p], seen[p], copy[p], manifest, scene.workspaces, reports)
      /\ Alone => UpToDate(pc[p], job[p], seen[p], copy[p], manifest)
      /\ manifest # None => Good(manifest, scene.workspaces, reports)
  BY Before
<1> DEFINE c == Extended([manifest EXCEPT !.latest = seen[p].snap], "repository_changed", "STALE", 0)
<1>2. /\ pc[p] = "verify" /\ seen[p].state = "STALE" /\ manifest.state # "STALE"
      /\ copy' = [copy EXCEPT ![p] = c] /\ pc' = [pc EXCEPT ![p] = "writestale"]
      /\ UNCHANGED <<ws, reports, manifest, job, seen>>
  BY DEF VerifyStale
<1>3. /\ seen[p] \in SeenStatuses(scene.workspaces) /\ seen[p].snap \in scene.workspaces
      /\ manifest # None
      /\ Alone => manifest.state # "CLOSED"
  BY <1>1, <1>2 DEF Placed, UpToDate, SeenStatuses
<1>4. /\ Good(c, scene.workspaces, reports) /\ c.latest = seen[p].snap
      /\ Alone => Grows(manifest, c)
  <2>1. /\ Good(c, scene.workspaces, reports) /\ c.latest = seen[p].snap
        /\ manifest.state # "CLOSED" => Grows(manifest, c)
    <3>1. Good(manifest, scene.workspaces, reports) /\ manifest.state # "STALE"
      BY <1>1, <1>2, <1>3
    <3> QED BY <1>3, <3>1, StaleGood
  <2> QED BY <1>3, <2>1
<1> HIDE DEF c
<1>5. /\ Only(p, pc, pc') /\ Only(p, job, job') /\ Only(p, seen, seen') /\ Only(p, copy, copy')
      /\ pc'[p] = "writestale" /\ copy'[p] = c /\ seen'[p] = seen[p]
  BY <1>1, <1>2, OnlyOne DEF Typed
<1>6. Placed(pc'[p], job'[p], seen'[p], copy'[p], manifest, scene.workspaces, reports)
  BY <1>3, <1>4, <1>5 DEF Placed, Places
<1>7. Alone => UpToDate(pc'[p], job'[p], seen'[p], copy'[p], manifest)
  BY <1>4, <1>5 DEF UpToDate
<1> QED BY <1>2, <1>5, <1>6, <1>7, Moved

\* close_run.
LEMMA CloseHolds ==
  ASSUME IInv, NEW p \in scene.procs, Close(p), scene' = scene
  PROVE  IInv'
<1>1. /\ p \in Procs /\ Typed /\ ReportsTyped
      /\ Placed(pc[p], job[p], seen[p], copy[p], manifest, scene.workspaces, reports)
      /\ Alone => UpToDate(pc[p], job[p], seen[p], copy[p], manifest)
      /\ manifest # None => Good(manifest, scene.workspaces, reports)
  BY Before
<1> DEFINE c == Extended(manifest, "close", "CLOSED", 0)
<1>2. /\ pc[p] = "close" /\ manifest.state = "PACKED" /\ seen[p].fresh
      /\ copy' = [copy EXCEPT ![p] = c] /\ pc' = [pc EXCEPT ![p] = "write"]
      /\ UNCHANGED <<ws, reports, manifest, job, seen>>
  BY DEF Close, Closable
<1>3. /\ manifest # None
      /\ Alone => seen[p].snap = manifest.latest
  BY <1>1, <1>2 DEF Placed, UpToDate
<1>4. Good(c, scene.workspaces, reports) /\ Grows(manifest, c) /\ c.state = "CLOSED"
  BY <1>1, <1>2, <1>3, CloseGood
<1> HIDE DEF c
<1>5. /\ Only(p, pc, pc') /\ Only(p, job, job') /\ Only(p, seen, seen') /\ Only(p, copy, copy')
      /\ pc'[p] = "write" /\ copy'[p] = c /\ seen'[p] = seen[p]
  BY <1>1, <1>2, OnlyOne DEF Typed
<1>6. Placed(pc'[p], job'[p], seen'[p], copy'[p], manifest, scene.workspaces, reports)
  BY <1>3, <1>4, <1>5 DEF Placed, Places
<1>7. Alone => UpToDate(pc'[p], job'[p], seen'[p], copy'[p], manifest)
  BY <1>2, <1>3, <1>4, <1>5 DEF UpToDate
<1> QED BY <1>2, <1>5, <1>6, <1>7, Moved

\* _write_json.
LEMMA WriteHolds ==
  ASSUME IInv, NEW p \in scene.procs, Write(p), scene' = scene
  PROVE  IInv'
<1>1. /\ p \in Procs /\ Typed /\ ReportsTyped
      /\ Placed(pc[p], job[p], seen[p], copy[p], manifest, scene.workspaces, reports)
      /\ Alone => UpToDate(pc[p], job[p], seen[p], copy[p], manifest)
      /\ manifest # None => Good(manifest, scene.workspaces, reports)
  BY Before
<1>2. pc[p] = "write" /\ manifest' = copy[p] /\ Done(p) /\ UNCHANGED <<ws, reports>>
  BY DEF Write
<1>3. Good(manifest', scene.workspaces, reports) /\ manifest' # None
  BY <1>1, <1>2, NotNone DEF Placed, Good
<1>4. ReportsTyped'
  BY <1>1, <1>2 DEF ReportsTyped
<1> QED BY <1>2, <1>3, <1>4, DoneHolds

LEMMA WriteStaleHolds ==
  ASSUME IInv, NEW p \in scene.procs, WriteStale(p), scene' = scene
  PROVE  IInv'
<1>1. /\ p \in Procs /\ Typed /\ ReportsTyped
      /\ Placed(pc[p], job[p], seen[p], copy[p], manifest, scene.workspaces, reports)
      /\ Alone => UpToDate(pc[p], job[p], seen[p], copy[p], manifest)
      /\ manifest # None => Good(manifest, scene.workspaces, reports)
  BY Before
<1>2. pc[p] = "writestale" /\ manifest' = copy[p] /\ Afterwards(p) /\ UNCHANGED <<ws, reports>>
  BY DEF WriteStale
<1>3. Good(manifest', scene.workspaces, reports) /\ manifest' # None
  BY <1>1, <1>2, NotNone DEF Placed, Good
<1>4. /\ seen[p] \in SeenStatuses(scene.workspaces)
      /\ Alone => seen[p].snap = manifest'.latest
  BY <1>1, <1>2 DEF Placed, UpToDate
<1> QED BY <1>2, <1>3, <1>4, AfterwardsHolds

\* The workspace is edited.
LEMMA EditHolds ==
  ASSUME IInv, Edit, scene' = scene
  PROVE  IInv'
<1>1. ReportsTyped'
  BY DEF IInv, ReportsTyped, Edit
<1> QED BY <1>1, Primed DEF IInv, Typed, ManifestGood, Exists, Edit

LEMMA InitHolds == Init => IInv
<1> SUFFICES ASSUME Init PROVE IInv
  OBVIOUS
<1>1. scene.reports \in Nat /\ scene.procs \subseteq Procs
  BY SceneAssumption DEF Init
<1>2. ReportsTyped
  BY <1>1, FS_EmptySet DEF Init, ReportsTyped
<1> QED BY <1>1, <1>2 DEF Init, IInv, Typed, ManifestGood, Exists, Placed, Places, UpToDate

\* Every step keeps the invariant.
LEMMA StepHolds == IInv /\ [Next /\ UNCHANGED scene]_vars => IInv'
<1> SUFFICES ASSUME IInv, [Next /\ UNCHANGED scene]_vars PROVE IInv'
  OBVIOUS
<1>1. CASE UNCHANGED vars
  <2>1. ReportsTyped'
    BY <1>1 DEF vars, IInv, ReportsTyped
  <2> QED BY <1>1, <2>1, Primed DEF vars, IInv, Typed, ManifestGood, Exists
<1>2. CASE Edit /\ UNCHANGED scene
  BY <1>2, EditHolds
<1>3. ASSUME NEW p \in scene.procs, AttachNothing(p) \/ CloseRefused(p), scene' = scene
      PROVE  IInv'
  BY <1>3, DoneStill DEF AttachNothing, CloseRefused
<1>4. ASSUME NEW p \in scene.procs, scene' = scene,
             \/ InitIntent(p) \/ InitSnapshot(p) \/ Produce(p) \/ Reuse(p) \/ Attach(p)
             \/ StatusLoad(p) \/ StatusSnapshot(p) \/ VerifyNothing(p) \/ VerifyStale(p)
             \/ Close(p) \/ Write(p) \/ WriteStale(p)
      PROVE  IInv'
  BY <1>4, InitIntentHolds, InitSnapshotHolds, ProduceHolds, ReuseHolds, AttachHolds,
     StatusLoadHolds, StatusSnapshotHolds, VerifyNothingHolds, VerifyStaleHolds, CloseHolds,
     WriteHolds, WriteStaleHolds
<1> QED BY <1>1, <1>2, <1>3, <1>4 DEF Next

(***************************************************************************)
(* The results.                                                            *)
(***************************************************************************)

\* In every state the manifest and what every command holds are as the invariant says.
THEOREM Invariance == Spec => []IInv
<1> QED BY InitHolds, StepHolds, PTL DEF Spec

\* Whatever commands run at the same time, and whichever of their writes is lost: the
\* manifest on disk is one path along the lifecycle, and holds a passing review and a
\* passing trace of its own contract, and a passing pack, for the states it went through.
THEOREM HistoryIsAlwaysEarned == Spec => []HistoryIsEarned
<1>1. IInv => HistoryIsEarned
  <2> SUFFICES ASSUME IInv PROVE HistoryIsEarned
    OBVIOUS
  <2>1. Exists => Good(manifest, scene.workspaces, reports)
    BY DEF IInv, ManifestGood
  <2>2. TypeOK
    BY <2>1 DEF IInv, Typed, ReportsTyped, TypeOK, Good, Manifests
  <2>3. HistoryIsAPath
    <3>1. Exists => manifest.history \in Seq(Events)
      BY <2>1 DEF Good, Manifests
    <3> QED BY <2>1, <2>2, <3>1 DEF HistoryIsAPath, Good, Path, Legal
  <2>4. StatesAreEarned
    <3>1. Exists => DOMAIN manifest.history = 1..Len(manifest.history)
      BY <2>1 DEF Good, Manifests
    <3>2. Exists => \A s : Reached(s) <=> WentTo(manifest, s)
      BY <3>1 DEF Reached, WentTo
    <3> QED BY <2>1, <3>2 DEF StatesAreEarned, Holds, Good, Earned
  <2> QED BY <2>3, <2>4 DEF HistoryIsEarned
<1> QED BY <1>1, Invariance, PTL

\* Only the two writes change the manifest on disk.
LEMMA OnlyWrites ==
  ASSUME Next, manifest' # manifest
  PROVE  \E p \in scene.procs : manifest' = copy[p] /\ pc[p] \in {"write", "writestale"}
<1>1. ~Edit
  BY DEF Edit
<1>2. PICK p \in scene.procs : Write(p) \/ WriteStale(p)
  BY <1>1 DEF Next, InitIntent, InitSnapshot, Produce, Reuse, AttachNothing, Attach, StatusLoad,
              StatusSnapshot, VerifyNothing, VerifyStale, CloseRefused, Close
<1> QED BY <1>2 DEF Write, WriteStale

\* The report attached last is the one LastAttached chooses.
LEMMA TheLastAttached ==
  ASSUME ReportsTyped, Good(manifest, scene.workspaces, reports),
         NEW r \in manifest.arts, LastOf(manifest, r)
  PROVE  LastAttached = r
<1> DEFINE h == manifest.history
           attached == {i \in DOMAIN h : h[i].art # 0}
           last == CHOOSE i \in attached : \A j \in attached : j <= i
<1>1. /\ h \in Seq(Events) /\ DOMAIN h = 1..Len(h) /\ Len(h) \in Nat
      /\ manifest.arts \subseteq reports
  BY DEF Good, Manifests
<1>2. PICK i \in 1..Len(h) : /\ h[i].art = r.id /\ r.id # 0
                             /\ \A j \in 1..Len(h) : h[j].art # 0 => j <= i
  BY DEF LastOf
<1>3. i \in attached /\ \A j \in attached : j <= i
  BY <1>1, <1>2
<1>4. last \in attached /\ \A j \in attached : j <= last
  BY <1>3
<1>5. last = i
  <2>1. last \in 1..Len(h)
    BY <1>1, <1>4
  <2> HIDE DEF last, attached
  <2> QED BY <1>1, <1>3, <1>4, <2>1
<1>6. \A x \in manifest.arts : x.id = h[last].art <=> x = r
  <2>1. h[last].art = r.id
    BY <1>2, <1>5
  <2> HIDE DEF last
  <2> QED BY <1>1, <2>1 DEF ReportsTyped
<1>7. LastAttached = CHOOSE x \in manifest.arts : x.id = h[last].art
  BY DEF LastAttached
<1> HIDE DEF last
<1> QED BY <1>6, <1>7

\* "append-only lifecycle manifests" (run.py): as long as commands do not overlap, no
\* event and no report is ever lost, a run that is over stays as it is, and it is closed
\* only while it is packed, on the workspace that its status has just seen, which is that
\* of the report attached last.
THEOREM RunsAlwaysAdvance == Spec => RunsOnlyAdvance
<1>1. ASSUME IInv, Next, Alone PROVE KeepsAll
  <2> SUFFICES ASSUME Exists PROVE Grows(manifest, manifest')
    BY DEF Grows, KeepsAll
  <2>1. manifest.history \in Seq(Events)
    BY <1>1 DEF IInv, ManifestGood, Good, Manifests, Exists
  <2>2. CASE manifest' = manifest
    <3>1. SubSeq(manifest.history, 1, Len(manifest.history)) = manifest.history
      BY <2>1
    <3> QED BY <2>1, <2>2, <3>1 DEF Grows
  <2>3. CASE manifest' # manifest
    <3>1. PICK p \in scene.procs : manifest' = copy[p] /\ pc[p] \in {"write", "writestale"}
      BY <1>1, <2>3, OnlyWrites
    <3>2. UpToDate(pc[p], job[p], seen[p], copy[p], manifest)
      BY <1>1, Before
    <3> QED BY <3>1, <3>2 DEF UpToDate, Exists
  <2> QED BY <2>2, <2>3
<1>2. ASSUME IInv, Next, Alone PROVE ClosesOnLatest
  <2> SUFFICES ASSUME NEW p \in scene.procs,
                      pc[p] = "write", pc'[p] = "idle", job[p].kind = "close"
               PROVE  /\ Exists /\ manifest.state = "PACKED" /\ manifest'.state = "CLOSED"
                      /\ LastAttached.snap = seen[p].snap /\ manifest.latest = seen[p].snap
    BY DEF ClosesOnLatest
  <2>1. /\ Exists /\ manifest.state = "PACKED" /\ copy[p].state = "CLOSED"
        /\ manifest.latest = seen[p].snap
    BY <1>2, Before DEF UpToDate, Exists
  <2>2. manifest' = copy[p]
    <3>1. ~Edit
      BY <1>2 DEF Edit
    <3>2. \A q \in scene.procs : q = p
      BY <1>2 DEF Alone
    <3> QED BY <1>2, <3>1, <3>2 DEF Next, InitIntent, InitSnapshot, Produce, Reuse, AttachNothing, Attach,
               StatusLoad, StatusSnapshot, VerifyNothing, VerifyStale, CloseRefused, Close, Write,
               WriteStale
  <2>3. ReportsTyped /\ Good(manifest, scene.workspaces, reports)
    BY <1>2, <2>1 DEF IInv, ManifestGood
  <2>4. PICK r \in manifest.arts : LastOf(manifest, r) /\ r.snap = manifest.latest
    BY <2>1, <2>3 DEF Good, AtLatest
  <2>5. LastAttached = r
    BY <2>3, <2>4, TheLastAttached
  <2> QED BY <2>1, <2>2, <2>4, <2>5
<1>3. IInv /\ [Next /\ UNCHANGED scene]_vars => [Alone => KeepsAll /\ ClosesOnLatest]_vars
  BY <1>1, <1>2
<1> QED BY <1>3, Invariance, PTL DEF Spec, RunsOnlyAdvance

---------------------------------------------------------------------------
(* Investigations.                                                          *)

Stages == {"observe", "propose", "reading", "verify", "built", "write", "done", "refused"}
Proposing == {"assistant", "call", "result"}

InvestigationTyped ==
    /\ req \in Requests /\ stage \in Stages /\ output \in {"absent", "own", "other"}
    /\ exhausted \in BOOLEAN /\ calls \in Nat
    /\ looked \in Nat /\ looked <= Len(req.proofs) /\ calls <= 2 * looked

\* What is there when: nothing was left out without a budget having ended.
StageHolds ==
    /\ stage \notin {"observe", "refused"} =>
         /\ PolicyAccepted /\ Exportable /\ Bound
         /\ ~req.filter => obs = Exported(Extracted)
         /\ ~exhausted => Len(req.records) <= req.maxRecords
    /\ stage \in {"observe", "propose"} => cands = {}
    /\ stage \in {"observe", "propose", "reading"} =>
         looked = 0 /\ calls = 0 /\ evidence = {} /\ ledger = {}
    /\ stage \in {"reading", "verify", "built", "write", "done"} =>
         exhausted \/ \A o \in obs : o.type \in Proposing => \E c \in cands : c.obs = o
    /\ stage \in {"verify", "built", "write", "done"} =>
         \A i \in Read : \E e \in ledger : e.action = "read_run_record" /\ e.inputs = {i}
    /\ Built => exhausted \/ looked = Len(req.proofs)

\* Candidates are made of Observations, and Observations of records that were read.
CandidatesHold ==
    /\ obs \subseteq Extracted
    /\ \A c \in cands :
         /\ c = [type |-> CandidateType(c.obs), obs |-> c.obs, status |-> c.status]
         /\ c.obs \in obs /\ c.obs.type \in Proposing /\ c.status \in {"unverified", "verified"}

\* Evidence is the verdict of a receipt on a recorded call; it is all the inspected
\* receipts have to say unless a budget has ended.
MatchedBy(k) == {About(c) : c \in Matching(req.proofs[k])}
\* Receipts of one content are inspected once.
LookedApart == \A j, k \in 1..looked : req.proofs[j].id = req.proofs[k].id => j = k
EvidenceHolds ==
    /\ LookedApart
    /\ \A e \in evidence :
         /\ e.source \in 1..looked
         /\ e.cands = MatchedBy(e.source) /\ e.cands # {}
         /\ e.supports = (Current(req.proofs[e.source]) /\ req.proofs[e.source].verdict = "pass")
         /\ e.contradicts = (Current(req.proofs[e.source]) /\ req.proofs[e.source].verdict = "fail")
    /\ \A k \in 1..looked :
         (MatchedBy(k) # {} /\ req.proofs[k].verdict # "other") =>
             exhausted \/ \E e \in evidence : e.source = k
    /\ \A c \in cands : c.status = "verified" => \E e \in evidence : About(c) \in e.cands
    /\ IsFiniteSet(evidence) /\ Cardinality(evidence) <= req.maxEvidence
    /\ calls <= req.maxTools

\* Each entry is one of the five kinds, and each receipt has its own.
EntryHolds(e) ==
    /\ e.obs \subseteq obs /\ e.cands \subseteq {About(c) : c \in cands}
    /\ \/ e.action = "read_run_record" /\ e.question = ExportedQuestion /\ \E i \in Read : e.inputs = {i}
       \/ /\ e.action = "record_observation" /\ e.question = ExportedQuestion
          /\ \E o : e.obs = {o} /\ e.inputs = o.sources
       \/ e.action = "propose_candidate" /\ e.question = ExportedQuestion /\ e.inputs = e.cands
       \/ /\ e.action = "inspect_proof" /\ e.question = req.question
          /\ "proof.inspect" \in req.tools /\ \E k \in 1..looked : e.inputs = {k}
       \/ /\ e.action = "check_freshness" /\ e.question = req.question /\ e.cands # {}
          /\ FreshAllowed /\ \E k \in 1..looked : e.inputs = {k}
Noted == {e \in ledger : e.action \in {"inspect_proof", "check_freshness"}}
LedgerHolds ==
    /\ \A e \in ledger : EntryHolds(e)
    /\ \A k \in 1..looked : \E e \in ledger : e.action = "inspect_proof" /\ e.inputs = {k}
    /\ IsFiniteSet(Noted) /\ Cardinality(Noted) = calls

InvestigationInv ==
    InvestigationTyped /\ StageHolds /\ CandidatesHold /\ EvidenceHolds /\ LedgerHolds

\* The bounds and positions a request has.
LEMMA RequestTypes ==
  ASSUME req \in Requests
  PROVE  /\ Len(req.records) \in Nat /\ DOMAIN req.records = 1..Len(req.records)
         /\ Len(req.proofs) \in Nat /\ DOMAIN req.proofs = 1..Len(req.proofs)
         /\ req.maxRecords \in Nat /\ req.maxEvidence \in Nat /\ req.maxTools \in Nat
         /\ Read \subseteq 1..Len(req.records)
         /\ Len(req.records) <= req.maxRecords => Read = DOMAIN req.records
         /\ \A i \in Read : i \in Nat /\ req.records[i].kind \in RecordKinds
                            /\ req.records[i].fails \in BOOLEAN
<1>1. /\ req.records \in Seq(Range(req.records)) /\ req.proofs \in Seq(Range(req.proofs))
      /\ {req.maxRecords, req.maxCandidates, req.maxEvidence, req.maxTools} \subseteq Nat
      /\ \A i \in DOMAIN req.records : req.records[i].kind \in RecordKinds /\ req.records[i].fails \in BOOLEAN
  BY RequestsAssumption
<1>2. /\ Len(req.records) \in Nat /\ DOMAIN req.records = 1..Len(req.records)
      /\ Len(req.proofs) \in Nat /\ DOMAIN req.proofs = 1..Len(req.proofs)
  BY <1>1
<1>3. Read \subseteq 1..Len(req.records) /\ (Len(req.records) <= req.maxRecords => Read = 1..Len(req.records))
  BY <1>1, <1>2 DEF Read, Least
<1> QED BY <1>1, <1>2, <1>3

LEMMA ReceiptTypes ==
  ASSUME req \in Requests, NEW k \in DOMAIN req.proofs
  PROVE  /\ req.proofs[k].command # "" /\ req.proofs[k].fresh \in BOOLEAN
         /\ req.proofs[k].verdict \in {"pass", "fail", "other"}
BY RequestsAssumption

\* The request is fixed.
LEMMA SameRequest ==
  ASSUME req' = req
  PROVE  /\ Read' = Read /\ Extracted' = Extracted /\ PolicyAccepted' = PolicyAccepted
         /\ Exportable' = Exportable /\ Bound' = Bound
         /\ ExportedQuestion' = ExportedQuestion /\ FreshAllowed' = FreshAllowed
         /\ \A p : Current(p)' = Current(p)
         /\ \A S : Exported(S)' = Exported(S)
<1>1. Read' = Read
  BY DEF Read
<1>2. \A i : Observation(i)' = Observation(i)
  BY DEF Observation
<1>3. Extracted' = Extracted
  BY <1>1, <1>2 DEF Extracted
<1>4. PolicyAccepted' = PolicyAccepted
  BY DEF PolicyAccepted
<1>5. \A n : RecordsOf(n)' = RecordsOf(n)
  BY DEF RecordsOf
<1>6. Exportable' = Exportable /\ Bound' = Bound
  BY <1>5 DEF Exportable, Bound, Groups
<1>7. ExportedQuestion' = ExportedQuestion /\ FreshAllowed' = FreshAllowed
  BY DEF ExportedQuestion, FreshAllowed
<1>8. \A p : Current(p)' = Current(p)
  BY <1>7 DEF Current
<1>9. \A S : Exported(S)' = Exported(S)
  BY DEF Exported
<1> QED BY <1>1, <1>3, <1>4, <1>6, <1>7, <1>8, <1>9

\* What matches a receipt is a matter of what the candidates are about.
LEMMA SameMatches ==
  ASSUME req' = req, CandidatesHold, CandidatesHold',
         {About(c) : c \in cands'} = {About(c) : c \in cands}
  PROVE  \A k : MatchedBy(k)' = MatchedBy(k)
<1> SUFFICES ASSUME NEW k PROVE MatchedBy(k)' = MatchedBy(k)
  OBVIOUS
<1>1. Read' = Read
  BY SameRequest
<1> DEFINE Right(o) == /\ CandidateType(o) = "command_observation"
                       /\ \E i \in o.sources \cap Read :
                            req.records[i].kind = "call" /\ req.records[i].command = req.proofs[k].command
<1>2. MatchedBy(k) = {o \in {About(c) : c \in cands} : Right(o)}
  <2>1. \A c \in cands : c.type = CandidateType(c.obs)
    BY DEF CandidatesHold
  <2> QED BY <2>1 DEF MatchedBy, Matching, About
<1>3. MatchedBy(k)' = {o \in {About(c) : c \in cands'} : Right(o)}
  <2>1. \A c \in cands' : c.type = CandidateType(c.obs)
    BY DEF CandidatesHold
  <2> QED BY <1>1, <2>1 DEF MatchedBy, Matching, About
<1> QED BY <1>2, <1>3

LEMMA InvestigationStarts == InvestigateInit => InvestigationInv
<1> SUFFICES ASSUME InvestigateInit PROVE InvestigationInv
  OBVIOUS
<1>1. InvestigationTyped
  <2>1. req \in Requests
    BY DEF InvestigateInit
  <2>2. Len(req.proofs) \in Nat
    BY <2>1, RequestTypes
  <2>3. exhausted \in BOOLEAN
    BY ZenonT(30) DEF InvestigateInit
  <2>4. /\ looked \in Nat /\ calls \in Nat /\ looked <= Len(req.proofs) /\ calls <= 2 * looked
        /\ stage \in Stages /\ output \in {"absent", "own", "other"}
    BY <2>2 DEF InvestigateInit, Stages
  <2> QED BY <2>1, <2>3, <2>4 DEF InvestigationTyped
<1>2. StageHolds
  BY DEF InvestigateInit, StageHolds, Built
<1>3. CandidatesHold
  BY DEF InvestigateInit, CandidatesHold
<1>4. EvidenceHolds
  <2>1. IsFiniteSet(evidence) /\ Cardinality(evidence) = 0
    BY FS_EmptySet DEF InvestigateInit
  <2>2. LookedApart
    BY DEF InvestigateInit, LookedApart
  <2> QED BY <2>1, <2>2, RequestTypes DEF InvestigateInit, EvidenceHolds
<1>5. LedgerHolds
  <2>1. Noted = {}
    BY DEF InvestigateInit, Noted
  <2> QED BY <2>1, FS_EmptySet DEF InvestigateInit, LedgerHolds
<1> QED BY <1>1, <1>2, <1>3, <1>4, <1>5 DEF InvestigationInv

\* What is held of candidates, evidence and ledger does not depend on the stage.
LEMMA PartsAreKept ==
  ASSUME InvestigationInv, exhausted => exhausted',
         UNCHANGED <<req, obs, cands, evidence, ledger, looked, calls>>
  PROVE  CandidatesHold' /\ EvidenceHolds' /\ LedgerHolds'
<1>1. req' = req
  OBVIOUS
<1>2. Read' = Read /\ Extracted' = Extracted /\ ExportedQuestion' = ExportedQuestion
      /\ FreshAllowed' = FreshAllowed /\ \A p : Current(p)' = Current(p)
  BY <1>1, SameRequest
<1>3. CandidatesHold'
  BY <1>2 DEF InvestigationInv, CandidatesHold
<1>4. \A k : MatchedBy(k)' = MatchedBy(k)
  BY <1>1, <1>2 DEF MatchedBy, Matching
<1>5. EvidenceHolds'
  BY <1>2, <1>4 DEF InvestigationInv, EvidenceHolds, LookedApart
<1>6. LedgerHolds'
  <2>1. \A e : EntryHolds(e)' = EntryHolds(e)
    BY <1>2 DEF EntryHolds
  <2>2. Noted' = Noted
    BY DEF Noted
  <2> QED BY <2>1, <2>2 DEF InvestigationInv, LedgerHolds
<1> QED BY <1>3, <1>5, <1>6

\* A step that only changes the stage or the output.
LEMMA StageMoves ==
  ASSUME InvestigationInv, Refuse \/ RefuseReceipts \/ RefuseReceipt \/ StopInspecting \/ AllInspected
                           \/ CheckOutput \/ WriteResult \/ OtherWrites \/ UNCHANGED investigated
  PROVE  InvestigationInv'
<1>1. /\ UNCHANGED <<req, obs, cands, evidence, ledger, looked, calls>>
      /\ exhausted => exhausted'
  BY DEF Refuse, RefuseReceipts, RefuseReceipt, StopInspecting, AllInspected, CheckOutput,
         WriteResult, OtherWrites, investigated
<1>2. CandidatesHold' /\ EvidenceHolds' /\ LedgerHolds'
  BY <1>1, PartsAreKept
<1>3. InvestigationTyped'
  BY DEF InvestigationInv, InvestigationTyped, Stages, Refuse, RefuseReceipts, RefuseReceipt,
         StopInspecting, AllInspected, CheckOutput, WriteResult, OtherWrites, investigated
<1>4. Read' = Read /\ Extracted' = Extracted /\ PolicyAccepted' = PolicyAccepted
      /\ Exportable' = Exportable /\ Bound' = Bound
      /\ \A S : Exported(S)' = Exported(S)
  BY <1>1, SameRequest
<1>5. StageHolds'
  <2> USE <1>1, <1>4 DEF InvestigationInv, StageHolds, Built
  <2>1. CASE Refuse
    BY <2>1 DEF Refuse
  <2>2. CASE RefuseReceipts
    BY <2>2 DEF RefuseReceipts
  <2>3. CASE StopInspecting
    BY <2>3 DEF StopInspecting, Pending
  <2>4. CASE AllInspected
    BY <2>4 DEF AllInspected
  <2>5. CASE CheckOutput
    BY <2>5 DEF CheckOutput
  <2>6. CASE WriteResult
    BY <2>6 DEF WriteResult
  <2>7. CASE OtherWrites \/ UNCHANGED investigated
    BY <2>7 DEF OtherWrites, investigated
  <2>8. CASE RefuseReceipt
    BY <2>8 DEF RefuseReceipt
  <2> QED BY <2>1, <2>2, <2>3, <2>4, <2>5, <2>6, <2>7, <2>8
<1> QED BY <1>2, <1>3, <1>5 DEF InvestigationInv

\* Observing keeps what was extracted, and everything when nothing is filtered.
LEMMA ObserveKeeps == ASSUME InvestigationInv, Observe PROVE InvestigationInv'
<1>1. /\ req' = req /\ stage = "observe" /\ stage' = "propose" /\ PolicyAccepted /\ Exportable /\ Bound
      /\ cands' = {} /\ evidence' = {} /\ ledger' = {} /\ looked' = 0 /\ calls' = 0 /\ output' = output
      /\ exhausted' = (Len(req.records) > req.maxRecords) /\ req \in Requests
  BY DEF Observe, InvestigationInv, InvestigationTyped, StageHolds
<1>2. PICK kept \in Relevant : obs' = Exported(kept)
  BY DEF Observe
<1>3. Read' = Read /\ Extracted' = Extracted /\ PolicyAccepted' = PolicyAccepted
      /\ Exportable' = Exportable /\ Bound' = Bound
      /\ \A S : Exported(S)' = Exported(S)
  BY <1>1, SameRequest
<1>4. kept \subseteq Extracted /\ (~req.filter => kept = Extracted)
  BY <1>2 DEF Relevant, WithLinked
<1>5. Len(req.records) \in Nat /\ req.maxRecords \in Nat /\ Len(req.proofs) \in Nat
  BY <1>1, RequestTypes
<1>6. InvestigationTyped'
  BY <1>1, <1>5 DEF InvestigationInv, InvestigationTyped, Stages
<1>7. StageHolds'
  <2>1. ~req'.filter => obs' = Exported(Extracted)'
    <3>1. Exported(Extracted)' = Exported(Extracted)
      BY <1>1, <1>3 DEF Exported
    <3> QED BY <1>1, <1>2, <1>4, <3>1
  <2>2. ~exhausted' => Len(req'.records) <= req'.maxRecords
    <3>1. ~(Len(req.records) > req.maxRecords) => Len(req.records) <= req.maxRecords
      BY <1>5
    <3>2. ~exhausted' => ~(Len(req.records) > req.maxRecords)
      BY <1>1, ZenonT(30)
    <3> QED BY <1>1, <3>1, <3>2
  <2> QED BY <1>1, <1>3, <2>1, <2>2 DEF StageHolds, Built
<1>8. CandidatesHold'
  <2>1. Exported(kept) \subseteq kept
    BY DEF Exported
  <2>2. obs' \subseteq Extracted
    BY <1>2, <1>4, <2>1
  <2>3. obs' \subseteq Extracted'
    BY <1>3, <2>2
  <2> QED BY <1>1, <2>3 DEF CandidatesHold
<1>9. EvidenceHolds'
  <2>1. IsFiniteSet(evidence') /\ Cardinality(evidence') = 0
    BY <1>1, FS_EmptySet
  <2>2. req.maxEvidence \in Nat /\ req.maxTools \in Nat
    BY <1>1, RequestTypes
  <2> QED BY <1>1, <2>1, <2>2 DEF EvidenceHolds, LookedApart
<1>10. LedgerHolds'
  <2>1. Noted' = {}
    BY <1>1 DEF Noted
  <2> QED BY <1>1, <2>1, FS_EmptySet DEF LedgerHolds
<1> QED BY <1>6, <1>7, <1>8, <1>9, <1>10 DEF InvestigationInv

\* Each statement, call and result among the Observations gives an unverified candidate.
LEMMA ProposeKeeps == ASSUME InvestigationInv, Propose PROVE InvestigationInv'
<1>1. /\ req' = req /\ obs' = obs /\ stage = "propose" /\ stage' = "reading"
      /\ evidence' = {} /\ ledger' = {} /\ looked' = 0 /\ calls' = 0 /\ output' = output
      /\ req \in Requests /\ (exhausted => exhausted') /\ exhausted' \in BOOLEAN
      /\ (cands' = {} /\ exhausted') \/ (cands' = Proposed(obs) /\ exhausted' = exhausted)
  BY DEF Propose, InvestigationInv, InvestigationTyped, StageHolds
<1>2. Read' = Read /\ Extracted' = Extracted /\ PolicyAccepted' = PolicyAccepted
      /\ Exportable' = Exportable /\ Bound' = Bound
      /\ \A S : Exported(S)' = Exported(S)
  BY <1>1, SameRequest
<1>3. \A c \in Proposed(obs) :
        /\ c = [type |-> CandidateType(c.obs), obs |-> c.obs, status |-> c.status]
        /\ c.obs \in obs /\ c.obs.type \in Proposing /\ c.status = "unverified"
  BY DEF Proposed, Candidate, Proposing
<1>4. \A o \in obs : o.type \in Proposing => \E c \in Proposed(obs) : c.obs = o
  <2> SUFFICES ASSUME NEW o \in obs, o.type \in Proposing PROVE \E c \in Proposed(obs) : c.obs = o
    OBVIOUS
  <2>1. Candidate(o) \in Proposed(obs)
    BY DEF Proposed, Proposing
  <2> QED BY <2>1 DEF Candidate
<1>5. Len(req.proofs) \in Nat /\ req.maxEvidence \in Nat /\ req.maxTools \in Nat
  BY <1>1, RequestTypes
<1>6. InvestigationTyped'
  BY <1>1, <1>5 DEF InvestigationTyped, Stages, InvestigationInv
<1>7. StageHolds'
  BY <1>1, <1>2, <1>4 DEF StageHolds, Built, InvestigationInv
<1>8. CandidatesHold'
  BY <1>1, <1>2, <1>3 DEF CandidatesHold, InvestigationInv
<1>9. EvidenceHolds'
  <2>1. IsFiniteSet(evidence') /\ Cardinality(evidence') = 0
    BY <1>1, FS_EmptySet
  <2>2. \A c \in cands' : c.status # "verified"
    BY <1>1, <1>3
  <2> QED BY <1>1, <1>5, <2>1, <2>2 DEF EvidenceHolds, LookedApart
<1>10. LedgerHolds'
  <2>1. Noted' = {}
    BY <1>1 DEF Noted
  <2> QED BY <1>1, <2>1, FS_EmptySet DEF LedgerHolds
<1> QED BY <1>6, <1>7, <1>8, <1>9, <1>10 DEF InvestigationInv

\* The ledger of the reading has an entry of its own for every record.
LEMMA RecordReadingKeeps == ASSUME InvestigationInv, RecordReading PROVE InvestigationInv'
<1>1. /\ UNCHANGED <<req, obs, cands, evidence, looked, calls, exhausted, output>>
      /\ stage = "reading" /\ stage' = "verify" /\ ledger' = LedgerOfReading
      /\ evidence = {} /\ looked = 0 /\ calls = 0 /\ req \in Requests
  BY DEF RecordReading, InvestigationInv, InvestigationTyped, StageHolds
<1>2. req' = req
  BY <1>1
<1>3. Read' = Read /\ Extracted' = Extracted /\ PolicyAccepted' = PolicyAccepted
      /\ Exportable' = Exportable /\ Bound' = Bound
      /\ ExportedQuestion' = ExportedQuestion /\ FreshAllowed' = FreshAllowed
      /\ \A p : Current(p)' = Current(p)
      /\ \A S : Exported(S)' = Exported(S)
  BY <1>2, SameRequest
<1>4. InvestigationTyped'
  BY <1>1 DEF InvestigationInv, InvestigationTyped, Stages
<1>5. StageHolds'
  <2>1. \A i \in Read : \E e \in ledger' : e.action = "read_run_record" /\ e.inputs = {i}
    <3> SUFFICES ASSUME NEW i \in Read
                 PROVE  \E e \in ledger' : e.action = "read_run_record" /\ e.inputs = {i}
      OBVIOUS
    <3> DEFINE n == Entry("read_run_record", ExportedQuestion, {i},
                          {o \in obs : i \in o.sources},
                          {About(c) : c \in {c \in cands : i \in c.obs.sources}})
    <3>1. n \in ledger'
      BY <1>1 DEF LedgerOfReading
    <3>2. n.action = "read_run_record" /\ n.inputs = {i}
      BY DEF Entry
    <3> QED BY <3>1, <3>2
  <2> QED BY <1>1, <1>3, <2>1 DEF InvestigationInv, StageHolds, Built
<1>6. CandidatesHold'
  BY <1>1, <1>3 DEF CandidatesHold, InvestigationInv
<1>7. EvidenceHolds'
  <2>1. \A k : MatchedBy(k)' = MatchedBy(k)
    BY <1>1, <1>3 DEF MatchedBy, Matching
  <2> QED BY <1>1, <1>3, <2>1 DEF EvidenceHolds, LookedApart, InvestigationInv
<1>8. LedgerHolds'
  <2>1. \A e \in ledger' : EntryHolds(e)'
    <3> SUFFICES ASSUME NEW e \in LedgerOfReading PROVE EntryHolds(e)'
      BY <1>1
    <3>1. CASE \E i \in Read : e = Entry("read_run_record", ExportedQuestion, {i},
                                         {o \in obs : i \in o.sources},
                                         {About(c) : c \in {c \in cands : i \in c.obs.sources}})
      BY <1>1, <1>3, <3>1 DEF EntryHolds, Entry
    <3>2. CASE \E o \in obs : e = Entry("record_observation", ExportedQuestion, o.sources,
                                        {o}, {About(c) : c \in {c \in cands : c.obs = o}})
      BY <1>1, <1>3, <3>2 DEF EntryHolds, Entry
    <3>3. CASE \E c \in cands : e = Entry("propose_candidate", ExportedQuestion, {c.obs}, {c.obs}, {About(c)})
      <4>1. PICK c \in cands :
              e = Entry("propose_candidate", ExportedQuestion, {c.obs}, {c.obs}, {About(c)})
        BY <3>3
      <4>2. c.obs \in obs
        BY DEF InvestigationInv, CandidatesHold
      <4> QED BY <1>1, <1>3, <4>1, <4>2 DEF EntryHolds, Entry, About
    <3> QED BY <3>1, <3>2, <3>3 DEF LedgerOfReading
  <2>2. Noted' = {}
    <3>1. \A e \in LedgerOfReading : e.action \notin {"inspect_proof", "check_freshness"}
      BY DEF LedgerOfReading, Entry
    <3> QED BY <1>1, <3>1 DEF Noted
  <2> QED BY <1>1, <2>1, <2>2, FS_EmptySet DEF LedgerHolds
<1> QED BY <1>4, <1>5, <1>6, <1>7, <1>8 DEF InvestigationInv

\* What the ledger notes of a receipt is counted, and is of that receipt alone.
LEMMA NotesAreCounted ==
  ASSUME InvestigationInv, req' = req, obs' = obs, looked < Len(req.proofs), looked' = looked + 1,
         "proof.inspect" \in req.tools,
         {About(c) : c \in cands'} = {About(c) : c \in cands},
         NEW m \in SUBSET cands, NEW fresh \in BOOLEAN, fresh => FreshAllowed /\ m # {},
         calls' = calls + (IF fresh THEN 2 ELSE 1),
         ledger' = ledger \cup {Note("inspect_proof", m)}
                          \cup (IF fresh THEN {Note("check_freshness", m)} ELSE {})
  PROVE  LedgerHolds'
<1>1. looked \in Nat /\ calls \in Nat /\ req \in Requests
  BY DEF InvestigationInv, InvestigationTyped
<1>2. Read' = Read /\ ExportedQuestion' = ExportedQuestion /\ FreshAllowed' = FreshAllowed
  BY SameRequest
<1>a. PICK n1 : n1 = Note("inspect_proof", m)
  OBVIOUS
<1>b. PICK n2 : n2 = Note("check_freshness", m)
  OBVIOUS
<1>3. /\ n1.action = "inspect_proof" /\ n2.action = "check_freshness"
      /\ n1.inputs = {looked + 1} /\ n2.inputs = {looked + 1}
      /\ n1.question = req.question /\ n2.question = req.question
      /\ n1.obs = {c.obs : c \in m} /\ n2.obs = {c.obs : c \in m}
      /\ n1.cands = {About(c) : c \in m} /\ n2.cands = {About(c) : c \in m}
  BY <1>a, <1>b DEF Note, Entry
<1>4. ledger' = ledger \cup {n1} \cup (IF fresh THEN {n2} ELSE {})
  BY <1>a, <1>b
<1>5. {c.obs : c \in m} \subseteq obs /\ {About(c) : c \in m} \subseteq {About(c) : c \in cands'}
  BY DEF InvestigationInv, CandidatesHold
<1>6. \A e \in ledger' : EntryHolds(e)'
  <2>1. \A e \in ledger : EntryHolds(e)'
    <3> SUFFICES ASSUME NEW e \in ledger PROVE EntryHolds(e)'
      OBVIOUS
    <3>1. EntryHolds(e)
      BY DEF InvestigationInv, LedgerHolds
    <3>2. \A k \in 1..looked : k \in 1..looked'
      BY <1>1
    <3> QED BY <1>2, <3>1, <3>2 DEF EntryHolds
  <2>2. EntryHolds(n1)'
    <3>1. looked + 1 \in 1..looked'
      BY <1>1
    <3> QED BY <1>3, <1>5, <3>1 DEF EntryHolds
  <2>3. fresh => EntryHolds(n2)'
    <3>1. looked + 1 \in 1..looked'
      BY <1>1
    <3>2. fresh => n2.cands # {}
      BY <1>3
    <3> QED BY <1>2, <1>3, <1>5, <3>1, <3>2 DEF EntryHolds
  <2> QED BY <1>4, <2>1, <2>2, <2>3
<1>7. \A k \in 1..looked' : \E e \in ledger' : e.action = "inspect_proof" /\ e.inputs = {k}
  <2> SUFFICES ASSUME NEW k \in 1..looked'
               PROVE  \E e \in ledger' : e.action = "inspect_proof" /\ e.inputs = {k}
    OBVIOUS
  <2>1. k \in 1..looked \/ k = looked + 1
    BY <1>1
  <2>2. \A j \in 1..looked : \E e \in ledger : e.action = "inspect_proof" /\ e.inputs = {j}
    BY DEF InvestigationInv, LedgerHolds
  <2> QED BY <1>3, <1>4, <2>1, <2>2
<1>8. IsFiniteSet(Noted') /\ Cardinality(Noted') = calls'
  <2>1. IsFiniteSet(Noted) /\ Cardinality(Noted) = calls
    BY DEF InvestigationInv, LedgerHolds
  <2>2. n1 \notin Noted /\ n2 \notin Noted
    <3>1. \A e \in Noted : \E k \in 1..looked : e.inputs = {k}
      <4> SUFFICES ASSUME NEW e \in Noted PROVE \E k \in 1..looked : e.inputs = {k}
        OBVIOUS
      <4>1. EntryHolds(e) /\ e.action \in {"inspect_proof", "check_freshness"}
        BY DEF InvestigationInv, LedgerHolds, Noted
      <4> QED BY <4>1 DEF EntryHolds
    <3>2. looked + 1 \notin 1..looked
      BY <1>1
    <3>3. \A k : {looked + 1} = {k} => k = looked + 1
      OBVIOUS
    <3> QED BY <1>3, <3>1, <3>2, <3>3
  <2>3. /\ IsFiniteSet(Noted \cup {n1}) /\ Cardinality(Noted \cup {n1}) = calls + 1
    BY <1>1, <2>1, <2>2, FS_AddElement
  <2>4. n2 \notin Noted \cup {n1}
    BY <1>3, <2>2
  <2>5. IsFiniteSet((Noted \cup {n1}) \cup {n2}) /\ Cardinality((Noted \cup {n1}) \cup {n2}) = calls + 2
    <3>1. Cardinality((Noted \cup {n1}) \cup {n2}) = Cardinality(Noted \cup {n1}) + 1
      BY <2>3, <2>4, FS_AddElement
    <3> QED BY <1>1, <2>3, <3>1, FS_AddElement
  <2>6. Noted' = (Noted \cup {n1}) \cup (IF fresh THEN {n2} ELSE {})
    BY <1>3, <1>4 DEF Noted
  <2>7. CASE fresh
    BY <2>5, <2>6, <2>7
  <2>8. CASE ~fresh
    <3>1. Noted' = Noted \cup {n1}
      BY <2>6, <2>8
    <3> QED BY <2>3, <2>8, <3>1
  <2> QED BY <2>7, <2>8
<1> QED BY <1>6, <1>7, <1>8 DEF LedgerHolds

\* A receipt that is inspected is none of those before it.
LEMMA LooksApart ==
  ASSUME InvestigationInv, Inspects, req' = req, looked' = looked + 1
  PROVE  LookedApart'
<1>1. looked \in Nat /\ LookedApart
  BY DEF InvestigationInv, InvestigationTyped, EvidenceHolds
<1>2. \A k \in 1..looked : req.proofs[k].id # req.proofs[looked + 1].id
  BY DEF Inspects, Repeated, Receipt
<1> SUFFICES ASSUME NEW j \in 1..(looked + 1), NEW k \in 1..(looked + 1),
                    req.proofs[j].id = req.proofs[k].id
             PROVE  j = k
  BY DEF LookedApart
<1>3. (j \in 1..looked \/ j = looked + 1) /\ (k \in 1..looked \/ k = looked + 1)
  BY <1>1
<1> QED BY <1>1, <1>2, <1>3 DEF LookedApart

\* A receipt that says nothing, or whose freshness the budget no longer covers, is
\* noted and gives no evidence.
LEMMA LookingKeeps ==
  ASSUME InvestigationInv, InspectInconclusive \/ InspectWithoutFreshness
  PROVE  InvestigationInv'
<1>1. /\ UNCHANGED <<req, obs, cands, evidence, output>> /\ req \in Requests
      /\ stage = "verify" /\ looked < Len(req.proofs) /\ "proof.inspect" \in req.tools
      /\ looked' = looked + 1 /\ calls' = calls + 1 /\ calls < req.maxTools
      /\ ledger' = ledger \cup {Note("inspect_proof", Matching(Receipt))}
      /\ looked \in Nat /\ calls \in Nat /\ calls <= 2 * looked /\ Inspects
  BY DEF InspectInconclusive, InspectWithoutFreshness, Inspects, Pending, BudgetLeft,
         InvestigationInv, InvestigationTyped
<1>2. \/ exhausted' /\ exhausted' = TRUE /\ stage' = "built"
      \/ /\ exhausted' = exhausted /\ stage' = stage
         /\ Matching(Receipt) = {} \/ Receipt.verdict = "other"
  BY DEF InspectInconclusive, InspectWithoutFreshness
<1>3. Read' = Read /\ Extracted' = Extracted /\ PolicyAccepted' = PolicyAccepted
      /\ Exportable' = Exportable /\ Bound' = Bound
      /\ \A S : Exported(S)' = Exported(S)
      /\ \A p : Current(p)' = Current(p)
  BY <1>1, SameRequest
<1>4. Len(req.proofs) \in Nat /\ req.maxTools \in Nat /\ Len(req.records) \in Nat /\ req.maxRecords \in Nat
  BY <1>1, RequestTypes
<1>5. InvestigationTyped'
  <2>1. exhausted' \in BOOLEAN
    BY <1>2 DEF InvestigationInv, InvestigationTyped
  <2>2. /\ looked' \in Nat /\ calls' \in Nat /\ looked' <= Len(req'.proofs) /\ calls' <= 2 * looked'
        /\ stage' \in Stages /\ output' \in {"absent", "own", "other"}
    BY <1>1, <1>2, <1>4 DEF InvestigationInv, InvestigationTyped, Stages
  <2> QED BY <1>1, <2>1, <2>2 DEF InvestigationTyped
<1>6. StageHolds'
  BY <1>1, <1>2, <1>3 DEF InvestigationInv, StageHolds, Built
<1>7. CandidatesHold'
  BY <1>1, <1>3 DEF InvestigationInv, CandidatesHold
<1>8. EvidenceHolds'
  <2>1. \A k : MatchedBy(k)' = MatchedBy(k)
    BY <1>1, <1>3 DEF MatchedBy, Matching
  <2>2. \A e \in evidence' :
           /\ e.source \in 1..looked'
           /\ e.cands = MatchedBy(e.source)' /\ e.cands # {}
           /\ e.supports = (Current(req.proofs[e.source])' /\ req'.proofs[e.source].verdict = "pass")
           /\ e.contradicts = (Current(req.proofs[e.source])' /\ req'.proofs[e.source].verdict = "fail")
    <3>1. \A k \in 1..looked : k \in 1..looked'
      BY <1>1
    <3> QED BY <1>1, <1>3, <2>1, <3>1 DEF InvestigationInv, EvidenceHolds
  <2>3. \A k \in 1..looked' :
          (MatchedBy(k)' # {} /\ req'.proofs[k].verdict # "other") =>
              exhausted' \/ \E e \in evidence' : e.source = k
    <3> SUFFICES ASSUME NEW k \in 1..looked', MatchedBy(k) # {}, req.proofs[k].verdict # "other"
                 PROVE  exhausted' \/ \E e \in evidence : e.source = k
      BY <1>1, <2>1
    <3>1. k \in 1..looked \/ k = looked + 1
      BY <1>1
    <3>2. k = looked + 1 => exhausted'
      BY <1>2 DEF Receipt, MatchedBy
    <3>3. k \in 1..looked => exhausted \/ \E e \in evidence : e.source = k
      BY DEF InvestigationInv, EvidenceHolds
    <3> QED BY <1>2, <3>1, <3>2, <3>3
  <2>4. calls' <= req'.maxTools
    BY <1>1, <1>4
  <2>5. /\ \A c \in cands' : c.status = "verified" => \E e \in evidence' : About(c) \in e.cands
        /\ IsFiniteSet(evidence') /\ Cardinality(evidence') <= req'.maxEvidence
    BY <1>1 DEF InvestigationInv, EvidenceHolds
  <2>6. LookedApart'
    BY <1>1, LooksApart
  <2> QED BY <2>2, <2>3, <2>4, <2>5, <2>6 DEF EvidenceHolds
<1>9. LedgerHolds'
  <2>1. Matching(Receipt) \in SUBSET cands
    BY DEF Matching
  <2>2. /\ calls' = calls + (IF FALSE THEN 2 ELSE 1)
        /\ ledger' = ledger \cup {Note("inspect_proof", Matching(Receipt))}
              \cup (IF FALSE THEN {Note("check_freshness", Matching(Receipt))} ELSE {})
    BY <1>1
  <2> QED BY <1>1, <2>1, <2>2, NotesAreCounted
<1> QED BY <1>5, <1>6, <1>7, <1>8, <1>9 DEF InvestigationInv

\* A receipt that speaks gives evidence, and verifies the candidates it matches.
LEMMA ConclusiveKeeps == ASSUME InvestigationInv, InspectConclusive PROVE InvestigationInv'
<1>1. /\ UNCHANGED <<stage, req, obs, exhausted, output>> /\ req \in Requests
      /\ stage = "verify" /\ looked < Len(req.proofs) /\ "proof.inspect" \in req.tools
      /\ looked' = looked + 1 /\ calls' = calls + (IF FreshAllowed THEN 2 ELSE 1)
      /\ calls < req.maxTools /\ (FreshAllowed => calls + 1 < req.maxTools)
      /\ Cardinality(evidence) < req.maxEvidence
      /\ cands' = Verified(Matching(Receipt))
      /\ evidence' = evidence \cup {Proof(Receipt, Matching(Receipt))}
      /\ ledger' = ledger \cup {Note("inspect_proof", Matching(Receipt))}
                     \cup (IF FreshAllowed THEN {Note("check_freshness", Matching(Receipt))} ELSE {})
      /\ Matching(Receipt) # {} /\ Receipt.verdict # "other"
      /\ looked \in Nat /\ calls \in Nat /\ calls <= 2 * looked /\ Inspects
  BY DEF InspectConclusive, Inspects, Pending, BudgetLeft, Conclusive, InvestigationInv, InvestigationTyped
<1>2. Read' = Read /\ Extracted' = Extracted /\ PolicyAccepted' = PolicyAccepted
      /\ Exportable' = Exportable /\ Bound' = Bound
      /\ \A S : Exported(S)' = Exported(S)
      /\ \A p : Current(p)' = Current(p)
  BY <1>1, SameRequest
<1>3. Len(req.proofs) \in Nat /\ req.maxTools \in Nat /\ req.maxEvidence \in Nat
  BY <1>1, RequestTypes
<1>4. Matching(Receipt) \in SUBSET cands /\ FreshAllowed \in BOOLEAN
  BY DEF Matching, FreshAllowed
<1>5. InvestigationTyped'
  <2>1. /\ looked' \in Nat /\ calls' \in Nat /\ looked' <= Len(req'.proofs) /\ calls' <= 2 * looked'
    BY <1>1, <1>3
  <2> QED BY <1>1, <2>1 DEF InvestigationInv, InvestigationTyped
<1>6. /\ \A d \in cands' : \E c \in cands :
             /\ d.type = c.type /\ d.obs = c.obs /\ d.status \in {c.status, "verified"}
             /\ d = [type |-> d.type, obs |-> d.obs, status |-> d.status]
             /\ d.status # c.status => c \in Matching(Receipt)
      /\ \A c \in cands : \E d \in cands' : d.obs = c.obs
  <2>1. \A c \in cands : c = [type |-> c.type, obs |-> c.obs, status |-> c.status]
    <3> SUFFICES ASSUME NEW c \in cands PROVE c = [type |-> c.type, obs |-> c.obs, status |-> c.status]
      OBVIOUS
    <3>1. c = [type |-> CandidateType(c.obs), obs |-> c.obs, status |-> c.status]
      BY DEF InvestigationInv, CandidatesHold
    <3> QED BY <3>1
  <2>2. \A c \in cands :
          /\ [c EXCEPT !.status = "verified"] = [type |-> c.type, obs |-> c.obs, status |-> "verified"]
    BY <2>1
  <2>3. \A d \in cands' : \E c \in cands :
          d = IF c \in Matching(Receipt) THEN [type |-> c.type, obs |-> c.obs, status |-> "verified"] ELSE c
    BY <1>1, <2>2 DEF Verified
  <2>4. \A c \in cands :
          (IF c \in Matching(Receipt) THEN [type |-> c.type, obs |-> c.obs, status |-> "verified"] ELSE c) \in cands'
    BY <1>1, <2>2 DEF Verified
  <2>5. ASSUME NEW d \in cands'
        PROVE  \E c \in cands :
                 /\ d.type = c.type /\ d.obs = c.obs /\ d.status \in {c.status, "verified"}
                 /\ d = [type |-> d.type, obs |-> d.obs, status |-> d.status]
                 /\ d.status # c.status => c \in Matching(Receipt)
    <3>1. PICK c \in cands :
            d = IF c \in Matching(Receipt) THEN [type |-> c.type, obs |-> c.obs, status |-> "verified"] ELSE c
      BY <2>3
    <3>2. CASE c \in Matching(Receipt)
      <4>1. d = [type |-> c.type, obs |-> c.obs, status |-> "verified"]
        BY <3>1, <3>2
      <4>2. d.type = c.type /\ d.obs = c.obs /\ d.status = "verified"
        BY <4>1
      <4> QED BY <3>2, <4>1, <4>2
    <3>3. CASE c \notin Matching(Receipt)
      BY <2>1, <3>1, <3>3
    <3> QED BY <3>2, <3>3
  <2>6. ASSUME NEW c \in cands PROVE \E d \in cands' : d.obs = c.obs
    <3>1. CASE c \in Matching(Receipt)
      <4>1. [type |-> c.type, obs |-> c.obs, status |-> "verified"] \in cands'
        BY <2>4, <3>1
      <4> QED BY <4>1
    <3>2. CASE c \notin Matching(Receipt)
      BY <2>4, <3>2
    <3> QED BY <3>1, <3>2
  <2> QED BY <2>5, <2>6
<1>7. {About(c) : c \in cands'} = {About(c) : c \in cands}
  BY <1>6 DEF About
<1>8. StageHolds'
  <2>1. \A o \in obs : (\E c \in cands : c.obs = o) => \E c \in cands' : c.obs = o
    BY <1>6
  <2>2. \A i \in Read : (\E e \in ledger : e.action = "read_run_record" /\ e.inputs = {i}) =>
                          \E e \in ledger' : e.action = "read_run_record" /\ e.inputs = {i}
    BY <1>1
  <2> QED BY <1>1, <1>2, <2>1, <2>2 DEF InvestigationInv, StageHolds, Built
<1>9. CandidatesHold'
  <2>1. ASSUME NEW d \in cands'
        PROVE  /\ d = [type |-> CandidateType(d.obs), obs |-> d.obs, status |-> d.status]
               /\ d.obs \in obs' /\ d.obs.type \in Proposing /\ d.status \in {"unverified", "verified"}
    <3>1. PICK c \in cands : /\ d.type = c.type /\ d.obs = c.obs /\ d.status \in {c.status, "verified"}
                             /\ d = [type |-> d.type, obs |-> d.obs, status |-> d.status]
      BY <1>6
    <3>2. /\ c = [type |-> CandidateType(c.obs), obs |-> c.obs, status |-> c.status]
          /\ c.obs \in obs /\ c.obs.type \in Proposing /\ c.status \in {"unverified", "verified"}
      BY DEF InvestigationInv, CandidatesHold
    <3>3. c.type = CandidateType(c.obs)
      BY <3>2
    <3> QED BY <1>1, <3>1, <3>2, <3>3
  <2>2. obs' \subseteq Extracted'
    BY <1>1, <1>2 DEF InvestigationInv, CandidatesHold
  <2> QED BY <2>1, <2>2 DEF CandidatesHold
<1>10. EvidenceHolds'
  <2>1. \A k : MatchedBy(k)' = MatchedBy(k)
    BY <1>1, <1>7, <1>9, SameMatches DEF InvestigationInv
  <2>2. PICK p : p = Proof(Receipt, Matching(Receipt))
    OBVIOUS
  <2>3. /\ p.source = looked + 1 /\ p.cands = MatchedBy(looked + 1) /\ p.cands # {}
        /\ p.supports = (Current(req.proofs[looked + 1]) /\ req.proofs[looked + 1].verdict = "pass")
        /\ p.contradicts = (Current(req.proofs[looked + 1]) /\ req.proofs[looked + 1].verdict = "fail")
    <3>1. p.cands = MatchedBy(looked + 1) /\ p.source = looked + 1
      BY <2>2 DEF Proof, Receipt, MatchedBy
    <3>2. MatchedBy(looked + 1) # {}
      BY <1>1 DEF MatchedBy, Receipt
    <3> QED BY <2>2, <3>1, <3>2 DEF Proof, Receipt
  <2>4. evidence' = evidence \cup {p}
    BY <1>1, <2>2
  <2>5. \A e \in evidence' :
           /\ e.source \in 1..looked'
           /\ e.cands = MatchedBy(e.source)' /\ e.cands # {}
           /\ e.supports = (Current(req.proofs[e.source])' /\ req'.proofs[e.source].verdict = "pass")
           /\ e.contradicts = (Current(req.proofs[e.source])' /\ req'.proofs[e.source].verdict = "fail")
    <3>1. \A k \in 1..looked : k \in 1..looked'
      BY <1>1
    <3>2. looked + 1 \in 1..looked'
      BY <1>1
    <3>3. \A e \in evidence :
             /\ e.source \in 1..looked'
             /\ e.cands = MatchedBy(e.source)' /\ e.cands # {}
             /\ e.supports = (Current(req.proofs[e.source])' /\ req'.proofs[e.source].verdict = "pass")
             /\ e.contradicts = (Current(req.proofs[e.source])' /\ req'.proofs[e.source].verdict = "fail")
      BY <1>1, <1>2, <2>1, <3>1 DEF InvestigationInv, EvidenceHolds
    <3>4. /\ p.source \in 1..looked'
          /\ p.cands = MatchedBy(p.source)' /\ p.cands # {}
          /\ p.supports = (Current(req.proofs[p.source])' /\ req'.proofs[p.source].verdict = "pass")
          /\ p.contradicts = (Current(req.proofs[p.source])' /\ req'.proofs[p.source].verdict = "fail")
      BY <1>1, <1>2, <2>1, <2>3, <3>2
    <3> QED BY <2>4, <3>3, <3>4
  <2>6. \A k \in 1..looked' :
          (MatchedBy(k)' # {} /\ req'.proofs[k].verdict # "other") =>
              exhausted' \/ \E e \in evidence' : e.source = k
    <3> SUFFICES ASSUME NEW k \in 1..looked', MatchedBy(k) # {}, req.proofs[k].verdict # "other"
                 PROVE  exhausted \/ \E e \in evidence' : e.source = k
      BY <1>1, <2>1
    <3>1. k \in 1..looked \/ k = looked + 1
      BY <1>1
    <3>2. k \in 1..looked => exhausted \/ \E e \in evidence : e.source = k
      BY DEF InvestigationInv, EvidenceHolds
    <3> QED BY <2>3, <2>4, <3>1, <3>2
  <2>7. calls' <= req'.maxTools
    BY <1>1, <1>3
  <2>8. IsFiniteSet(evidence') /\ Cardinality(evidence') <= req'.maxEvidence
    <3>1. IsFiniteSet(evidence)
      BY DEF InvestigationInv, EvidenceHolds
    <3>2. IsFiniteSet(evidence') /\ (Cardinality(evidence') = Cardinality(evidence)
                                     \/ Cardinality(evidence') = Cardinality(evidence) + 1)
      BY <2>4, <3>1, FS_AddElement
    <3>3. Cardinality(evidence) \in Nat
      BY <3>1, FS_CardinalityType
    <3> QED BY <1>1, <1>3, <3>2, <3>3
  <2>9. \A d \in cands' : d.status = "verified" => \E e \in evidence' : About(d) \in e.cands
    <3> SUFFICES ASSUME NEW d \in cands', d.status = "verified" PROVE \E e \in evidence' : About(d) \in e.cands
      OBVIOUS
    <3>1. PICK c \in cands : /\ d.obs = c.obs /\ d.status \in {c.status, "verified"}
                             /\ d.status # c.status => c \in Matching(Receipt)
      BY <1>6
    <3>2. About(d) = About(c)
      BY <3>1 DEF About
    <3>3. CASE c.status = "verified"
      BY <2>4, <3>2, <3>3 DEF InvestigationInv, EvidenceHolds
    <3>4. CASE c.status # "verified"
      <4>1. About(c) \in MatchedBy(looked + 1)
        BY <3>1, <3>4 DEF MatchedBy, Receipt
      <4> QED BY <2>3, <2>4, <3>2, <4>1
    <3> QED BY <3>3, <3>4
  <2>10. LookedApart'
    BY <1>1, LooksApart
  <2> QED BY <2>5, <2>6, <2>7, <2>8, <2>9, <2>10 DEF EvidenceHolds
<1>11. LedgerHolds'
  <2>1. FreshAllowed => FreshAllowed /\ Matching(Receipt) # {}
    BY <1>1
  <2> QED BY <1>1, <1>4, <1>7, <2>1, NotesAreCounted
<1> QED BY <1>5, <1>8, <1>9, <1>10, <1>11 DEF InvestigationInv

LEMMA InvestigationKeeps == InvestigationInv /\ [InvestigateNext]_investigated => InvestigationInv'
<1> SUFFICES ASSUME InvestigationInv, [InvestigateNext]_investigated PROVE InvestigationInv'
  OBVIOUS
<1>1. CASE Refuse \/ RefuseReceipts \/ RefuseReceipt \/ StopInspecting \/ AllInspected
           \/ CheckOutput \/ WriteResult \/ OtherWrites \/ UNCHANGED investigated
  BY <1>1, StageMoves
<1>2. CASE Observe
  BY <1>2, ObserveKeeps
<1>3. CASE Propose
  BY <1>3, ProposeKeeps
<1>4. CASE RecordReading
  BY <1>4, RecordReadingKeeps
<1>5. CASE InspectInconclusive \/ InspectWithoutFreshness
  BY <1>5, LookingKeeps
<1>6. CASE InspectConclusive
  BY <1>6, ConclusiveKeeps
<1> QED BY <1>1, <1>2, <1>3, <1>4, <1>5, <1>6 DEF InvestigateNext

LEMMA InvestigationInvariant == InvestigateSpec => []InvestigationInv
<1> QED BY InvestigationStarts, InvestigationKeeps, PTL DEF InvestigateSpec

\* A receipt whose command is among the records read.
LEMMA MatchedIsRead ==
  ASSUME InvestigationInv, NEW e \in evidence
  PROVE  /\ e.source \in 1..looked
         /\ \E i \in Read : req.records[i].kind = "call"
                /\ req.records[i].command = req.proofs[e.source].command
<1>1. e.source \in 1..looked /\ e.cands = MatchedBy(e.source) /\ e.cands # {}
  BY DEF InvestigationInv, EvidenceHolds
<1>2. PICK c \in Matching(req.proofs[e.source]) : TRUE
  BY <1>1 DEF MatchedBy
<1> QED BY <1>1, <1>2 DEF Matching

LEMMA SupportRests == InvestigationInv => SupportRestsOnReceipts
<1> SUFFICES ASSUME InvestigationInv PROVE SupportRestsOnReceipts
  OBVIOUS
<1>1. ASSUME NEW c \in cands, c.status = "verified"
      PROVE  \E e \in evidence :
               /\ About(c) \in e.cands /\ e.source <= looked
               /\ \E i \in c.obs.sources : req.records[i].kind = "call"
                       /\ req.records[i].command = req.proofs[e.source].command
  <2>1. PICK e \in evidence : About(c) \in e.cands
    BY <1>1 DEF InvestigationInv, EvidenceHolds
  <2>2. e.cands = MatchedBy(e.source) /\ e.source \in 1..looked
    BY DEF InvestigationInv, EvidenceHolds
  <2>3. PICK d \in Matching(req.proofs[e.source]) : About(d) = About(c)
    BY <2>1, <2>2 DEF MatchedBy
  <2>4. \E i \in c.obs.sources : req.records[i].kind = "call"
             /\ req.records[i].command = req.proofs[e.source].command
    BY <2>3 DEF Matching, About
  <2>5. e.source <= looked
    BY <2>2
  <2> QED BY <2>1, <2>4, <2>5
<1>2. ASSUME Built, Status = "supported"
      PROVE  \E k \in 1..looked : Tells(k, "pass")
  <2>1. PICK e \in evidence : e.supports
    BY <1>2 DEF Status, Supporting
  <2>2. Current(req.proofs[e.source]) /\ req.proofs[e.source].verdict = "pass"
    BY <2>1 DEF InvestigationInv, EvidenceHolds
  <2> QED BY <2>2, MatchedIsRead DEF Tells
<1>3. ASSUME Built, Status = "supported", NEW k \in 1..looked, Tells(k, "fail"),
             Matching(req.proofs[k]) # {}
      PROVE  StopReason = "budget_exhausted"
  <2>1. \A e \in evidence : ~e.contradicts
    BY <1>3 DEF Status, Contradicting
  <2>2. MatchedBy(k) # {} /\ req.proofs[k].verdict # "other"
    BY <1>3 DEF MatchedBy, Tells
  <2>3. ~ \E e \in evidence : e.source = k
    <3> SUFFICES ASSUME NEW e \in evidence, e.source = k PROVE FALSE
      OBVIOUS
    <3>1. e.contradicts = (Current(req.proofs[k]) /\ req.proofs[k].verdict = "fail")
      BY DEF InvestigationInv, EvidenceHolds
    <3> QED BY <1>3, <2>1, <3>1 DEF Tells
  <2>4. exhausted
    BY <2>2, <2>3 DEF InvestigationInv, EvidenceHolds
  <2> QED BY <2>4 DEF StopReason
<1> QED BY <1>1, <1>2, <1>3 DEF SupportRestsOnReceipts

\* What an Observation of a record gives when nothing is left out.
LEMMA RecordGivesCandidate ==
  ASSUME InvestigationInv, Built, ~req.filter, ~exhausted,
         NEW i \in Read, req.records[i].kind \in {"call", "result"}
  PROVE  \E c \in cands : c.obs = Observation(i) /\ i \in c.obs.sources
                          /\ c.type = CandidateType(Observation(i))
<1>1. Observation(i) \in Extracted /\ Observation(i).type = req.records[i].kind
      /\ i \in Observation(i).sources
  BY DEF Extracted, Observation
<1>2. obs = Exported(Extracted)
  BY DEF InvestigationInv, StageHolds, Built
<1>3. Observation(i) \in obs
  BY <1>1, <1>2 DEF Exported
<1>4. PICK c \in cands : c.obs = Observation(i)
  BY <1>1, <1>3 DEF InvestigationInv, StageHolds, Built, Proposing
<1>5. c.type = CandidateType(c.obs)
  BY DEF InvestigationInv, CandidatesHold
<1> QED BY <1>1, <1>4, <1>5

\* Every receipt that tells has its evidence when no budget ended.
LEMMA TellingIsEvidence ==
  ASSUME InvestigationInv, Built, ~req.filter, ~exhausted,
         NEW k \in DOMAIN req.proofs, NEW v \in {"pass", "fail"}, Tells(k, v)
  PROVE  \E e \in evidence : e.source = k
<1>1. k \in 1..looked
  <2>1. req \in Requests /\ looked = Len(req.proofs)
    BY DEF InvestigationInv, InvestigationTyped, StageHolds
  <2> QED BY <2>1, RequestTypes
<1>2. PICK i \in Read : req.records[i].kind = "call" /\ req.records[i].command = req.proofs[k].command
  BY DEF Tells
<1>3. PICK c \in cands : c.obs = Observation(i) /\ i \in c.obs.sources
                         /\ c.type = CandidateType(Observation(i))
  BY <1>2, RecordGivesCandidate
<1>4. c.type = "command_observation"
  <2>1. req.proofs[k].command # ""
    BY ReceiptTypes DEF InvestigationInv, InvestigationTyped
  <2>2. Observation(i).type = "call" /\ Observation(i).runs
    BY <1>2, <2>1 DEF Observation
  <2> QED BY <1>3, <2>2 DEF CandidateType
<1>5. c \in Matching(req.proofs[k])
  BY <1>2, <1>3, <1>4 DEF Matching
<1>6. MatchedBy(k) # {} /\ req.proofs[k].verdict # "other"
  BY <1>5 DEF MatchedBy, Tells
<1> QED BY <1>1, <1>6 DEF InvestigationInv, EvidenceHolds

LEMMA AnswerLooksAtAll == InvestigationInv => AnsweredFromAll
<1> SUFFICES ASSUME InvestigationInv, Built, StopReason = "question_answered"
             PROVE  /\ Read = DOMAIN req.records /\ looked = Len(req.proofs)
                    /\ ~req.filter =>
                         ~ \E k, l \in DOMAIN req.proofs : Tells(k, "pass") /\ Tells(l, "fail")
  BY DEF AnsweredFromAll
<1>1. ~exhausted /\ Answered
  <2>1. ~exhausted
    BY DEF StopReason
  <2>2. Answered
    BY DEF StopReason
  <2> QED BY <2>1, <2>2
<1>2. req \in Requests /\ looked = Len(req.proofs) /\ Len(req.records) <= req.maxRecords
  BY <1>1 DEF InvestigationInv, InvestigationTyped, StageHolds, Built
<1>3. Read = DOMAIN req.records
  BY <1>2, RequestTypes
<1>4. ASSUME ~req.filter, NEW k \in DOMAIN req.proofs, NEW l \in DOMAIN req.proofs,
             Tells(k, "pass"), Tells(l, "fail")
      PROVE  FALSE
  <2>1. PICK e \in evidence : e.source = k
    BY <1>1, <1>4, TellingIsEvidence
  <2>2. PICK f \in evidence : f.source = l
    BY <1>1, <1>4, TellingIsEvidence
  <2>3. e.supports
    <3>1. e.supports = (Current(req.proofs[k]) /\ req.proofs[k].verdict = "pass")
      BY <2>1 DEF InvestigationInv, EvidenceHolds
    <3> QED BY <1>4, <3>1 DEF Tells
  <2>4. f.contradicts
    <3>1. f.contradicts = (Current(req.proofs[l]) /\ req.proofs[l].verdict = "fail")
      BY <2>2 DEF InvestigationInv, EvidenceHolds
    <3> QED BY <1>4, <3>1 DEF Tells
  <2>5. Supporting # {} /\ Contradicting # {}
    BY <2>3, <2>4 DEF Supporting, Contradicting
  <2>6. Status = "conflicted"
    BY <2>5 DEF Status
  <2> QED BY <1>1, <2>6 DEF Answered
<1> QED BY <1>2, <1>3, <1>4

LEMMA FailuresShow == InvestigationInv => FailuresAreDisclosed
<1> SUFFICES ASSUME InvestigationInv, Built, ~req.filter, StopReason # "budget_exhausted",
                    NEW i \in Read, req.records[i].kind = "result", req.records[i].fails
             PROVE  \E o \in CounterEvidence : i \in o.sources
  BY DEF FailuresAreDisclosed
<1>1. ~exhausted
  BY DEF StopReason
<1>2. PICK c \in cands : c.obs = Observation(i) /\ i \in c.obs.sources
                         /\ c.type = CandidateType(Observation(i))
  BY <1>1, RecordGivesCandidate
<1>3. Observation(i).type = "result" /\ Observation(i).fails
  BY DEF Observation
<1>4. c.type = "counter_evidence"
  BY <1>2, <1>3 DEF CandidateType
<1>5. About(c) \in CounterEvidence
  BY <1>4 DEF CounterEvidence
<1> QED BY <1>2, <1>5 DEF About

\* What an answer rests on is a receipt of a command that was read, everything supplied
\* was looked at, and no failure is left out.
THEOREM AnswersAreAlwaysEarned == InvestigateSpec => []AnswersAreEarned
<1>1. InvestigationInv => AnswersAreEarned
  BY SupportRests, AnswerLooksAtAll, FailuresShow DEF AnswersAreEarned
<1> QED BY InvestigationInvariant, <1>1, PTL

\* The parts of the result are the parts of the investigation.
LEMMA ResultParts ==
  /\ Result.question = ExportedQuestion /\ Result.runs = req.runs /\ Result.sources = RecordSources
  /\ Result.receipts = 1..looked /\ Result.status = Status /\ Result.obs = obs
  /\ Result.cands = cands /\ Result.evidence = evidence /\ Result.ledger = ledger
  /\ Result.finding.status = Status /\ Result.finding.evidence = evidence
  /\ Result.finding.counter = CounterEvidence /\ Result.finding.obs = obs
  /\ Result.searched = Read /\ Result.counter = CounterEvidence
  /\ Result.unresolved = Unresolved /\ Result.calls = calls /\ Result.stop = StopReason
BY DEF Result, Finding

LEMMA CandidateTypes ==
  ASSUME InvestigationInv, NEW c \in cands
  PROVE  /\ c.type \in {"agent_claim", "tool_observation", "command_observation", "counter_evidence"}
         /\ c.status \in {"unverified", "verified"} /\ c.obs \in obs
<1>1. /\ c.type = CandidateType(c.obs) /\ c.status \in {"unverified", "verified"}
      /\ c.obs \in obs /\ c.obs.type \in {"assistant", "call", "result"}
  BY DEF InvestigationInv, CandidatesHold, Proposing
<1>2. CandidateType(c.obs) \in {"agent_claim", "tool_observation", "command_observation", "counter_evidence"}
  <2>1. CASE c.obs.type = "assistant"
    BY <2>1 DEF CandidateType
  <2>2. CASE c.obs.type = "call"
    BY <2>2 DEF CandidateType
  <2>3. CASE c.obs.type = "result"
    BY <2>3 DEF CandidateType
  <2> QED BY <1>1, <2>1, <2>2, <2>3
<1> QED BY <1>1, <1>2

\* What the result claims.
LEMMA ClaimsAreSound ==
  ASSUME InvestigationInv, Built, ~BindsTwice
  PROVE  ClaimsHold(Result)
<1>1. PolicyAccepted
  BY DEF InvestigationInv, StageHolds, Built
<1>2. ObservationsSound(Result)
  <2> SUFFICES ASSUME NEW o \in obs
               PROVE  /\ o.type \in {"meta", "assistant", "reasoning", "call", "result", "sequence"}
                      /\ o.sources # {}
    BY ResultParts DEF ObservationsSound
  <2>1. o \in Extracted
    BY DEF InvestigationInv, CandidatesHold
  <2>2. CASE \E i \in Read : req.records[i].kind # "user" /\ o = Observation(i)
    <3>1. PICK i \in Read : req.records[i].kind # "user" /\ o = Observation(i)
      BY <2>2
    <3>2. req.records[i].kind \in RecordKinds
      BY RequestTypes DEF InvestigationInv, InvestigationTyped
    <3>3. o.type = req.records[i].kind /\ i \in o.sources
      BY <3>1 DEF Observation
    <3> QED BY <3>1, <3>2, <3>3 DEF RecordKinds
  <2>3. CASE Read # {} /\ o = [type |-> "sequence", sources |-> Read, runs |-> FALSE, fails |-> FALSE]
    BY <2>3
  <2> QED BY <2>1, <2>2, <2>3 DEF Extracted
<1>3. CandidatesSound(Result)
  BY ResultParts, CandidateTypes DEF CandidatesSound
<1>4. FindingSound(Result)
  <2>1. Status \in Statuses
    BY DEF Status, Statuses
  <2>2. CounterEvidence = ActualCounter(Result)
    BY ResultParts DEF CounterEvidence, ActualCounter
  <2> QED BY <2>1, <2>2, ResultParts DEF FindingSound
<1>5. EvidenceBound(Result)
  <2>1. Abouts(Result) = {About(c) : c \in cands}
    BY ResultParts DEF Abouts
  <2>2. \A k : MatchedBy(k) \subseteq {About(c) : c \in cands}
    BY DEF MatchedBy, Matching
  <2>3. \A e \in evidence : e.cands # {} /\ e.cands = MatchedBy(e.source) /\ e.source \in 1..looked
    BY DEF InvestigationInv, EvidenceHolds
  <2> QED BY <2>1, <2>2, <2>3, ResultParts DEF EvidenceBound
<1>6. StatusDerived(Result)
  <2>1. (\E e \in evidence : e.supports) <=> Supporting # {}
    BY DEF Supporting
  <2>2. (\E e \in evidence : e.contradicts) <=> Contradicting # {}
    BY DEF Contradicting
  <2>3. Status = "unknown" => Unresolved # {}
    <3>1. Status = "unknown" => ~Answered
      BY DEF Answered
    <3>2. ~Answered => "question" \in Unresolved
      BY DEF Unresolved
    <3> QED BY <3>1, <3>2
  <2> DEFINE for     == \E e \in evidence : e.supports
             against == \E e \in evidence : e.contradicts
  <2>4. Status = CASE for /\ against -> "conflicted"
                   [] for /\ ~against -> "supported"
                   [] ~for /\ against -> "unsupported"
                   [] ~for /\ ~against -> "unknown"
    BY <2>1, <2>2 DEF Status
  <2> QED BY <2>3, <2>4, ResultParts DEF StatusDerived
<1>7. EvidenceFormed(Result)
  <2>1. LookedApart
    BY DEF InvestigationInv, EvidenceHolds
  <2>2. \A e \in evidence : ~req.proofs[e.source].twice
    BY DEF BindsTwice
  <2> QED BY <2>1, <2>2, ResultParts DEF EvidenceFormed, LookedApart
<1> QED BY <1>1, <1>2, <1>3, <1>4, <1>5, <1>6, <1>7 DEF ClaimsHold

\* What the result says it looked at.
LEMMA SearchIsSound ==
  ASSUME InvestigationInv, Built, ~CutsALink, ~SharesAnId, ~NotesTheSecret, ~ShowsAReceiptsSecret
  PROVE  SearchHolds(Result)
<1>1. req \in Requests /\ Exportable /\ Bound
  BY DEF InvestigationInv, InvestigationTyped, StageHolds, Built
<1>2. Abouts(Result) = {About(c) : c \in cands}
  BY ResultParts DEF Abouts
<1>3. WithinBudgets(Result)
  BY ResultParts DEF WithinBudgets, InvestigationInv, EvidenceHolds
<1>4. SourcesBound(Result)
  <2>1. req.runs # {}
    BY <1>1, RequestsAssumption
  <2>2. {x.id : x \in RecordSources} = Read
    <3>1. ASSUME NEW i \in Read PROVE \E x \in RecordSources : x.id = i
      <4>1. [id |-> i, run |-> req.records[i].run] \in RecordSources
        BY DEF RecordSources
      <4> QED BY <4>1
    <3>2. \A x \in RecordSources : x.id \in Read
      BY DEF RecordSources
    <3> QED BY <3>1, <3>2
  <2>3. {x.run : x \in RecordSources} \subseteq Groups
    <3> SUFFICES ASSUME NEW i \in Read PROVE req.records[i].run \in Groups
      BY DEF RecordSources
    <3>1. req.records[i] \in Range(req.records)
      BY <1>1, RequestTypes DEF Range
    <3> QED BY <1>1, <3>1 DEF Bound, RecordsOf
  <2>4. \A s, t \in req.runs : s.id = t.id \/ s.run = t.run => s = t
    BY <1>1 DEF Bound, SharesAnId
  <2> QED BY <2>1, <2>2, <2>3, <2>4, ResultParts DEF SourcesBound, Groups
<1>5. Result.counter = ActualCounter(Result)
  BY ResultParts DEF CounterEvidence, ActualCounter
<1>6. SourcesAreRead(Result)
  <2>1. ASSUME NEW o \in obs PROVE o.sources \subseteq Read
    <3>1. o \in Extracted
      BY DEF InvestigationInv, CandidatesHold
    <3>2. CASE \E i \in Read : o = Observation(i)
      <4>1. PICK i \in Read : o = Observation(i)
        BY <3>2
      <4>2. CASE req.records[i].kind = "result" /\ req.records[i].link # 0
        <5>1. req.records[i].link \in Read
          BY <4>1, <4>2 DEF CutsALink
        <5> QED BY <4>1, <4>2, <5>1 DEF Observation
      <4>3. CASE ~(req.records[i].kind = "result" /\ req.records[i].link # 0)
        BY <4>1, <4>3 DEF Observation
      <4> QED BY <4>2, <4>3
    <3>3. CASE o = [type |-> "sequence", sources |-> Read, runs |-> FALSE, fails |-> FALSE]
      BY <3>3
    <3> QED BY <3>1, <3>2, <3>3 DEF Extracted
  <2> QED BY <2>1, CandidateTypes, ResultParts DEF SourcesAreRead
<1>7. LedgerIsClosed(Result)
  <2> SUFFICES ASSUME NEW e \in ledger
               PROVE  /\ e.question = ExportedQuestion
                      /\ e.obs \subseteq obs /\ e.cands \subseteq {About(c) : c \in cands}
                      /\ e.action = "read_run_record" => e.inputs \subseteq Read
                      /\ e.action = "record_observation" => \A o \in e.obs : e.inputs = o.sources
                      /\ e.action = "propose_candidate" => e.inputs = e.cands
                      /\ e.action = "check_freshness" => e.cands # {}
    BY <1>2, ResultParts DEF LedgerIsClosed
  <2>1. EntryHolds(e)
    BY DEF InvestigationInv, LedgerHolds
  <2>2. (\E k \in 1..looked : e.inputs = {k}) => looked > 0
    BY DEF InvestigationInv, InvestigationTyped
  <2>3. looked > 0 => ExportedQuestion = req.question
    BY DEF NotesTheSecret, ExportedQuestion
  <2> QED BY <2>1, <2>2, <2>3 DEF EntryHolds
<1>8. LedgerIsComplete(Result)
  <2>1. \A e \in ledger : e.action = "read_run_record" => \E i \in Read : e.inputs = {i}
    BY DEF InvestigationInv, LedgerHolds, EntryHolds
  <2>2. \A i \in Read : \E e \in ledger : e.action = "read_run_record" /\ e.inputs = {i}
    BY DEF InvestigationInv, StageHolds, Built
  <2>3. (UNION {e.inputs : e \in {e \in ledger : e.action = "read_run_record"}}) = Read
    BY <2>1, <2>2
  <2>4. VerificationEntries(Result) = Noted
    BY ResultParts DEF VerificationEntries, Noted
  <2>5. Cardinality(Noted) = calls
    BY DEF InvestigationInv, LedgerHolds
  <2>6. \A e \in Noted :
          /\ \E k \in 1..looked : e.inputs = {k}
          /\ (IF e.action = "inspect_proof" THEN "proof.inspect" ELSE "freshness.check") \in req.tools
    BY DEF InvestigationInv, LedgerHolds, EntryHolds, Noted, FreshAllowed
  <2>7. \A k \in 1..looked : \E e \in Noted : e.inputs = {k}
    BY DEF InvestigationInv, LedgerHolds, Noted
  <2>8. (UNION {e.inputs : e \in Noted}) = 1..looked
    BY <2>6, <2>7
  <2> QED BY <2>3, <2>4, <2>5, <2>6, <2>8, ResultParts DEF LedgerIsComplete
<1>9. StopIsNamed(Result)
  <2>1. StopReason \in {"budget_exhausted", "tool_unavailable", "question_answered", "unknown"}
    BY DEF StopReason
  <2> QED BY <2>1, ResultParts DEF StopIsNamed
<1>10. NothingExposed(Result)
  <2> SUFFICES ASSUME req.redacts PROVE ~Exposes(Result)
    BY DEF NothingExposed
  <2>1. req.names # "secret" /\ ExportedQuestion # "secret"
    BY <1>1 DEF Exportable, ExportedQuestion
  <2>2. /\ \A k \in 1..looked : req.proofs[k].secret # "file"
        /\ \A e \in evidence : req.proofs[e.source].secret # "record"
    BY DEF ShowsAReceiptsSecret
  <2>3. \A e \in ledger : e.question # "secret"
    BY <1>7, <2>1, ResultParts DEF LedgerIsClosed
  <2> QED BY <2>1, <2>2, <2>3, ResultParts DEF Exposes
<1> QED BY <1>3, <1>4, <1>5, <1>6, <1>7, <1>8, <1>9, <1>10 DEF SearchHolds

\* What the validator refuses.
LEMMA TheCasesAreRefused ==
  ASSUME InvestigationInv, Built,
         CutsALink \/ SharesAnId \/ BindsTwice \/ NotesTheSecret \/ ShowsAReceiptsSecret
  PROVE  ~ResultAcceptable(Result)
<1>1. CASE CutsALink
  <2>1. PICK i \in Read : /\ req.records[i].kind = "result"
                          /\ req.records[i].link \notin Read \cup {0} /\ Observation(i) \in obs
    BY <1>1 DEF CutsALink
  <2>2. req.records[i].link \in Observation(i).sources
    BY <2>1 DEF Observation
  <2>3. ~SourcesAreRead(Result)
    BY <2>1, <2>2, ResultParts DEF SourcesAreRead
  <2> QED BY <2>3 DEF ResultAcceptable, SearchHolds
<1>2. CASE SharesAnId
  <2>1. ~SourcesBound(Result)
    BY <1>2, ResultParts DEF SharesAnId, SourcesBound
  <2> QED BY <2>1 DEF ResultAcceptable, SearchHolds
<1>3. CASE BindsTwice
  <2>1. ~EvidenceFormed(Result)
    BY <1>3, ResultParts DEF BindsTwice, EvidenceFormed
  <2> QED BY <2>1 DEF ResultAcceptable, ClaimsHold
<1>4. CASE NotesTheSecret
  <2>1. 1 \in 1..looked
    BY <1>4 DEF NotesTheSecret, InvestigationInv, InvestigationTyped
  <2>2. PICK e \in ledger : e.action = "inspect_proof"
    BY <2>1 DEF InvestigationInv, LedgerHolds
  <2>3. EntryHolds(e)
    BY DEF InvestigationInv, LedgerHolds
  <2>4. e.question = "secret" /\ ExportedQuestion = "redacted"
    BY <1>4, <2>2, <2>3 DEF EntryHolds, NotesTheSecret, ExportedQuestion
  <2>5. ~LedgerIsClosed(Result)
    BY <2>4, ResultParts DEF LedgerIsClosed
  <2> QED BY <2>5 DEF ResultAcceptable, SearchHolds
<1>5. CASE ShowsAReceiptsSecret
  <2>1. ~NothingExposed(Result)
    BY <1>5, ResultParts DEF ShowsAReceiptsSecret, NothingExposed, Exposes
  <2> QED BY <2>1 DEF ResultAcceptable, SearchHolds
<1> QED BY <1>1, <1>2, <1>3, <1>4, <1>5

LEMMA TypesHold == InvestigationInv => InvestigationTypeOK
<1> SUFFICES ASSUME InvestigationInv PROVE InvestigationTypeOK
  OBVIOUS
<1>1. Len(req.proofs) \in Nat
  BY RequestTypes DEF InvestigationInv, InvestigationTyped
<1>2. looked \in 0..Len(req.proofs) /\ calls \in 0..(2 * Len(req.proofs))
  BY <1>1 DEF InvestigationInv, InvestigationTyped
<1>3. exhausted \in BOOLEAN /\ output \in {"absent", "own", "other"}
  BY DEF InvestigationInv, InvestigationTyped
<1> QED BY <1>2, <1>3, CandidateTypes DEF InvestigationTypeOK

\* What an investigation builds, its own validator accepts in every case but five, and in
\* none of the five: a link that the record budget cuts, two runs under one source id, a
\* receipt that binds a path twice, a secret in the question when receipts are inspected,
\* and one in a receipt, both under a policy that redacts secrets.
THEOREM WhatIsBuiltIsValid == InvestigateSpec => []BuiltIsValid
<1>1. InvestigationInv => BuiltIsValid
  <2> DEFINE Refused == CutsALink \/ SharesAnId \/ BindsTwice \/ NotesTheSecret \/ ShowsAReceiptsSecret
  <2>1. (InvestigationInv /\ Built /\ ~Refused) => ResultAcceptable(Result)
    BY ClaimsAreSound, SearchIsSound DEF ResultAcceptable
  <2>2. (InvestigationInv /\ Built /\ Refused) => ~ResultAcceptable(Result)
    BY TheCasesAreRefused
  <2> QED BY <2>1, <2>2, TypesHold DEF BuiltIsValid, Valid
<1> QED BY InvestigationInvariant, <1>1, PTL
=============================================================================
