--------------------------- MODULE DecisionLedger ---------------------------
(***************************************************************************)
(* The local Decision Ledger (decision.py): one JSON file of decisions and *)
(* a history of events.  Every command reads the whole file, changes it in *)
(* memory and writes the whole file back with a rename; nothing locks it.  *)
(* Several commands may run at once and any of them may die between its    *)
(* read and its write.                                                     *)
(*                                                                         *)
(* A command the code refuses leaves the file as it is, and is not a step. *)
(***************************************************************************)
EXTENDS LedgerValue, FiniteSets, Functions

CONSTANTS
    Writers,   \* processes running `aet decision ...`
    MaxOps     \* bound on the commands started

ASSUME OpsAssumption == MaxOps \in Nat

VARIABLES
    ledger,   \* the file: a ledger, or None
    pc,       \* pc[w]: "idle", "creating" or "writing"
    draft,    \* draft[w]: what w has in memory and is about to write
    ops,      \* commands started so far
    stale     \* history: writers whose copy is older than the file

vars == <<ledger, pc, draft, ops, stale>>

Init ==
    /\ ledger = None
    /\ pc = [w \in Writers |-> "idle"]
    /\ draft = [w \in Writers |-> Empty]
    /\ ops = 0
    /\ stale = {}

Begin(w, to, l) ==
    /\ pc[w] = "idle"
    /\ ops < MaxOps
    /\ ops' = ops + 1
    /\ pc' = [pc EXCEPT ![w] = to]
    /\ draft' = [draft EXCEPT ![w] = l]
    /\ stale' = stale \ {w}
    /\ UNCHANGED ledger

\* init_ledger: an existing file is refused; the check and the write are two
\* steps.
StartInit(w) ==
    /\ ledger = None
    /\ Begin(w, "creating", Empty)

\* The decisions a new one supersedes: any number, each once (dict.fromkeys).
TargetLists == {t \in UNION {[1..n -> Ids] : n \in 0..Cardinality(Ids)} : IsInjective(t)}

StartAdd(w) ==
    /\ ledger # None
    /\ \E id \in Ids, state \in {"PROPOSED", "ACCEPTED"},
          evidence \in EvidenceStates, sourced \in BOOLEAN, targets \in TargetLists :
         /\ Addable(ledger, id, state, evidence, sourced, targets)
         /\ Begin(w, "writing", Add(ledger, id, state, targets))

StartSupersede(w) ==
    /\ ledger # None
    /\ \E id, by \in Ids :
         /\ Supersedable(ledger, id, by)
         /\ Begin(w, "writing", Supersede(ledger, id, by))

\* _write_json: a private temporary file, then os.replace.
Write(w) ==
    /\ pc[w] # "idle"
    /\ ledger' = draft[w]
    /\ pc' = [pc EXCEPT ![w] = "idle"]
    /\ draft' = [draft EXCEPT ![w] = Empty]
    /\ stale' = {v \in Writers \ {w} : pc[v] # "idle"}
    /\ UNCHANGED ops

\* The process dies before the rename: the file is as it was.
Crash(w) ==
    /\ pc[w] # "idle"
    /\ pc' = [pc EXCEPT ![w] = "idle"]
    /\ draft' = [draft EXCEPT ![w] = Empty]
    /\ stale' = stale \ {w}
    /\ UNCHANGED <<ledger, ops>>

Next ==
    \E w \in Writers :
        StartInit(w) \/ StartAdd(w) \/ StartSupersede(w) \/ Write(w) \/ Crash(w)

Spec == Init /\ [][Next]_vars
---------------------------------------------------------------------------
(* Properties.                                                              *)

TypeOK ==
    /\ ledger \in Ledgers \cup {None}
    /\ pc \in [Writers -> {"idle", "creating", "writing"}]
    /\ draft \in [Writers -> Ledgers]
    /\ ops \in 0..MaxOps
    /\ stale \subseteq Writers

SupersededIds(l) == {d \in Ids : IsSuperseded(l, d)}

\* Following superseded_by from any decision of the file ends at a live
\* ACCEPTED one: there is no set of superseded decisions that only point at
\* each other, and nothing points at a PROPOSED or missing decision.  It holds
\* of every file ever published, those that lost a concurrent update included
\* (add_decision and supersede_decision check the replacement they read).
ChainsEndAccepted ==
    ledger # None =>
        /\ \A d \in SupersededIds(ledger) :
             /\ ledger.decisions[d].superseded_by \in Ids
             /\ ledger.decisions[ledger.decisions[d].superseded_by].state
                    \in {"ACCEPTED", "SUPERSEDED"}
        /\ \A S \in SUBSET SupersededIds(ledger) :
             S # {} => \E d \in S : ledger.decisions[d].superseded_by \notin S

EventsOf(l, kind, id) ==
    {n \in 1..Len(l.history) : l.history[n].event = kind /\ l.history[n].id = id}

\* The history tells the same story as the decisions: one "added" event for
\* each decision, one "superseded" event naming the replacement for each
\* superseded decision, after it was added, and no others.
HistoryAgrees ==
    ledger # None =>
        \A d \in Ids :
            /\ Cardinality(EventsOf(ledger, "added", d)) = IF Present(ledger, d) THEN 1 ELSE 0
            /\ Cardinality(EventsOf(ledger, "superseded", d))
                    = IF IsSuperseded(ledger, d) THEN 1 ELSE 0
            /\ \A n \in EventsOf(ledger, "superseded", d) :
                 /\ ledger.history[n].replacement = ledger.decisions[d].superseded_by
                 /\ \E m \in EventsOf(ledger, "added", d) : m < n

\* A decision once in the file stays in it and never comes back to life,
\* whatever crashes in between, except by a command that writes back a copy
\* older than the file (nothing in decision.py notices that it is).
DecisionsEndure ==
    [][\A w \in Writers :
         (Write(w) /\ w \notin stale /\ ledger # None) =>
            \A d \in Ids :
              /\ Present(ledger, d) => Present(ledger', d)
              /\ IsSuperseded(ledger, d) => IsSuperseded(ledger', d)]_vars
=============================================================================
