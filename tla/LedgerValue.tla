---------------------------- MODULE LedgerValue ----------------------------
(***************************************************************************)
(* The contents of a Decision Ledger file (decision.py) as a value: the    *)
(* decisions by id, the history, and what `aet decision add` and           *)
(* `supersede` make of them.  DecisionLedger runs commands on one such     *)
(* file; AssetAdoption writes entries of it.                               *)
(*                                                                         *)
(* Claims, timestamps and source hashes are left out; whether a decision   *)
(* names a source is kept, since a guard depends on it.                    *)
(***************************************************************************)
EXTENDS Naturals, Sequences

CONSTANTS
    Ids,       \* decision ids
    None

ASSUME LedgerAssumption == None \notin Ids

States == {"PROPOSED", "ACCEPTED", "SUPERSEDED"}
EvidenceStates == {"EVIDENCED", "ATTESTED", "INFERRED", "UNKNOWN"}

\* A decision is superseded by another exactly when its state says so.  The ids
\* absent from the file are mapped to Absent.
Decision ==
    {r \in [state : States, superseded_by : Ids \cup {None}] :
        (r.state = "SUPERSEDED") = (r.superseded_by # None)}
Absent == [state |-> "ABSENT", superseded_by |-> None]
Event == [event : {"added", "superseded"}, id : Ids, replacement : Ids \cup {None}]

Ledgers ==
    [decisions : [Ids -> Decision \cup {Absent}], history : Seq(Event)]

Empty == [decisions |-> [d \in Ids |-> Absent], history |-> <<>>]

Present(l, id) == l.decisions[id].state # "ABSENT"
IsSuperseded(l, id) == l.decisions[id].state = "SUPERSEDED"
Added(id) == [event |-> "added", id |-> id, replacement |-> None]
Superseded(id, by) == [event |-> "superseded", id |-> id, replacement |-> by]

\* add_decision(identifier, state, evidence_state, sources, supersedes):
\* targets is the list of superseded ids, each once.
Addable(l, id, state, evidence, sourced, targets) ==
    /\ ~Present(l, id)
    /\ evidence \in {"EVIDENCED", "INFERRED"} => sourced
    /\ targets # <<>> => state = "ACCEPTED"
    /\ \A n \in 1..Len(targets) :
         /\ targets[n] # id
         /\ Present(l, targets[n])
         /\ ~IsSuperseded(l, targets[n])
Add(l, id, state, targets) ==
    [decisions |->
        [d \in Ids |->
            IF d = id THEN [state |-> state, superseded_by |-> None]
            ELSE IF \E n \in 1..Len(targets) : targets[n] = d
                 THEN [state |-> "SUPERSEDED", superseded_by |-> id]
                 ELSE l.decisions[d]],
     history |-> Append(l.history, Added(id))
                    \o [n \in 1..Len(targets) |-> Superseded(targets[n], id)]]

\* supersede_decision(identifier, replacement).
\* Defective variant: the replacement only has to exist.
SupersedableByAnything(l, id, by) ==
    /\ id # by
    /\ Present(l, id) /\ Present(l, by)
    /\ ~IsSuperseded(l, id)

Supersedable(l, id, by) ==
    /\ id # by
    /\ Present(l, id) /\ Present(l, by)
    /\ ~IsSuperseded(l, id)
    /\ l.decisions[by].state = "ACCEPTED"

\* Defective variants: the event is forgotten; the old decision is dropped.
SupersedeSilently(l, id, by) ==
    [l EXCEPT !.decisions[id] = [state |-> "SUPERSEDED", superseded_by |-> by]]
SupersedeByRemoval(l, id, by) ==
    [decisions |-> [l.decisions EXCEPT ![id] = Absent],
     history |-> Append(l.history, Superseded(id, by))]

Supersede(l, id, by) ==
    [decisions |->
        [l.decisions EXCEPT ![id] = [state |-> "SUPERSEDED", superseded_by |-> by]],
     history |-> Append(l.history, Superseded(id, by))]
=============================================================================
