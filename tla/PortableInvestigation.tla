----------------------- MODULE PortableInvestigation -----------------------
(***************************************************************************)
(* `aet investigate` (investigation/portable.py with observations/,        *)
(* evidence_core/ and investigation/verification.py): a bounded, read-only *)
(* investigation of a normalized run.  Records give Observations,          *)
(* Observations give unverified Evidence Candidates, and Proof receipts the*)
(* host supplies may verify command candidates; four budgets bound it, and *)
(* the result is validated as a whole before it is written.                *)
(*                                                                         *)
(* A record is its kind, the run it is of, the command of a tool call,     *)
(* whether a tool result tells of a failure, the hash of this content, and *)
(* the position of the call a result is linked to (0: none).  Records,     *)
(* observations and proofs are named by position, for the hashes that name *)
(* them.  A call without a command is one of a tool that runs none.  The   *)
(* lexical filter of the question and of the requested evidence keeps any  *)
(* set of observations that is closed as the code closes it, or all of     *)
(* them when every one shares a word with both.                            *)
(***************************************************************************)
EXTENDS Naturals, Sequences, FiniteSets, Functions

CONSTANTS
    Requests   \* the inputs of an investigation, see Request

\* What an investigation is given: records and the sources they are declared to be of
\* ([id, run]), receipts, the question, what else it is named by, and the policy: budgets,
\* tools, the restrictions it lifts, and what may be exported and is redacted.
\* A receipt is its content's hash (id), its command, verdict and freshness, whether the
\* policy lets it be read in this workspace (allowed), whether it binds a path twice, and
\* where it holds a secret: nowhere, in the name of its file, or in what it records.
Request(records, runs, proofs, questions, names, budgets, tools, lifted, filters, exports, redacts) ==
    [records : records, runs : runs, proofs : proofs, question : questions, names : names,
     maxRecords : budgets, maxCandidates : budgets, maxEvidence : budgets, maxTools : budgets,
     tools : tools, lifts : lifted, filter : filters, exportReasoning : exports, redacts : redacts]

RecordKinds == {"meta", "user", "assistant", "reasoning", "call", "result"}

\* _validate_request and the receipt's schema: budgets are numbers, a run is declared,
\* and a receipt names the command it is of.
ASSUME RequestsAssumption ==
    \A r \in Requests :
        /\ r.records \in Seq(Range(r.records)) /\ r.proofs \in Seq(Range(r.proofs))
        /\ \A i \in DOMAIN r.records :
             /\ r.records[i].kind \in RecordKinds /\ r.records[i].fails \in BOOLEAN
             /\ r.records[i].link \in 0..Len(r.records)
        /\ \A k \in DOMAIN r.proofs :
             /\ r.proofs[k].command # "" /\ r.proofs[k].fresh \in BOOLEAN
             /\ r.proofs[k].verdict \in {"pass", "fail", "other"}
        /\ r.runs # {} /\ {r.filter, r.exportReasoning, r.redacts} \subseteq BOOLEAN
        /\ {r.maxRecords, r.maxCandidates, r.maxEvidence, r.maxTools} \subseteq Nat

VARIABLES
    stage,       \* where investigate_run and write_investigation_result are
    req,         \* the request, fixed
    obs,         \* Observations
    cands,       \* Evidence Candidates
    evidence,    \* Verified Evidence
    ledger,      \* the investigation ledger
    looked,      \* Proof receipts inspected: the first `looked` of req.proofs
    calls,       \* tool calls
    exhausted,   \* a budget stopped the investigation
    output       \* the result file: "absent", "own" or "other"

investigated == <<stage, req, obs, cands, evidence, ledger, looked, calls, exhausted, output>>

InvestigateInit ==
    /\ stage = "observe" /\ req \in Requests
    /\ obs = {} /\ cands = {} /\ evidence = {} /\ ledger = {}
    /\ looked = 0 /\ calls = 0 /\ exhausted = FALSE
    /\ output = "absent"

Least(a, b) == IF a < b THEN a ELSE b
\* Positions of the records within the budget.
Read == 1..Least(Len(req.records), req.maxRecords)

---------------------------------------------------------------------------
(* What is refused at the start.                                            *)

\* An investigation reads, and looks for the contrary: a policy that allows a tool
\* that writes, or lifts one of these restrictions, is not accepted.
Restrictions == {"read only", "no commands", "competing hypothesis", "disconfirming search"}
WriteTools == {"git.commit", "file.write"}
PolicyAccepted == req.tools \cap WriteTools = {} /\ req.lifts \cap Restrictions = {}

\* _export_request_fields: what names the investigation cannot be redacted.
Exportable == req.redacts => req.names # "secret"

\* _bind_run_sources: the records are those of the declared runs, each with its meta
\* record, as they were imported; results are linked to calls.  No run is declared twice;
\* that two sources have one id is not looked at here.
RecordsOf(runs) == {r \in Range(req.records) : r.run \in runs}
Groups == {s.run : s \in req.runs}
\* The link is given after the record was hashed and is not part of the content.
Content(r) == <<r.kind, r.command, r.fails>>
Intact(r) == r.hash = Content(r)
Bound ==
    /\ \A r \in Range(req.records) : Intact(r)
    /\ \A s, t \in req.runs : s.run = t.run => s = t
    /\ RecordsOf(Groups) = Range(req.records)
    /\ \A n \in Groups : \E r \in RecordsOf({n}) : r.kind = "meta"
    /\ \A r \in Range(req.records) :
         (r.kind = "result" /\ r.link # 0) => req.records[r.link].kind = "call"

Refuse ==
    /\ stage = "observe" /\ ~(PolicyAccepted /\ Exportable /\ Bound)
    /\ stage' = "refused"
    /\ UNCHANGED <<req, obs, cands, evidence, ledger, looked, calls, exhausted, output>>

---------------------------------------------------------------------------
(* Observations and candidates.                                             *)

\* The Observation of the record at position i; a result cites its call too.
Observation(i) ==
    LET r == req.records[i]
    IN  [type |-> r.kind,
         sources |-> {i} \cup (IF r.kind = "result" /\ r.link # 0 THEN {r.link} ELSE {}),
         runs |-> r.kind = "call" /\ r.command # "",
        fails |-> r.kind = "result" /\ r.fails]
Extracted ==
    {Observation(i) : i \in {i \in Read : req.records[i].kind # "user"}}
    \cup (IF Read = {} THEN {} ELSE {[type |-> "sequence", sources |-> Read,
                                       runs |-> FALSE, fails |-> FALSE]})

\* filter_relevant_observations: tool calls and results bring in the ones that
\* share a record with them.
Tool(o) == o.type \in {"call", "result"}
WithLinked(kept) ==
    kept \cup {o \in Extracted :
        Tool(o) /\ \E k \in kept : Tool(k) /\ o.sources \cap k.sources # {}}
Relevant == IF req.filter THEN {WithLinked(kept) : kept \in SUBSET Extracted} ELSE {Extracted}

\* _apply_privacy_policy drops the agent's reasoning unless it may be exported.
Exported(kept) == {o \in kept : req.exportReasoning \/ o.type # "reasoning"}

CandidateType(o) ==
    CASE o.type = "assistant" -> "agent_claim"
      [] o.type = "call"      -> IF o.runs THEN "command_observation" ELSE "tool_observation"
      [] o.type = "result"    -> IF o.fails THEN "counter_evidence" ELSE "tool_observation"
Candidate(o) == [type |-> CandidateType(o), obs |-> o, status |-> "unverified"]
Proposed(kept) == {Candidate(o) : o \in {o \in kept : o.type \in {"assistant", "call", "result"}}}

\* The parts of every ledger entry that are checked against the rest.
Entry(action, question, inputs, observed, candidates) ==
    [action |-> action, question |-> question, inputs |-> inputs,
     obs |-> observed, cands |-> candidates]

\* The question as the result shows it: its secret is redacted if the policy says so.
ExportedQuestion == IF req.redacts /\ req.question = "secret" THEN "redacted" ELSE req.question

\* Ledger entries name candidates by what they are made from.
About(c) == c.obs
LedgerOfReading ==
    {Entry("read_run_record", ExportedQuestion, {i},
           {o \in obs : i \in o.sources}, {About(c) : c \in {c \in cands : i \in c.obs.sources}}) : i \in Read}
    \cup {Entry("record_observation", ExportedQuestion, o.sources,
           {o}, {About(c) : c \in {c \in cands : c.obs = o}}) : o \in obs}
    \cup {Entry("propose_candidate", ExportedQuestion, {c.obs}, {c.obs}, {About(c)}) : c \in cands}

---------------------------------------------------------------------------
(* investigate_run.                                                         *)

Observe ==
    /\ stage = "observe" /\ PolicyAccepted /\ Exportable /\ Bound
    /\ stage' = "propose"
    /\ \E kept \in Relevant : obs' = Exported(kept)
    /\ exhausted' = (Len(req.records) > req.maxRecords)
    /\ UNCHANGED <<req, cands, evidence, ledger, looked, calls, output>>

\* Too many candidates: none is kept.
Propose ==
    /\ stage = "propose" /\ stage' = "reading"
    /\ IF Cardinality(Proposed(obs)) > req.maxCandidates
       THEN cands' = {} /\ exhausted' = TRUE
       ELSE cands' = Proposed(obs) /\ UNCHANGED exhausted
    /\ UNCHANGED <<req, obs, evidence, ledger, looked, calls, output>>

RecordReading ==
    /\ stage = "reading" /\ stage' = "verify"
    /\ ledger' = LedgerOfReading
    /\ UNCHANGED <<req, obs, cands, evidence, looked, calls, exhausted, output>>

---------------------------------------------------------------------------
(* verify_proof_receipts: one receipt after the other.                      *)

Receipt == req.proofs[looked + 1]
Pending == stage = "verify" /\ looked < Len(req.proofs) /\ "proof.inspect" \in req.tools

\* Receipts without the tool that may read them.
RefuseReceipts ==
    /\ stage = "verify" /\ req.proofs # <<>> /\ "proof.inspect" \notin req.tools
    /\ stage' = "refused"
    /\ UNCHANGED <<req, obs, cands, evidence, ledger, looked, calls, exhausted, output>>

BudgetLeft == calls < req.maxTools /\ Cardinality(evidence) < req.maxEvidence

StopInspecting ==
    /\ Pending /\ ~BudgetLeft
    /\ exhausted' = TRUE /\ stage' = "built"
    /\ UNCHANGED <<req, obs, cands, evidence, ledger, looked, calls, output>>

\* A receipt the policy does not let be read, or of another workspace, or one whose
\* content was inspected already, ends the investigation.
Repeated == \E k \in 1..looked : req.proofs[k].id = Receipt.id
Inspects == Pending /\ BudgetLeft /\ Receipt.allowed /\ ~Repeated
RefuseReceipt ==
    /\ Pending /\ BudgetLeft /\ (~Receipt.allowed \/ Repeated)
    /\ stage' = "refused"
    /\ UNCHANGED <<req, obs, cands, evidence, ledger, looked, calls, exhausted, output>>

\* Command candidates whose recorded call is the command of the receipt.
\* Defective variant: any command will do.
MatchingAny(p) == {c \in cands : c.type = "command_observation"}
Matching(p) ==
    {c \in cands : /\ c.type = "command_observation"
                   /\ \E i \in c.obs.sources \cap Read :
                        req.records[i].kind = "call" /\ req.records[i].command = p.command}
Verified(m) == {IF c \in m THEN [c EXCEPT !.status = "verified"] ELSE c : c \in cands}
Note(action, m) ==
    Entry(action, req.question, {looked + 1}, {c.obs : c \in m}, {About(c) : c \in m})

FreshAllowed == "freshness.check" \in req.tools

\* Without freshness.check nothing is current.
Current(p) == FreshAllowed /\ p.fresh

\* The receipt matches no recorded command, or is neither PASS nor FAIL.
InspectInconclusive ==
    /\ Inspects
    /\ Matching(Receipt) = {} \/ Receipt.verdict = "other"
    /\ looked' = looked + 1 /\ calls' = calls + 1
    /\ ledger' = ledger \cup {Note("inspect_proof", Matching(Receipt))}
    /\ UNCHANGED <<stage, req, obs, cands, evidence, exhausted, output>>

Conclusive == Matching(Receipt) # {} /\ Receipt.verdict # "other"

\* The budget ends between the receipt and its freshness.
InspectWithoutFreshness ==
    /\ Inspects /\ Conclusive
    /\ FreshAllowed /\ calls + 1 >= req.maxTools
    /\ looked' = looked + 1 /\ calls' = calls + 1
    /\ ledger' = ledger \cup {Note("inspect_proof", Matching(Receipt))}
    /\ exhausted' = TRUE /\ stage' = "built"
    /\ UNCHANGED <<req, obs, cands, evidence, output>>

Proof(p, m) == [source |-> looked + 1, cands |-> {About(c) : c \in m},
                supports |-> Current(p) /\ p.verdict = "pass",
                contradicts |-> Current(p) /\ p.verdict = "fail"]

\* Defective variant: comparing freshness is not counted.
InspectUncounted ==
    /\ Inspects /\ Conclusive
    /\ FreshAllowed => calls + 1 < req.maxTools
    /\ looked' = looked + 1
    /\ calls' = calls + 1
    /\ cands' = Verified(Matching(Receipt))
    /\ evidence' = evidence \cup {Proof(Receipt, Matching(Receipt))}
    /\ ledger' = ledger \cup {Note("inspect_proof", Matching(Receipt))}
                        \cup (IF FreshAllowed THEN {Note("check_freshness", Matching(Receipt))} ELSE {})
    /\ UNCHANGED <<stage, req, obs, exhausted, output>>
InspectConclusive ==
    /\ Inspects /\ Conclusive
    /\ FreshAllowed => calls + 1 < req.maxTools
    /\ looked' = looked + 1
    /\ calls' = calls + (IF FreshAllowed THEN 2 ELSE 1)
    /\ cands' = Verified(Matching(Receipt))
    /\ evidence' = evidence \cup {Proof(Receipt, Matching(Receipt))}
    /\ ledger' = ledger \cup {Note("inspect_proof", Matching(Receipt))}
                        \cup (IF FreshAllowed THEN {Note("check_freshness", Matching(Receipt))} ELSE {})
    /\ UNCHANGED <<stage, req, obs, exhausted, output>>

AllInspected ==
    /\ stage = "verify" /\ looked = Len(req.proofs)
    /\ stage' = "built"
    /\ UNCHANGED <<req, obs, cands, evidence, ledger, looked, calls, exhausted, output>>

---------------------------------------------------------------------------
(* The result.                                                              *)

Supporting    == {e \in evidence : e.supports}
Contradicting == {e \in evidence : e.contradicts}
Status ==
    IF Supporting # {} THEN IF Contradicting # {} THEN "conflicted" ELSE "supported"
    ELSE IF Contradicting # {} THEN "unsupported" ELSE "unknown"
Answered == Status \in {"supported", "unsupported"}
StopReason ==
    CASE exhausted -> "budget_exhausted"
      [] ~exhausted /\ Answered -> "question_answered"
      [] ~exhausted /\ ~Answered /\ evidence # {} -> "unknown"
      [] OTHER -> "tool_unavailable"
CounterEvidence == {About(c) : c \in {c \in cands : c.type = "counter_evidence"}}
Unresolved ==
    (IF Answered THEN {} ELSE {"question"})
    \cup (CASE exhausted -> {"budget"}
            [] ~exhausted /\ evidence = {} -> {"no verification"}
            [] ~exhausted /\ evidence # {} -> IF Status = "conflicted" THEN {"conflict"} ELSE {})
RecordSources == {[id |-> i, run |-> req.records[i].run] : i \in Read}
Finding == [status |-> Status, evidence |-> evidence, counter |-> CounterEvidence, obs |-> obs]

Result ==
    [question |-> ExportedQuestion, runs |-> req.runs, sources |-> RecordSources,
     receipts |-> 1..looked, status |-> Status, obs |-> obs, cands |-> cands,
     evidence |-> evidence, finding |-> Finding, ledger |-> ledger, searched |-> Read,
     counter |-> CounterEvidence, unresolved |-> Unresolved, calls |-> calls, stop |-> StopReason]

---------------------------------------------------------------------------
(* _validate_result: what the parts of a result must say of one another.    *)

Statuses == {"supported", "partially_supported", "unsupported", "conflicted", "unknown"}
Abouts(r) == {About(c) : c \in r.cands}
ActualCounter(r) == {About(c) : c \in {c \in r.cands : c.type = "counter_evidence"}}

ObservationsSound(r) ==
    \A o \in r.obs :
        /\ o.type \in {"meta", "assistant", "reasoning", "call", "result", "sequence"}
        /\ o.sources # {}
CandidatesSound(r) ==
    \A c \in r.cands :
        /\ c.type \in {"agent_claim", "tool_observation", "command_observation", "counter_evidence"}
        /\ c.status \in {"unverified", "verified"}
        /\ c.obs \in r.obs
FindingSound(r) ==
    /\ r.finding.status = r.status /\ r.status \in Statuses
    /\ r.finding.counter = ActualCounter(r)
    /\ r.finding.obs \subseteq r.obs /\ r.finding.evidence \subseteq r.evidence
EvidenceBound(r) ==
    \A e \in r.evidence : e.cands # {} /\ e.cands \subseteq Abouts(r) /\ e.source \in r.receipts
\* _validate_verified_evidence with the records of bundle/validator.py
EvidenceFormed(r) ==
    /\ \A j, k \in r.receipts : req.proofs[j].id = req.proofs[k].id => j = k
    /\ \A e \in r.evidence : ~req.proofs[e.source].twice
StatusDerived(r) ==
    LET for == \E e \in r.evidence : e.supports
        against == \E e \in r.evidence : e.contradicts
    IN  /\ r.status = CASE for /\ against -> "conflicted"
                         [] for /\ ~against -> "supported"
                         [] ~for /\ against -> "unsupported"
                         [] ~for /\ ~against -> "unknown"
        /\ r.status = "unknown" => r.unresolved # {}
WithinBudgets(r) == r.calls <= req.maxTools /\ Cardinality(r.evidence) <= req.maxEvidence
SourcesBound(r) ==
    /\ r.runs # {} /\ \A s, t \in r.runs : s.id = t.id \/ s.run = t.run => s = t
    /\ {x.id : x \in r.sources} = r.searched /\ {x.run : x \in r.sources} \subseteq {s.run : s \in r.runs}
\* _reject_secret_like_stable_value, of the whole result
Exposes(r) ==
    \/ req.names = "secret" \/ r.question = "secret"
    \/ \E k \in r.receipts : req.proofs[k].secret = "file"
    \/ \E e \in r.evidence : req.proofs[e.source].secret = "record"
    \/ \E e \in r.ledger : e.question = "secret"
NothingExposed(r) == req.redacts => ~Exposes(r)
SourcesAreRead(r) ==
    /\ \A o \in r.obs : o.sources \subseteq r.searched
    /\ \A c \in r.cands : c.obs.sources \subseteq r.searched
VerificationEntries(r) == {e \in r.ledger : e.action \in {"inspect_proof", "check_freshness"}}
LedgerIsClosed(r) ==
    \A e \in r.ledger :
        /\ e.question = r.question
        /\ e.obs \subseteq r.obs /\ e.cands \subseteq Abouts(r)
        /\ e.action = "read_run_record" => e.inputs \subseteq r.searched
        /\ e.action = "record_observation" => \A o \in e.obs : e.inputs = o.sources
        /\ e.action = "propose_candidate" => e.inputs = e.cands
        /\ e.action = "check_freshness" => e.cands # {}
LedgerIsComplete(r) ==
    /\ UNION {e.inputs : e \in {e \in r.ledger : e.action = "read_run_record"}} = r.searched
    /\ Cardinality(VerificationEntries(r)) = r.calls
    /\ UNION {e.inputs : e \in VerificationEntries(r)} = r.receipts
    /\ \A e \in VerificationEntries(r) :
         (IF e.action = "inspect_proof" THEN "proof.inspect" ELSE "freshness.check") \in req.tools
StopIsNamed(r) == r.stop \in {"budget_exhausted", "tool_unavailable", "question_answered", "unknown"}
ClaimsHold(r) ==
    /\ PolicyAccepted
    /\ ObservationsSound(r) /\ CandidatesSound(r) /\ FindingSound(r)
    /\ EvidenceBound(r) /\ EvidenceFormed(r) /\ StatusDerived(r)
SearchHolds(r) ==
    /\ WithinBudgets(r) /\ SourcesBound(r) /\ NothingExposed(r)
    /\ r.counter = ActualCounter(r) /\ SourcesAreRead(r)
    /\ LedgerIsClosed(r) /\ LedgerIsComplete(r) /\ StopIsNamed(r)
ResultAcceptable(r) == ClaimsHold(r) /\ SearchHolds(r)
Valid == ResultAcceptable(Result)

\* write_investigation_result refuses a name that is taken and a result that is
\* not valid, and then moves a temporary file to the name.
CheckOutput ==
    /\ stage = "built"
    /\ stage' = IF output = "absent" /\ Valid THEN "write" ELSE "refused"
    /\ UNCHANGED <<req, obs, cands, evidence, ledger, looked, calls, exhausted, output>>

WriteResult ==
    /\ stage = "write" /\ stage' = "done" /\ output' = "own"
    /\ UNCHANGED <<req, obs, cands, evidence, ledger, looked, calls, exhausted>>

\* Another investigation, started meanwhile with the same output, is written.
OtherWrites ==
    /\ output = "absent" /\ output' = "other"
    /\ UNCHANGED <<stage, req, obs, cands, evidence, ledger, looked, calls, exhausted>>

InvestigateNext ==
    \/ Refuse \/ Observe \/ Propose \/ RecordReading \/ RefuseReceipts
    \/ StopInspecting \/ RefuseReceipt \/ InspectInconclusive
    \/ InspectWithoutFreshness \/ InspectConclusive \/ AllInspected
    \/ CheckOutput \/ WriteResult \/ OtherWrites

InvestigateSpec == InvestigateInit /\ [][InvestigateNext]_investigated
---------------------------------------------------------------------------
(* Properties.                                                              *)

\* Type invariant: positions, counters, and candidates of the five kinds.
InvestigationTypeOK ==
    /\ looked \in 0..Len(req.proofs) /\ calls \in 0..(2 * Len(req.proofs))
    /\ exhausted \in BOOLEAN /\ output \in {"absent", "own", "other"}
    /\ \A c \in cands :
         /\ c.type \in {"agent_claim", "command_observation", "counter_evidence", "tool_observation"}
         /\ c.status \in {"unverified", "verified"}

Built == stage \in {"built", "write", "done"}

\* The five cases in which the validator refuses what was built.  The record budget ends
\* between a result and the call it cites, imported later.
CutsALink ==
    \E i \in Read : /\ req.records[i].kind = "result" /\ req.records[i].link \notin Read \cup {0}
                    /\ Observation(i) \in obs
\* Two runs are declared under one source id.
SharesAnId == \E s, t \in req.runs : s.id = t.id /\ s # t
\* A receipt that gave evidence binds a path twice.
BindsTwice == \E e \in evidence : req.proofs[e.source].twice
\* A secret is to be redacted: the ledger's entries of receipts carry the question as it
\* was given, and receipts are taken over as they are.
NotesTheSecret == req.redacts /\ req.question = "secret" /\ looked > 0
ShowsAReceiptsSecret ==
    req.redacts /\ \/ \E k \in 1..looked : req.proofs[k].secret = "file"
                   \/ \E e \in evidence : req.proofs[e.source].secret = "record"

\* investigate_run builds a result that its own validator accepts, whatever the records,
\* the receipts and the budgets, in every case but these five, and in these it never
\* does: the command then ends with nothing written, for all that was investigated.
BuiltIsValid ==
    /\ InvestigationTypeOK
    /\ Built => (Valid <=> ~(\/ CutsALink \/ SharesAnId \/ BindsTwice
                            \/ NotesTheSecret \/ ShowsAReceiptsSecret))

\* A receipt's verdict on a command the investigation read.
Tells(k, verdict) ==
    /\ Current(req.proofs[k]) /\ req.proofs[k].verdict = verdict
    /\ \E i \in Read : req.records[i].kind = "call" /\ req.records[i].command = req.proofs[k].command

\* Only a receipt verifies: a verified candidate is a recorded call of the very
\* command of an inspected receipt, and evidence binds it; statements, results and
\* reasoning stay unverified.  "supported" rests on a current, passing receipt of a
\* command in the records read ("Missing, stale, unmatched, unauthorized, or
\* over-budget verification ... cannot produce a current `supported` Claim"), and
\* no receipt that was inspected says otherwise unless the result says that a
\* budget ended it before the receipt was compared.
SupportRestsOnReceipts ==
    /\ \A c \in cands : c.status = "verified" =>
         \E e \in evidence :
            /\ About(c) \in e.cands /\ e.source <= looked
            /\ \E i \in c.obs.sources : req.records[i].kind = "call"
                    /\ req.records[i].command = req.proofs[e.source].command
    /\ (Built /\ Status = "supported") =>
         /\ \E k \in 1..looked : Tells(k, "pass")
         /\ \A k \in 1..looked :
             (Tells(k, "fail") /\ Matching(req.proofs[k]) # {}) => StopReason = "budget_exhausted"

\* A question that counts as answered was answered from everything supplied:
\* all records were read, all receipts inspected, and when nothing was filtered
\* no receipt speaks for the other side.
AnsweredFromAll ==
    (Built /\ StopReason = "question_answered") =>
        /\ Read = DOMAIN req.records /\ looked = Len(req.proofs)
        /\ ~req.filter =>
             ~ \E k, l \in DOMAIN req.proofs : Tells(k, "pass") /\ Tells(l, "fail")

\* A failure in a record that was read is disclosed as counter-evidence, unless
\* the words of the request leave it out or the result says that a budget ended it.
FailuresAreDisclosed ==
    (Built /\ ~req.filter /\ StopReason # "budget_exhausted") =>
        \A i \in Read : (req.records[i].kind = "result" /\ req.records[i].fails) =>
            \E o \in CounterEvidence : i \in o.sources

\* What an answer rests on is a receipt, everything supplied was looked at, and no
\* failure is left out.
AnswersAreEarned == SupportRestsOnReceipts /\ AnsweredFromAll /\ FailuresAreDisclosed
=============================================================================
