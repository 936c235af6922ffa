--------------------------- MODULE EvidenceBundle ---------------------------
(***************************************************************************)
(* The Portable Evidence Bundle (bundle/): which records a bundle has, how *)
(* the compiler selects and redacts them for one question, and what        *)
(* validate_bundle asks of them.                                           *)
(*                                                                         *)
(* A bundle is a record of its collections; a collection is a function     *)
(* from identifiers to records, so identifiers are unique.  A Blob is its  *)
(* own content address: a reference, a hash and a length are the Blob they *)
(* were taken from.  Wording, timestamps and the JSON shapes are left out; *)
(* of the text that is redacted a Blob and a path are told apart, as the   *)
(* rules of the validator are about no other.                              *)
(***************************************************************************)
EXTENDS Naturals, Sequences, FiniteSetsExt

CONSTANTS
    None,
    RecordIds,   \* identifiers of records
    FilePaths,   \* paths of files
    Clean,       \* Clean[blob]: the Blob with its secrets redacted; None: not text
    CleanPath,   \* CleanPath[path]: the path with its secrets redacted
    Size,        \* Size[blob]: its bytes; "[REDACTED]" may be longer than a secret
    SecretIds    \* identifiers that hold what looks like a secret

Blobs == DOMAIN Clean

\* redact_text: what was redacted is text, and has nothing left to redact.
ASSUME CleanAssumption ==
    /\ \A blob \in Blobs : Clean[blob] # None =>
          Clean[blob] \in Blobs /\ Clean[Clean[blob]] = Clean[blob]
    /\ CleanPath \in [FilePaths -> FilePaths]
    /\ \A path \in FilePaths : CleanPath[CleanPath[path]] = CleanPath[path]
    /\ None \notin FilePaths
    /\ Size \in [Blobs -> Nat]

---------------------------------------------------------------------------
(* The records.                                                             *)

Statuses == {"supported", "partially_supported", "unsupported", "conflicted", "unknown"}
\* "changed" stands for the three statuses of evidence whose surroundings changed.
Freshness == {"current", "changed", "unknown"}
Strengths == <<"context_only", "observed", "corroborated", "reproduced">>
Rank(strength) == CHOOSE n \in DOMAIN Strengths : Strengths[n] = strength
Proofs == {"command_receipt", "test_result"}
Kinds == Proofs \cup {"run_observation", "authority_fact", "file_fact"}
ReadingTools == {"read_file", "inspect_git", "inspect_proof", "check_freshness",
                 "execute_authorized_command"}
ToolActions == ReadingTools \cup {"read_run_record"}

Notes == SUBSET {"limitation", "action"}

ClaimRecord ==
    [status : Statuses, basis : {"reproduced", "other"}, evidence : SUBSET RecordIds,
     counter : SUBSET RecordIds, observations : SUBSET RecordIds, notes : Notes]

EvidenceRecord ==
    [kind : Kinds, strength : {Strengths[n] : n \in DOMAIN Strengths}, fresh : Freshness,
     sources : (SUBSET RecordIds) \ {{}}, supports : SUBSET RecordIds, contradicts : SUBSET RecordIds,
     paths : SUBSET FilePaths, command : BOOLEAN, notes : Notes,
     blob : [ref : Blobs, hash : Blobs, bytes : Blobs] \cup {None}]

ObservationRecord ==
    [type : {"agent_statement", "agent_reasoning"}, sources : (SUBSET RecordIds) \ {{}}, notes : Notes,
     words : 1..2]

SourceRecord ==
    [type : {"run_record", "file", "proof_receipt", "user_instruction"}, path : FilePaths \cup {None},
     blob : [ref : Blobs, hash : Blobs \cup {None}] \cup {None}]

DiagnosticRecord == [observations : SUBSET RecordIds, evidence : SUBSET RecordIds]

ConflictRecord == [evidence : {S \in SUBSET RecordIds : Cardinality(S) >= 2}, open : BOOLEAN]

\* hypothesis: "primary", "competing" or None; words: which explanation it gives.
LedgerRecord ==
    {e \in [action : ToolActions \cup {"record_observation", "propose_candidate"},
            tool : {"run.read", "other", None}, input : RecordIds \cup {None},
            output : RecordIds \cup {None}, hypothesis : {"primary", "competing", None},
            observations : SUBSET RecordIds, candidates : SUBSET RecordIds, words : 1..2] :
        /\ e.action \in {"read_run_record", "read_file"} => e.input # None
        /\ e.action = "propose_candidate" => e.candidates # {}}

\* Five budgets (blobs: in bytes); prefix: the recorded commands begin with an allowed
\* prefix, redacted or not.
PolicyRecord ==
    {p \in [allowed : SUBSET {"run.read", "other"}, denied : SUBSET {"run.read", "other"},
            calls : Nat, candidates : Nat, evidence : Nat, records : Nat, blobs : Nat,
            execution : BOOLEAN, prefix : BOOLEAN,
            allowedPaths : SUBSET FilePaths, deniedPaths : SUBSET FilePaths,
            redact : BOOLEAN, reasoning : BOOLEAN, raw : BOOLEAN,
            competing : BOOLEAN, search : BOOLEAN] :
        p.allowed \cap p.denied = {}}

\* Each record is well formed by itself; what it refers to need not be there.
WellFormedRecords(b) ==
    /\ DOMAIN b = {"claims", "evidence", "observations", "sources", "conflicts", "diagnostics",
                   "ledger", "blobs", "policy", "index"}
    /\ \A c \in DOMAIN b.claims : b.claims[c] \in ClaimRecord
    /\ \A e \in DOMAIN b.evidence : b.evidence[e] \in EvidenceRecord
    /\ \A o \in DOMAIN b.observations : b.observations[o] \in ObservationRecord
    /\ \A s \in DOMAIN b.sources : b.sources[s] \in SourceRecord
    /\ \A k \in DOMAIN b.conflicts : b.conflicts[k] \in ConflictRecord
    /\ b.diagnostics \subseteq DiagnosticRecord
    /\ b.ledger \in Seq(LedgerRecord)
    /\ b.blobs \subseteq Blobs /\ IsFiniteSet(b.blobs)
    /\ b.policy \in PolicyRecord

IndexOf(b) ==
    [claims |-> DOMAIN b.claims, evidence |-> DOMAIN b.evidence,
     observations |-> DOMAIN b.observations]

---------------------------------------------------------------------------
(* validate_bundle.                                                         *)

Entries(b) == {b.ledger[n] : n \in DOMAIN b.ledger}

\* _validate_policy_semantics, one rule at a time.
ToolsAllowed(b) ==
    \A e \in Entries(b) :
        /\ e.action \in ToolActions =>
             e.tool # None /\ e.tool \in b.policy.allowed \ b.policy.denied
        /\ e.action = "read_run_record" =>
             /\ e.tool = "run.read"
             /\ e.input \in DOMAIN b.sources /\ b.sources[e.input].type = "run_record"
        /\ e.action = "execute_authorized_command" =>
             /\ b.policy.execution /\ b.policy.prefix
             /\ e.output \in DOMAIN b.evidence /\ b.evidence[e.output].command

AlternativesSearched(b) ==
    LET competing == {e \in Entries(b) : e.hypothesis = "competing"}
    IN  /\ b.policy.competing => competing # {}
        /\ b.policy.search => \E e \in competing : e.action \in ToolActions

PathsAllowed(b) ==
    \A e \in Entries(b) : e.action = "read_file" =>
        /\ e.input \in DOMAIN b.sources
        /\ LET path == b.sources[e.input].path
           IN  /\ path # None /\ path \notin b.policy.deniedPaths
               /\ b.policy.allowedPaths # {} => path \in b.policy.allowedPaths

PrivacyKept(b) ==
    /\ b.policy.reasoning \/ \A o \in DOMAIN b.observations :
                                b.observations[o].type # "agent_reasoning"
    /\ b.policy.raw \/ \A e \in DOMAIN b.evidence :
                          b.evidence[e].kind \in Proofs => b.evidence[e].blob = None

Strong(e) == Rank(e.strength) >= Rank("corroborated")

Grounded(b) ==
    /\ \A id \in DOMAIN b.evidence : LET e == b.evidence[id] IN
        /\ e.kind = "run_observation" => Rank(e.strength) <= Rank("observed")
        /\ e.strength = "reproduced" =>
             /\ e.kind \in Proofs /\ e.command
             /\ \E s \in e.sources \cap DOMAIN b.sources : b.sources[s].type = "proof_receipt"
    /\ \A id \in DOMAIN b.claims :
        LET c == b.claims[id]
            current == {e \in c.evidence : b.evidence[e].fresh = "current" /\ Strong(b.evidence[e])}
        IN  /\ c.evidence \subseteq DOMAIN b.evidence
            /\ c.status = "supported" => current # {}
            /\ c.basis = "reproduced" => \E e \in current : b.evidence[e].strength = "reproduced"

\* The bytes of the Blobs, and the budget they may use.
BlobBytes(b) == MapThenSumSet(LAMBDA blob : Size[blob], b.blobs)
BlobsFit(b) == BlobBytes(b) <= b.policy.blobs

WithinBudgets(b) ==
    /\ Cardinality(UNION {e.candidates : e \in Entries(b)}) <= b.policy.candidates
    /\ Cardinality(DOMAIN b.evidence) <= b.policy.evidence
    /\ Cardinality({e.input : e \in {f \in Entries(b) : f.action = "read_run_record"}})
         <= b.policy.records
    /\ Cardinality({n \in DOMAIN b.ledger : b.ledger[n].action \in ReadingTools}) <= b.policy.calls
    /\ BlobsFit(b)

ReferencesResolve(b) ==
    LET claims == DOMAIN b.claims
        evidence == DOMAIN b.evidence
        observations == DOMAIN b.observations
        sources == DOMAIN b.sources
    IN  /\ b.index = IndexOf(b)
        /\ \A c \in claims : /\ b.claims[c].evidence \cup b.claims[c].counter \subseteq evidence
                             /\ b.claims[c].observations \subseteq observations
        /\ \A e \in evidence : /\ b.evidence[e].sources \subseteq sources
                               /\ b.evidence[e].supports \cup b.evidence[e].contradicts \subseteq claims
        /\ \A o \in observations : b.observations[o].sources \subseteq sources
        /\ \A d \in b.diagnostics : d.observations \subseteq observations /\ d.evidence \subseteq evidence
        /\ \A k \in DOMAIN b.conflicts : b.conflicts[k].evidence \subseteq evidence
        /\ \A l \in Entries(b) :
             /\ l.observations \subseteq observations
             /\ l.input # None => l.input \in sources
             /\ l.output # None => l.output \in sources \cup evidence \cup observations

Supporting(b, c) == {e \in DOMAIN b.evidence : c \in b.evidence[e].supports}
Contradicting(b, c) == {e \in DOMAIN b.evidence : c \in b.evidence[e].contradicts}

CounterEvidenceComplete(b) ==
    \A id \in DOMAIN b.claims : LET c == b.claims[id] IN
        /\ c.evidence = Supporting(b, id)
        /\ c.counter = Contradicting(b, id)
        /\ c.status = "conflicted" =>
             /\ c.counter # {}
             /\ \E k \in DOMAIN b.conflicts :
                  b.conflicts[k].open /\ c.evidence \cup c.counter \subseteq b.conflicts[k].evidence

\* validate_blobs
BlobsMatch(b) ==
    /\ \A e \in DOMAIN b.evidence : LET blob == b.evidence[e].blob IN
        blob # None => blob.ref \in b.blobs /\ blob.hash = blob.ref /\ blob.bytes = blob.ref
    /\ \A s \in DOMAIN b.sources : LET blob == b.sources[s].blob IN
        blob # None => blob.ref \in b.blobs /\ blob.hash = blob.ref

Valid(b) ==
    /\ ToolsAllowed(b) /\ AlternativesSearched(b) /\ PathsAllowed(b) /\ PrivacyKept(b)
    /\ Grounded(b) /\ WithinBudgets(b)
    /\ BlobsMatch(b) /\ ReferencesResolve(b) /\ CounterEvidenceComplete(b)

---------------------------------------------------------------------------
(* The compiler.                                                            *)

Restricted(f, S) == [x \in DOMAIN f \cap S |-> f[x]]

\* Defective variant: only the evidence a claim names itself.
EvidenceNamed(p, claims) ==
    UNION {p.claims[c].evidence \cup p.claims[c].counter : c \in claims}
\* The evidence the claims name, and the evidence that names the claims.
EvidenceFor(p, claims) ==
    (UNION {p.claims[c].evidence \cup p.claims[c].counter : c \in claims})
        \cup (UNION {Supporting(p, c) \cup Contradicting(p, c) : c \in claims})

ObservationsFor(p, claims) == UNION {p.claims[c].observations : c \in claims}

SourcesFor(p, ev, obs) ==
    (UNION {p.evidence[e].sources : e \in ev \cap DOMAIN p.evidence})
        \cup (UNION {p.observations[o].sources : o \in obs \cap DOMAIN p.observations})

\* select_records; `claims` is None for all of them.
LedgerFor(p, claims, ev, obs, src) ==
    IF claims = None THEN p.ledger
    ELSE SelectSeq(p.ledger, LAMBDA l : \/ l.observations \cap obs # {}
                                        \/ l.input \in src
                                        \/ l.output \in ev \cup obs \cup src)

\* Every reference followed is to a record that is there.
Selectable(p, claims) ==
    LET chosen == IF claims = None THEN DOMAIN p.claims ELSE claims
    IN  /\ chosen \subseteq DOMAIN p.claims
        /\ EvidenceFor(p, chosen) \subseteq DOMAIN p.evidence
        /\ ObservationsFor(p, chosen) \subseteq DOMAIN p.observations
        /\ SourcesFor(p, EvidenceFor(p, chosen), ObservationsFor(p, chosen)) \subseteq DOMAIN p.sources
        /\ claims = None => {l.input : l \in Entries(p)} \ {None} \subseteq DOMAIN p.sources

Select(p, claims) ==
    LET chosen == IF claims = None THEN DOMAIN p.claims ELSE claims
        ev == EvidenceFor(p, chosen)
        obs == ObservationsFor(p, chosen)
        src == SourcesFor(p, ev, obs)
        ledger == LedgerFor(p, claims, ev, obs, src)
        inputs == IF claims = None THEN {l.input : l \in Entries(p)} ELSE {}
    IN  [p EXCEPT
            !.claims = Restricted(p.claims, chosen),
            !.evidence = Restricted(p.evidence, ev),
            !.observations = Restricted(p.observations, obs),
            !.sources = Restricted(p.sources, src \cup inputs),
            !.conflicts = Restricted(p.conflicts, {k \in DOMAIN p.conflicts :
                                                      p.conflicts[k].evidence \subseteq ev}),
            !.diagnostics = {d \in p.diagnostics : d.observations \cap obs # {}
                                                     \/ d.evidence \cap ev # {}},
            !.ledger = ledger]

\* referenced_blob_paths, and _selected_blobs: what is referenced and nothing else.
BlobRefs(b) ==
    {b.evidence[e].blob.ref : e \in {x \in DOMAIN b.evidence : b.evidence[x].blob # None}}
        \cup {b.sources[s].blob.ref : s \in {x \in DOMAIN b.sources : b.sources[x].blob # None}}
WithBlobs(b) == [b EXCEPT !.blobs = BlobRefs(b)]

\* The identifiers in the reference fields of the records.
Names(b) ==
    UNION {DOMAIN b.claims, DOMAIN b.evidence, DOMAIN b.observations, DOMAIN b.sources, DOMAIN b.conflicts,
           UNION {b.claims[c].evidence \cup b.claims[c].counter \cup b.claims[c].observations :
                      c \in DOMAIN b.claims},
           UNION {b.evidence[e].sources \cup b.evidence[e].supports \cup b.evidence[e].contradicts :
                      e \in DOMAIN b.evidence},
           UNION {b.observations[o].sources : o \in DOMAIN b.observations},
           UNION {b.conflicts[k].evidence : k \in DOMAIN b.conflicts},
           UNION {d.observations \cup d.evidence : d \in b.diagnostics},
           UNION {l.observations \cup l.candidates \cup {l.input, l.output} : l \in Entries(b)} \ {None}}

\* A Blob that is not text cannot be redacted, and a reference must not be.
Redactable(b) ==
    /\ \A blob \in b.blobs : Clean[blob] # None
    /\ Names(b) \cap SecretIds = {}

\* Defective variant: the reference is replaced, the hash is the old one.
RebindReference(blob) == IF blob = None THEN None ELSE [blob EXCEPT !.ref = Clean[@]]
\* _replace_blob_bindings, for one record
Rebind(blob) ==
    IF blob = None THEN None
    ELSE [field \in DOMAIN blob |-> Clean[blob.ref]]

\* _redact_value of one record
RedactEvidence(e) ==
    [e EXCEPT !.blob = Rebind(e.blob), !.paths = {CleanPath[path] : path \in e.paths}]
RedactSource(s) ==
    [s EXCEPT !.blob = Rebind(s.blob), !.path = IF s.path = None THEN None ELSE CleanPath[s.path]]

\* redact_bundle_material
Redact(b) ==
    [b EXCEPT !.blobs = {Clean[blob] : blob \in b.blobs},
              !.evidence = [e \in DOMAIN b.evidence |-> RedactEvidence(b.evidence[e])],
              !.sources = [s \in DOMAIN b.sources |-> RedactSource(b.sources[s])]]

Indexed(b) == [b EXCEPT !.index = IndexOf(b)]
=============================================================================
