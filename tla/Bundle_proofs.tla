---------------------------- MODULE Bundle_proofs ----------------------------
(***************************************************************************)
(* Proofs about the Portable Evidence Bundle, for any investigation records*)
(* that are well formed, any number of compilers, deaths, edits and reviews*)
(* and about the improvements that start from a bundle.                    *)
(*                                                                         *)
(* What `validate_bundle` checks of a directory it checks against the      *)
(* directory; that it says something of the investigation rests on what    *)
(* the compiler writes: every record is the investigation's own but for its*)
(* Blobs, and a Claim has all the evidence about it with it (Drawn).       *)
(* Redaction changes Blobs and paths and no other field (Alike), and       *)
(* rewrites all the bindings of a Blob alike.                              *)
(*                                                                         *)
(* `verify` believes three files: the candidate, its contract, the proof.  *)
(* That a verified improvement was accepted rests on there being no other  *)
(* way into candidate.json than a `validate` that accepted what it writes  *)
(* (AcceptedOnly).  That it was proved by its own plan rests on the        *)
(* contract being written right after the candidate, by a command nothing  *)
(* has killed (Matching).  That no finding is lost on the way into an issue*)
(* rests on the order of the issues being total (PlacesAreRanks).          *)
(***************************************************************************)
EXTENDS MC_Bundle, FiniteSetTheorems, TLAPS

---------------------------------------------------------------------------
(* Redaction.                                                               *)

Fields == {"claims", "evidence", "observations", "sources", "conflicts", "diagnostics",
           "ledger", "blobs", "policy", "index"}

\* r has the records of b, but for the Blobs they are bound to and their paths.
Alike(b, r) ==
    /\ r.claims = b.claims /\ r.observations = b.observations /\ r.conflicts = b.conflicts
    /\ r.diagnostics = b.diagnostics /\ r.ledger = b.ledger /\ r.policy = b.policy
    /\ r.index = b.index
    /\ DOMAIN r.evidence = DOMAIN b.evidence
    /\ \A e \in DOMAIN b.evidence :
         /\ r.evidence[e].kind = b.evidence[e].kind
         /\ r.evidence[e].strength = b.evidence[e].strength
         /\ r.evidence[e].fresh = b.evidence[e].fresh
         /\ r.evidence[e].sources = b.evidence[e].sources
         /\ r.evidence[e].supports = b.evidence[e].supports
         /\ r.evidence[e].contradicts = b.evidence[e].contradicts
         /\ r.evidence[e].command = b.evidence[e].command
         /\ b.evidence[e].blob = None => r.evidence[e].blob = None
    /\ DOMAIN r.sources = DOMAIN b.sources
    /\ \A s \in DOMAIN b.sources :
         r.sources[s].type = b.sources[s].type

\* What is well formed enough to be redacted.
Redacting(b) ==
    /\ DOMAIN b = Fields
    /\ \A e \in DOMAIN b.evidence : b.evidence[e] \in EvidenceRecord
    /\ \A s \in DOMAIN b.sources : b.sources[s] \in SourceRecord

LEMMA RedactedFields ==
  ASSUME NEW b, Redacting(b)
  PROVE  /\ DOMAIN Redact(b) = DOMAIN b
         /\ Redact(b).blobs = {Clean[blob] : blob \in b.blobs}
         /\ DOMAIN Redact(b).evidence = DOMAIN b.evidence
         /\ \A e \in DOMAIN b.evidence :
              Redact(b).evidence[e] = RedactEvidence(b.evidence[e])
         /\ DOMAIN Redact(b).sources = DOMAIN b.sources
         /\ \A s \in DOMAIN b.sources :
              Redact(b).sources[s] = RedactSource(b.sources[s])
         /\ Redact(b).claims = b.claims /\ Redact(b).observations = b.observations
         /\ Redact(b).conflicts = b.conflicts /\ Redact(b).diagnostics = b.diagnostics
         /\ Redact(b).ledger = b.ledger /\ Redact(b).policy = b.policy
         /\ Redact(b).index = b.index
BY DEF Redact, Redacting, Fields

LEMMA RedactedEvidence ==
  ASSUME NEW b, Redacting(b), NEW e \in DOMAIN b.evidence
  PROVE  LET old == b.evidence[e]
             new == Redact(b).evidence[e]
         IN  /\ new.kind = old.kind /\ new.strength = old.strength /\ new.fresh = old.fresh
             /\ new.sources = old.sources /\ new.supports = old.supports
             /\ new.contradicts = old.contradicts /\ new.command = old.command
             /\ new.blob = Rebind(old.blob) /\ (old.blob = None => new.blob = None)
<1>1. Redact(b).evidence[e] = RedactEvidence(b.evidence[e])
  BY RedactedFields
<1>2. b.evidence[e] \in EvidenceRecord
  BY DEF Redacting
<1>3. b.evidence[e].blob = None => Rebind(b.evidence[e].blob) = None
  BY DEF Rebind
<1> QED BY <1>1, <1>2, <1>3 DEF EvidenceRecord, RedactEvidence

LEMMA RedactedSources ==
  ASSUME NEW b, Redacting(b), NEW s \in DOMAIN b.sources
  PROVE  LET old == b.sources[s]
             new == Redact(b).sources[s]
         IN  /\ new.type = old.type
             /\ new.path = IF old.path = None THEN None ELSE CleanPath[old.path]
             /\ new.blob = Rebind(old.blob) /\ (old.blob = None => new.blob = None)
<1>1. Redact(b).sources[s] = RedactSource(b.sources[s])
  BY RedactedFields
<1>2. b.sources[s] \in SourceRecord
  BY DEF Redacting
<1>3. b.sources[s].blob = None => Rebind(b.sources[s].blob) = None
  BY DEF Rebind
<1> QED BY <1>1, <1>2, <1>3 DEF SourceRecord, RedactSource

LEMMA IndexedFields ==
  ASSUME NEW b, Fields = DOMAIN b
  PROVE  /\ DOMAIN Indexed(b) = DOMAIN b
         /\ Indexed(b).index = IndexOf(b)
         /\ Indexed(b).claims = b.claims /\ Indexed(b).observations = b.observations
         /\ Indexed(b).conflicts = b.conflicts /\ Indexed(b).diagnostics = b.diagnostics
         /\ Indexed(b).ledger = b.ledger /\ Indexed(b).policy = b.policy
         /\ Indexed(b).evidence = b.evidence /\ Indexed(b).sources = b.sources
         /\ Indexed(b).blobs = b.blobs
BY DEF Indexed, Fields

\* Redaction and the new index leave the records alike.
LEMMA RedactionIsAlike ==
  ASSUME NEW b, Redacting(b)
  PROVE  Alike(Indexed(b), Indexed(Redact(b)))
<1> DEFINE i == Indexed(b)
           r == Indexed(Redact(b))
<1>1. /\ i.index = IndexOf(b) /\ i.claims = b.claims /\ i.observations = b.observations
      /\ i.conflicts = b.conflicts /\ i.diagnostics = b.diagnostics /\ i.ledger = b.ledger
      /\ i.policy = b.policy /\ i.evidence = b.evidence /\ i.sources = b.sources
  BY IndexedFields DEF Redacting
<1>2. /\ r.index = IndexOf(Redact(b)) /\ r.claims = b.claims
      /\ r.observations = b.observations
      /\ r.conflicts = b.conflicts /\ r.diagnostics = b.diagnostics /\ r.ledger = b.ledger
      /\ r.policy = b.policy
      /\ r.evidence = Redact(b).evidence /\ r.sources = Redact(b).sources
  <2>1. DOMAIN Redact(b) = DOMAIN b
    BY RedactedFields
  <2> QED BY <2>1, IndexedFields, RedactedFields DEF Redacting
<1>3. DOMAIN r.evidence = DOMAIN b.evidence /\ DOMAIN r.sources = DOMAIN b.sources
  BY <1>2, RedactedFields
<1>4. r.index = i.index
  BY <1>1, <1>2, <1>3, RedactedFields DEF IndexOf
<1>5. ASSUME NEW e \in DOMAIN b.evidence
      PROVE  /\ r.evidence[e].kind = b.evidence[e].kind
             /\ r.evidence[e].strength = b.evidence[e].strength
             /\ r.evidence[e].fresh = b.evidence[e].fresh
             /\ r.evidence[e].sources = b.evidence[e].sources
             /\ r.evidence[e].supports = b.evidence[e].supports
             /\ r.evidence[e].contradicts = b.evidence[e].contradicts
             /\ r.evidence[e].command = b.evidence[e].command
             /\ b.evidence[e].blob = None => r.evidence[e].blob = None
  BY <1>2, RedactedEvidence
<1>6. ASSUME NEW s \in DOMAIN b.sources
      PROVE  r.sources[s].type = b.sources[s].type
  BY <1>2, RedactedSources
<1> HIDE DEF i, r
<1>7. Alike(i, r)
  <2>1. /\ r.claims = i.claims /\ r.observations = i.observations /\ r.conflicts = i.conflicts
        /\ r.diagnostics = i.diagnostics /\ r.ledger = i.ledger /\ r.policy = i.policy
        /\ r.index = i.index
    BY <1>1, <1>2, <1>4
  <2>2. DOMAIN r.evidence = DOMAIN i.evidence /\ DOMAIN r.sources = DOMAIN i.sources
    BY <1>1, <1>3
  <2>3. i.evidence = b.evidence /\ i.sources = b.sources
    BY <1>1
  <2> QED BY <2>1, <2>2, <2>3, <1>5, <1>6 DEF Alike
<1> QED BY <1>7 DEF i, r

\* Everything validate_bundle asks of records but for their Blobs and paths is kept.
LEMMA AlikeKeeps ==
  ASSUME NEW b, NEW r, Alike(b, r)
  PROVE  /\ ToolsAllowed(b) => ToolsAllowed(r)
         /\ AlternativesSearched(b) => AlternativesSearched(r)
         /\ PrivacyKept(b) => PrivacyKept(r)
         /\ Grounded(b) => Grounded(r)
         /\ ReferencesResolve(b) => ReferencesResolve(r)
         /\ CounterEvidenceComplete(b) => CounterEvidenceComplete(r)
<1>1. Entries(r) = Entries(b)
  BY DEF Alike, Entries
<1>2. ToolsAllowed(b) => ToolsAllowed(r)
  BY <1>1 DEF Alike, ToolsAllowed
<1>3. AlternativesSearched(b) => AlternativesSearched(r)
  BY <1>1 DEF Alike, AlternativesSearched
<1>5. PrivacyKept(b) => PrivacyKept(r)
  BY DEF Alike, PrivacyKept
<1>6. ASSUME Grounded(b) PROVE Grounded(r)
  <2>1. ASSUME NEW e \in DOMAIN r.evidence
        PROVE  /\ r.evidence[e].kind = "run_observation" =>
                    Rank(r.evidence[e].strength) <= Rank("observed")
               /\ r.evidence[e].strength = "reproduced" =>
                    /\ r.evidence[e].kind \in Proofs /\ r.evidence[e].command
                    /\ \E s \in r.evidence[e].sources \cap DOMAIN r.sources :
                          r.sources[s].type = "proof_receipt"
    BY <1>6 DEF Alike, Grounded
  <2>2. ASSUME NEW c \in DOMAIN r.claims
        PROVE  LET claim == r.claims[c]
                   current == {e \in claim.evidence :
                                 r.evidence[e].fresh = "current" /\ Strong(r.evidence[e])}
               IN  /\ claim.evidence \subseteq DOMAIN r.evidence
                   /\ claim.status = "supported" => current # {}
                   /\ claim.basis = "reproduced" =>
                        \E e \in current : r.evidence[e].strength = "reproduced"
    <3>1. c \in DOMAIN b.claims /\ r.claims[c] = b.claims[c]
      BY DEF Alike
    <3>2. b.claims[c].evidence \subseteq DOMAIN b.evidence
      BY <1>6, <3>1 DEF Grounded
    <3>3. \A e \in b.claims[c].evidence :
             /\ r.evidence[e].fresh = b.evidence[e].fresh
             /\ r.evidence[e].strength = b.evidence[e].strength
             /\ Strong(r.evidence[e]) <=> Strong(b.evidence[e])
      BY <3>2 DEF Alike, Strong
    <3> QED BY <1>6, <3>1, <3>2, <3>3 DEF Alike, Grounded
  <2> QED BY <2>1, <2>2 DEF Grounded
<1>7. ReferencesResolve(b) => ReferencesResolve(r)
  BY <1>1 DEF Alike, ReferencesResolve, IndexOf
<1>8. ASSUME CounterEvidenceComplete(b) PROVE CounterEvidenceComplete(r)
  <2>1. ASSUME NEW c PROVE Supporting(r, c) = Supporting(b, c) /\ Contradicting(r, c) = Contradicting(b, c)
    BY DEF Alike, Supporting, Contradicting
  <2> QED BY <1>8, <2>1 DEF Alike, CounterEvidenceComplete
<1> QED BY <1>2, <1>3, <1>5, <1>6, <1>7, <1>8

\* Of the budgets only that of the Blobs can be passed by redaction.
LEMMA BudgetsKept ==
  ASSUME NEW b, NEW r, Alike(b, r), WithinBudgets(b), BlobsFit(r)
  PROVE  WithinBudgets(r)
<1>1. Entries(r) = Entries(b)
  BY DEF Alike, Entries
<1> QED BY <1>1 DEF Alike, WithinBudgets

\* No reference is redacted.
LEMMA NamesStay ==
  ASSUME NEW b, NEW r, Alike(b, r)
  PROVE  Names(r) = Names(b)
<1>1. Entries(r) = Entries(b)
  BY DEF Alike, Entries
<1>2. UNION {r.evidence[e].sources \cup r.evidence[e].supports \cup r.evidence[e].contradicts :
                e \in DOMAIN r.evidence}
        = UNION {b.evidence[e].sources \cup b.evidence[e].supports \cup b.evidence[e].contradicts :
                     e \in DOMAIN b.evidence}
  BY DEF Alike
<1> QED BY <1>1, <1>2 DEF Alike, Names

\* Every binding is that of the new Blob.
LEMMA BlobsRebound ==
  ASSUME NEW b, Redacting(b), BlobsMatch(Indexed(b))
  PROVE  BlobsMatch(Indexed(Redact(b)))
<1> DEFINE r == Indexed(Redact(b))
<1>1. /\ r.blobs = {Clean[blob] : blob \in b.blobs}
      /\ r.evidence = Redact(b).evidence /\ r.sources = Redact(b).sources
      /\ DOMAIN r.evidence = DOMAIN b.evidence /\ DOMAIN r.sources = DOMAIN b.sources
  BY IndexedFields, RedactedFields DEF Redacting
<1>2. /\ \A e \in DOMAIN b.evidence : b.evidence[e].blob # None => b.evidence[e].blob.ref \in b.blobs
      /\ \A s \in DOMAIN b.sources : b.sources[s].blob # None => b.sources[s].blob.ref \in b.blobs
  BY IndexedFields DEF Redacting, BlobsMatch
<1>3. ASSUME NEW e \in DOMAIN b.evidence, r.evidence[e].blob # None
      PROVE  LET blob == r.evidence[e].blob
             IN  blob.ref \in r.blobs /\ blob.hash = blob.ref /\ blob.bytes = blob.ref
  <2>1. r.evidence[e].blob = Rebind(b.evidence[e].blob)
        /\ (b.evidence[e].blob = None => r.evidence[e].blob = None)
    BY <1>1, RedactedEvidence
  <2>2. b.evidence[e].blob # None /\ b.evidence[e].blob \in [ref : Blobs, hash : Blobs, bytes : Blobs]
    BY <1>3, <2>1 DEF Redacting, EvidenceRecord
  <2>3. r.evidence[e].blob = [field \in {"ref", "hash", "bytes"} |-> Clean[b.evidence[e].blob.ref]]
    BY <2>1, <2>2 DEF Rebind
  <2> QED BY <1>1, <1>2, <2>2, <2>3
<1>4. ASSUME NEW s \in DOMAIN b.sources, r.sources[s].blob # None
      PROVE  LET blob == r.sources[s].blob IN blob.ref \in r.blobs /\ blob.hash = blob.ref
  <2>1. r.sources[s].blob = Rebind(b.sources[s].blob)
        /\ (b.sources[s].blob = None => r.sources[s].blob = None)
    BY <1>1, RedactedSources
  <2>2. b.sources[s].blob # None /\ b.sources[s].blob \in [ref : Blobs, hash : Blobs \cup {None}]
    BY <1>4, <2>1 DEF Redacting, SourceRecord
  <2>3. r.sources[s].blob = [field \in {"ref", "hash"} |-> Clean[b.sources[s].blob.ref]]
    BY <2>1, <2>2 DEF Rebind
  <2> QED BY <1>1, <1>2, <2>2, <2>3
<1> HIDE DEF r
<1>5. BlobsMatch(r)
  BY <1>1, <1>3, <1>4 DEF BlobsMatch
<1> QED BY <1>5 DEF r

\* A bundle that validates still does when it is redacted, if the Blobs fit and the
\* paths are allowed.
LEMMA RedactionKeepsValid ==
  ASSUME NEW b, Redacting(b), Valid(Indexed(b))
  PROVE  Valid(Indexed(Redact(b)))
           <=> BlobsFit(Indexed(Redact(b))) /\ PathsAllowed(Indexed(Redact(b)))
<1>1. Alike(Indexed(b), Indexed(Redact(b)))
  BY RedactionIsAlike
<1>2. BlobsMatch(Indexed(Redact(b)))
  BY BlobsRebound DEF Valid
<1> DEFINE i == Indexed(b)
           r == Indexed(Redact(b))
<1>3. Valid(i) /\ Alike(i, r) /\ BlobsMatch(r)
  BY <1>1, <1>2
<1> HIDE DEF i, r
<1>4. ASSUME BlobsFit(r), PathsAllowed(r) PROVE Valid(r)
  BY <1>3, <1>4, AlikeKeeps, BudgetsKept DEF Valid
<1>5. Valid(r) => BlobsFit(r) /\ PathsAllowed(r)
  BY DEF Valid, WithinBudgets
<1> QED BY <1>4, <1>5 DEF r

---------------------------------------------------------------------------
(* Selection.                                                               *)

Asked(p, claims) == IF claims = None THEN DOMAIN p.claims ELSE claims

\* b has Claims and evidence of p, and with a Claim all the evidence about it.
Drawn(p, b) ==
    /\ DOMAIN b.claims \subseteq DOMAIN p.claims
    /\ \A c \in DOMAIN b.claims : b.claims[c] = p.claims[c]
    /\ DOMAIN b.evidence \subseteq DOMAIN p.evidence
    /\ \A e \in DOMAIN b.evidence :
         /\ b.evidence[e].supports = p.evidence[e].supports
         /\ b.evidence[e].contradicts = p.evidence[e].contradicts
         /\ b.evidence[e].fresh = p.evidence[e].fresh
         /\ b.evidence[e].strength = p.evidence[e].strength
    /\ \A c \in DOMAIN b.claims :
         Supporting(p, c) \cup Contradicting(p, c) \subseteq DOMAIN b.evidence

LEMMA SelectedFields ==
  ASSUME NEW p, DOMAIN p = Fields, NEW claims
  PROVE  LET s == Select(p, claims)
         IN  /\ DOMAIN s = Fields
             /\ s.policy = p.policy /\ s.index = p.index
             /\ s.claims = Restricted(p.claims, Asked(p, claims))
             /\ s.evidence = Restricted(p.evidence, EvidenceFor(p, Asked(p, claims)))
             /\ \E S : s.sources = Restricted(p.sources, S)
BY DEF Select, Asked, Fields

LEMMA BlobbedFields ==
  ASSUME NEW b, DOMAIN b = Fields
  PROVE  /\ DOMAIN WithBlobs(b) = Fields
         /\ WithBlobs(b).policy = b.policy /\ WithBlobs(b).claims = b.claims
         /\ WithBlobs(b).evidence = b.evidence /\ WithBlobs(b).sources = b.sources
         /\ WithBlobs(b).blobs = BlobRefs(b)
BY DEF WithBlobs, Fields

\* What is selected for a question is well formed, so that it can be redacted.
LEMMA SelectionIsRedactable ==
  ASSUME NEW p, WellFormedRecords(p), NEW claims, BlobRefs(Select(p, claims)) \subseteq p.blobs
  PROVE  Redacting(WithBlobs(Select(p, claims)))
<1> DEFINE s == Select(p, claims)
           w == WithBlobs(s)
<1>1. DOMAIN p = Fields
  BY DEF WellFormedRecords, Fields
<1>2. /\ DOMAIN s = Fields /\ s.policy = p.policy
      /\ s.evidence = Restricted(p.evidence, EvidenceFor(p, Asked(p, claims)))
      /\ \E S : s.sources = Restricted(p.sources, S)
  BY <1>1, SelectedFields
<1> HIDE DEF s
<1>3. /\ DOMAIN w = Fields /\ w.policy = p.policy /\ w.blobs = BlobRefs(s)
      /\ w.evidence = s.evidence /\ w.sources = s.sources
  BY <1>2, BlobbedFields
<1> HIDE DEF w
<1>4. ASSUME NEW e \in DOMAIN w.evidence PROVE w.evidence[e] \in EvidenceRecord
  <2>1. e \in DOMAIN p.evidence /\ w.evidence[e] = p.evidence[e]
    BY <1>2, <1>3 DEF Restricted
  <2> QED BY <2>1 DEF WellFormedRecords
<1>5. ASSUME NEW x \in DOMAIN w.sources PROVE w.sources[x] \in SourceRecord
  <2>1. PICK S : w.sources = Restricted(p.sources, S)
    BY <1>2, <1>3
  <2>2. x \in DOMAIN p.sources /\ w.sources[x] = p.sources[x]
    BY <2>1 DEF Restricted
  <2> QED BY <2>2 DEF WellFormedRecords
<1>6. Redacting(w)
  BY <1>3, <1>4, <1>5 DEF Redacting
<1> QED BY <1>6 DEF w, s

\* What is selected is drawn from the records, with all the evidence about it.
LEMMA SelectionIsDrawn ==
  ASSUME NEW p, WellFormedRecords(p), NEW claims, Selectable(p, claims)
  PROVE  Drawn(p, WithBlobs(Select(p, claims)))
<1> DEFINE s == Select(p, claims)
           w == WithBlobs(s)
           asked == Asked(p, claims)
<1>1. DOMAIN p = Fields
  BY DEF WellFormedRecords, Fields
<1>2. /\ DOMAIN s = Fields
      /\ s.claims = Restricted(p.claims, asked)
      /\ s.evidence = Restricted(p.evidence, EvidenceFor(p, asked))
  BY <1>1, SelectedFields
<1> HIDE DEF s
<1>3. /\ w.claims = Restricted(p.claims, asked)
      /\ w.evidence = Restricted(p.evidence, EvidenceFor(p, asked))
  BY <1>2, BlobbedFields
<1> HIDE DEF w
<1>4. EvidenceFor(p, asked) \subseteq DOMAIN p.evidence
  BY DEF Selectable, Asked
<1>5. ASSUME NEW c \in DOMAIN w.claims
      PROVE  Supporting(p, c) \cup Contradicting(p, c) \subseteq DOMAIN w.evidence
  <2>1. c \in asked
    BY <1>3 DEF Restricted
  <2>2. Supporting(p, c) \cup Contradicting(p, c) \subseteq EvidenceFor(p, asked)
    BY <2>1 DEF EvidenceFor
  <2> QED BY <1>3, <1>4, <2>2 DEF Restricted
<1>6. /\ DOMAIN w.claims \subseteq DOMAIN p.claims
      /\ \A c \in DOMAIN w.claims : w.claims[c] = p.claims[c]
      /\ DOMAIN w.evidence \subseteq DOMAIN p.evidence
      /\ \A e \in DOMAIN w.evidence : w.evidence[e] = p.evidence[e]
  BY <1>3 DEF Restricted
<1>7. Drawn(p, w)
  BY <1>5, <1>6 DEF Drawn
<1> QED BY <1>7 DEF w, s

\* Redaction and the new index touch none of that.
LEMMA RedactionIsDrawn ==
  ASSUME NEW p, NEW b, Redacting(b), Drawn(p, b)
  PROVE  /\ Drawn(p, Indexed(b)) /\ Drawn(p, Indexed(Redact(b)))
         /\ Indexed(b).index = IndexOf(Indexed(b))
         /\ Indexed(Redact(b)).index = IndexOf(Indexed(Redact(b)))
<1> DEFINE i == Indexed(b)
           r == Indexed(Redact(b))
<1>1. i.claims = b.claims /\ i.evidence = b.evidence /\ i.index = IndexOf(b)
      /\ i.observations = b.observations
  BY IndexedFields DEF Redacting
<1>2. Alike(i, r)
  BY RedactionIsAlike
<1> HIDE DEF i, r
<1>3. Drawn(p, i)
  BY <1>1 DEF Drawn
<1>4. i.index = IndexOf(i)
  BY <1>1 DEF IndexOf
<1>5. Drawn(p, r)
  BY <1>2, <1>3 DEF Alike, Drawn
<1>6. r.index = IndexOf(r)
  BY <1>2, <1>4 DEF Alike, IndexOf
<1> QED BY <1>3, <1>4, <1>5, <1>6 DEF i, r

\* In a valid bundle drawn from p, what a Claim names is what p has about it.
LEMMA DrawnIsComplete ==
  ASSUME NEW p, NEW b, Drawn(p, b), Valid(b), NEW c \in DOMAIN b.claims
  PROVE  /\ b.claims[c].evidence = Supporting(p, c)
         /\ b.claims[c].counter = Contradicting(p, c)
         /\ Supporting(p, c) \cup Contradicting(p, c) \subseteq DOMAIN b.evidence
<1>1. Supporting(b, c) = Supporting(p, c) /\ Contradicting(b, c) = Contradicting(p, c)
  BY DEF Drawn, Supporting, Contradicting
<1>2. b.claims[c].evidence = Supporting(b, c) /\ b.claims[c].counter = Contradicting(b, c)
  BY DEF Valid, CounterEvidenceComplete
<1> QED BY <1>1, <1>2 DEF Drawn

---------------------------------------------------------------------------
(* What is written and published.                                           *)

\* The shape of the functions, for their updates; what the compilers came to.
BundleTyped ==
    /\ payload \in Payloads
    /\ review = None \/ review.said \in Conclusions
    /\ DOMAIN job = Compilers /\ DOMAIN outcome = Compilers
    /\ \A p \in Compilers :
         outcome[p] \in {None, "refused", "published", "returned", "failed", "dead"}

\* What a compiler writes is drawn from the investigation's records and indexed;
\* what it published is valid besides, whatever became of it.
IsRecord(b) == b = [field \in Fields |-> b[field]]
DrawnAndIndexed(b) == IsRecord(b) /\ Drawn(payload, b) /\ b.index = IndexOf(b)
JobsAreDrawn ==
    \A p \in Compilers : job[p] # None => \E b : job[p] = Sealed(b) /\ DrawnAndIndexed(b)
PublishedIsDrawn ==
    published # None \/ output # None \/ reading # None =>
        DrawnAndIndexed(published) /\ Valid(published)

BundleInv == BundleTyped /\ JobsAreDrawn /\ PublishedIsDrawn /\ ReviewsRestOnRecords

LEMMA SameBlobs ==
  ASSUME NEW b, IsRecord(b)
  PROVE  [b EXCEPT !.blobs = b.blobs] = b
BY DEF IsRecord, Fields

LEMMA IndexedIsRecord ==
  ASSUME NEW b, DOMAIN b = Fields
  PROVE  IsRecord(Indexed(b))
BY DEF Indexed, IsRecord

LEMMA BundleInitHolds == Init => BundleInv
BY DEF Init, BundleInv, BundleTyped, JobsAreDrawn, PublishedIsDrawn, ReviewsRestOnRecords

LEMMA MaterialIsDrawn ==
  ASSUME payload \in Payloads, NEW claims, Prepared(claims)
  PROVE  DrawnAndIndexed(Indexed(Material(claims)))
<1>1. WellFormedRecords(payload)
  BY BundleAssumption
<1> DEFINE w == WithBlobs(Select(payload, claims))
<1>2. Redacting(w)
  BY <1>1, SelectionIsRedactable DEF Prepared
<1>3. Drawn(payload, w)
  BY <1>1, SelectionIsDrawn DEF Prepared
<1>4. Material(claims) = w \/ Material(claims) = Redact(w)
  BY DEF Material
<1> HIDE DEF w
<1>5. DOMAIN w = Fields /\ DOMAIN Redact(w) = Fields
  BY <1>2, RedactedFields DEF Redacting
<1>6. IsRecord(Indexed(Material(claims)))
  BY <1>4, <1>5, IndexedIsRecord
<1> QED BY <1>2, <1>3, <1>4, <1>6, RedactionIsDrawn DEF DrawnAndIndexed

\* Nobody changes the records: what was drawn from them still is.
LEMMA PayloadStays ==
  ASSUME payload' = payload
  PROVE  \A b : DrawnAndIndexed(b) => DrawnAndIndexed(b)'
BY DEF DrawnAndIndexed

LEMMA BundleStepHolds == BundleInv /\ [Next]_vars => BundleInv'
<1> SUFFICES ASSUME BundleInv, [Next]_vars PROVE BundleInv'
  OBVIOUS
<1> USE DEF BundleInv, reviewVars
<1>1. ASSUME NEW p \in Compilers, NEW claims, Refuse(p, claims) PROVE BundleInv'
  <2>1. BundleTyped'
    BY <1>1 DEF Refuse, BundleTyped
  <2> QED BY <1>1, <2>1 DEF Refuse, JobsAreDrawn, PublishedIsDrawn, DrawnAndIndexed, ReviewsRestOnRecords
<1>2. ASSUME NEW p \in Compilers, NEW claims, Write(p, claims) PROVE BundleInv'
  <2>1. BundleTyped'
    BY <1>2 DEF Write, BundleTyped
  <2>2. JobsAreDrawn'
    <3>1. DrawnAndIndexed(Indexed(Material(claims)))
      BY <1>2, MaterialIsDrawn DEF Write, BundleTyped
    <3> SUFFICES ASSUME NEW q \in Compilers, job'[q] # None
                 PROVE  \E b : job'[q] = Sealed(b) /\ IsRecord(b) /\ Drawn(payload', b) /\ b.index = IndexOf(b)
      BY DEF JobsAreDrawn, DrawnAndIndexed
    <3>2. CASE q = p
      <4>1. job'[p] = Sealed(Indexed(Material(claims)))
        BY <1>2 DEF Write, BundleTyped
      <4> QED BY <1>2, <3>1, <3>2, <4>1 DEF Write, DrawnAndIndexed
    <3>3. CASE q # p
      <4>1. job'[q] = job[q]
        BY <1>2, <3>3 DEF Write, BundleTyped
      <4> QED BY <1>2, <4>1 DEF Write, JobsAreDrawn, DrawnAndIndexed
    <3> QED BY <3>2, <3>3
  <2> QED BY <1>2, <2>1, <2>2 DEF Write, PublishedIsDrawn, DrawnAndIndexed, ReviewsRestOnRecords
<1>3. ASSUME NEW p \in Compilers, Discard(p) PROVE BundleInv'
  <2>1. BundleTyped'
    BY <1>3 DEF Discard, BundleTyped
  <2>2. JobsAreDrawn'
    <3>1. \A q \in Compilers : job'[q] = None \/ job'[q] = job[q]
      BY <1>3 DEF Discard, BundleTyped
    <3> QED BY <1>3, <3>1 DEF Discard, JobsAreDrawn, DrawnAndIndexed
  <2> QED BY <1>3, <2>1, <2>2 DEF Discard, PublishedIsDrawn, DrawnAndIndexed, ReviewsRestOnRecords
<1>4. ASSUME NEW p \in Compilers, Publish(p) PROVE BundleInv'
  <2>1. BundleTyped'
    BY <1>4 DEF Publish, BundleTyped
  <2>2. JobsAreDrawn'
    <3>1. \A q \in Compilers : job'[q] = None \/ job'[q] = job[q]
      BY <1>4 DEF Publish, BundleTyped
    <3> QED BY <1>4, <3>1 DEF Publish, JobsAreDrawn, DrawnAndIndexed
  <2>3. PublishedIsDrawn'
    <3>1. PICK b : job[p] = Sealed(b) /\ DrawnAndIndexed(b)
      BY <1>4 DEF Publish, JobsAreDrawn
    <3>2. Loaded(Parsed(Sealed(b)), Sealed(b)) = b
      BY <3>1, SameBlobs DEF Loaded, Parsed, Sealed, DrawnAndIndexed
    <3>5. Valid(b)
      BY <1>4, <3>1, <3>2 DEF Publish, Accepted, Passes
    <3>6. published' = b /\ payload' = payload
      BY <1>4, <3>1 DEF Publish, Sealed
    <3> QED BY <3>1, <3>5, <3>6 DEF PublishedIsDrawn, DrawnAndIndexed
  <2> QED BY <1>4, <2>1, <2>2, <2>3 DEF Publish, ReviewsRestOnRecords
<1>5. ASSUME NEW p \in Compilers, Return(p) PROVE BundleInv'
  <2>1. BundleTyped'
    BY <1>5 DEF Return, BundleTyped
  <2> QED BY <1>5, <2>1 DEF Return, JobsAreDrawn, PublishedIsDrawn, DrawnAndIndexed, ReviewsRestOnRecords
<1>6. ASSUME NEW p \in Compilers, Die(p) PROVE BundleInv'
  <2>1. BundleTyped'
    BY <1>6 DEF Die, BundleTyped
  <2> QED BY <1>6, <2>1 DEF Die, JobsAreDrawn, PublishedIsDrawn, DrawnAndIndexed, ReviewsRestOnRecords
<1>7. ASSUME Edit \/ Open \/ RefuseReview PROVE BundleInv'
  <2>1. UNCHANGED <<payload, job, outcome, published, review>>
    BY <1>7 DEF Edit, Open, RefuseReview
  <2>2. output # None \/ reading # None
    BY <1>7 DEF Edit, Open, RefuseReview
  <2>3. JobsAreDrawn'
    BY <2>1 DEF JobsAreDrawn, DrawnAndIndexed
  <2>4. PublishedIsDrawn'
    BY <2>1, <2>2 DEF PublishedIsDrawn, DrawnAndIndexed
  <2> QED BY <2>1, <2>3, <2>4 DEF BundleTyped, JobsAreDrawn, PublishedIsDrawn, DrawnAndIndexed, ReviewsRestOnRecords
<1>8. ASSUME NEW r \in Conclusions, Review(r) PROVE BundleInv'
  <2>1. /\ Passes(reading, output) /\ ConclusionGrounded(Loaded(reading, output), r)
        /\ review' = [said |-> r, steady |-> reading.files = output.files,
                      genuine |-> reading.hashed = published]
        /\ UNCHANGED <<payload, job, outcome, output, published, deaths, edits>>
    BY <1>8 DEF Review
  <2>2. DrawnAndIndexed(published) /\ Valid(published)
    BY <1>8 DEF Review, PublishedIsDrawn
  <2> DEFINE b == Loaded(reading, output)
  <2>3. ReviewsRestOnRecords'
    <3> SUFFICES ASSUME reading.files = output.files, reading.hashed = published,
                        NEW c \in r.claims
                 PROVE  /\ Contradicting(payload, c) \subseteq r.counter
                        /\ r.disposition = "accept" => payload.claims[c].status = "supported"
                        /\ r.disposition \in Definitive =>
                             \E e \in r.evidence : /\ c \in payload.evidence[e].supports
                                                   /\ payload.evidence[e].fresh = "current"
                                                   /\ Strong(payload.evidence[e])
      BY <2>1 DEF ReviewsRestOnRecords
    <3>0. b = published
      <4>1. b = [published EXCEPT !.blobs = published.blobs]
        BY <2>1 DEF Passes, Intact, Loaded
      <4> QED BY <2>2, <4>1, SameBlobs DEF DrawnAndIndexed
    <3> HIDE DEF b
    <3>1. ConclusionGrounded(b, r)
      BY <2>1 DEF b
    <3>2. c \in DOMAIN b.claims
      BY <3>1 DEF ConclusionGrounded
    <3>3. /\ b.claims[c].evidence = Supporting(payload, c)
          /\ b.claims[c].counter = Contradicting(payload, c)
          /\ Supporting(payload, c) \subseteq DOMAIN b.evidence
          /\ b.claims[c] = payload.claims[c]
      BY <2>2, <3>0, <3>2, DrawnIsComplete DEF Drawn, DrawnAndIndexed
    <3>4. Contradicting(payload, c) \subseteq r.counter
      BY <3>1, <3>3 DEF ConclusionGrounded
    <3>5. r.disposition = "accept" => payload.claims[c].status = "supported"
      BY <3>1, <3>3 DEF ConclusionGrounded
    <3>6. ASSUME r.disposition \in Definitive
          PROVE  \E e \in r.evidence : /\ c \in payload.evidence[e].supports
                                       /\ payload.evidence[e].fresh = "current"
                                       /\ Strong(payload.evidence[e])
      <4>1. PICK e \in r.evidence \cap b.claims[c].evidence :
                Strong(b.evidence[e]) /\ b.evidence[e].fresh = "current"
        BY <3>1, <3>6 DEF ConclusionGrounded
      <4>2. e \in DOMAIN b.evidence /\ c \in payload.evidence[e].supports
        BY <3>3, <4>1 DEF Supporting
      <4>3. b.evidence[e].fresh = payload.evidence[e].fresh
            /\ b.evidence[e].strength = payload.evidence[e].strength
        BY <2>2, <3>0, <4>2 DEF Drawn, DrawnAndIndexed
      <4> QED BY <4>1, <4>2, <4>3 DEF Strong
    <3> QED BY <3>4, <3>5, <3>6
  <2>4. JobsAreDrawn'
    BY <2>1 DEF JobsAreDrawn, DrawnAndIndexed
  <2>5. PublishedIsDrawn'
    BY <2>1, <2>2 DEF PublishedIsDrawn, DrawnAndIndexed
  <2> QED BY <2>1, <2>3, <2>4, <2>5 DEF BundleTyped
<1>9. CASE UNCHANGED vars
  BY <1>9 DEF vars, BundleTyped, JobsAreDrawn, PublishedIsDrawn, DrawnAndIndexed, ReviewsRestOnRecords
<1> QED BY <1>1, <1>2, <1>3, <1>4, <1>5, <1>6, <1>7, <1>8, <1>9 DEF Next

LEMMA BundleInvariance == Spec => []BundleInv
BY BundleInitHolds, BundleStepHolds, PTL DEF Spec

\* Slicing by question hides nothing: whatever was asked, and whoever died or
\* edited the files, a published Claim comes with all the evidence for and against
\* it that the investigation recorded.
THEOREM NothingIsEverHidden == Spec => []NothingHidden
<1>1. BundleInv => NothingHidden
  <2> SUFFICES ASSUME BundleInv PROVE NothingHidden
    OBVIOUS
  <2>1. TypeOK
    BY DEF TypeOK, BundleInv, BundleTyped, PublishedIsDrawn, DrawnAndIndexed
  <2>2. ASSUME published # None, NEW c \in DOMAIN published.claims
        PROVE  /\ published.claims[c].evidence = Supporting(payload, c)
               /\ published.claims[c].counter = Contradicting(payload, c)
               /\ Supporting(payload, c) \cup Contradicting(payload, c)
                    \subseteq DOMAIN published.evidence
    BY <2>2, DrawnIsComplete DEF BundleInv, PublishedIsDrawn, DrawnAndIndexed
  <2> QED BY <2>1, <2>2 DEF NothingHidden
<1> QED BY <1>1, BundleInvariance, PTL

\* A review that passed rests on the records of the investigation, whatever was done to
\* the files of the bundle before it: if the manifest it was checked against is still the
\* compiler's, and what was parsed is what was hashed.
THEOREM ReviewsAlwaysRestOnRecords == Spec => []ReviewsRestOnRecords
<1>1. BundleInv => ReviewsRestOnRecords
  BY DEF BundleInv
<1> QED BY <1>1, BundleInvariance, PTL

\* Redaction keeps bindings wherever the invariant holds.
LEMMA RedactionHolds == BundleInv => RedactionKeepsBinding
<1> SUFFICES ASSUME BundleInv, NEW claims, Prepared(claims), payload.policy.redact
             PROVE  LET selected == WithBlobs(Select(payload, claims))
                        redacted == Indexed(Redact(selected))
                    IN  /\ Valid(Indexed(selected)) =>
                             (Valid(redacted) <=> BlobsFit(redacted) /\ PathsAllowed(redacted))
                        /\ \A blob \in redacted.blobs : Clean[blob] = blob
                        /\ \A s \in DOMAIN redacted.sources : LET path == redacted.sources[s].path IN
                             path # None => CleanPath[path] = path
                        /\ Names(redacted) \cap SecretIds = {}
  BY DEF RedactionKeepsBinding
<1> DEFINE w == WithBlobs(Select(payload, claims))
           r == Indexed(Redact(w))
<1>1. WellFormedRecords(payload)
  BY BundleAssumption DEF BundleInv, BundleTyped
<1>2. Redacting(w) /\ DOMAIN w = Fields
  BY <1>1, SelectionIsRedactable DEF Prepared, Redacting
<1>3. \A blob \in w.blobs : blob \in Blobs /\ Clean[blob] # None
  <2>1. w.blobs = BlobRefs(Select(payload, claims))
    <3>1. DOMAIN Select(payload, claims) = Fields
      BY <1>1, SelectedFields DEF WellFormedRecords, Fields
    <3> QED BY <3>1, BlobbedFields
  <2>2. w.blobs \subseteq payload.blobs /\ payload.blobs \subseteq Blobs
    BY <1>1, <2>1 DEF Prepared, WellFormedRecords
  <2> QED BY <2>2 DEF Prepared, Redactable
<1>9. Names(w) \cap SecretIds = {}
  BY DEF Prepared, Redactable
<1> HIDE DEF w
<1>4. Valid(Indexed(w)) => (Valid(r) <=> BlobsFit(r) /\ PathsAllowed(r))
  BY <1>2, RedactionKeepsValid
<1>5. /\ r.blobs = {Clean[blob] : blob \in w.blobs}
      /\ r.sources = Redact(w).sources /\ DOMAIN r.sources = DOMAIN w.sources
  BY <1>2, RedactedFields, IndexedFields
<1>6. \A blob \in r.blobs : Clean[blob] = blob
  BY <1>3, <1>5, CleanAssumption
<1>7. ASSUME NEW s \in DOMAIN r.sources, r.sources[s].path # None
      PROVE  CleanPath[r.sources[s].path] = r.sources[s].path
  <2>1. s \in DOMAIN w.sources /\ w.sources[s] \in SourceRecord
    BY <1>2, <1>5, <1>7 DEF Redacting
  <2>2. w.sources[s].path \in FilePaths \cup {None}
    BY <2>1 DEF SourceRecord
  <2>3. r.sources[s].path = IF w.sources[s].path = None THEN None ELSE CleanPath[w.sources[s].path]
    BY <1>2, <1>5, <2>1, RedactedSources
  <2> QED BY <1>7, <2>2, <2>3, CleanAssumption
<1>8. Names(r) \cap SecretIds = {}
  <2>1. Names(Indexed(w)) = Names(w)
    <3>1. /\ Indexed(w).claims = w.claims /\ Indexed(w).observations = w.observations
          /\ Indexed(w).conflicts = w.conflicts /\ Indexed(w).diagnostics = w.diagnostics
          /\ Indexed(w).ledger = w.ledger /\ Indexed(w).evidence = w.evidence
          /\ Indexed(w).sources = w.sources
      BY <1>2, IndexedFields
    <3> QED BY <3>1 DEF Names, Entries
  <2>2. Alike(Indexed(w), r)
    BY <1>2, RedactionIsAlike
  <2> QED BY <1>9, <2>1, <2>2, NamesStay
<1> QED BY <1>4, <1>6, <1>7, <1>8 DEF w

\* Redaction keeps what validates valid wherever the Blobs still fit and the paths are
\* allowed, and nothing of the old Blobs and paths is left.
THEOREM RedactionAlwaysKeepsBinding == Spec => []RedactionKeepsBinding
BY RedactionHolds, BundleInvariance, PTL

---------------------------------------------------------------------------
(* The improvement lifecycle.                                               *)

Files == {"issues", "constraints", "task", "candidate", "contract", "validation", "outcome",
          "comparison"}
BoundFiles == {"candidate", "contract"}

WasAccepted(c) == \E a \in accepted : a.candidate = c

\* What is left to write is one file or two that `verify` does not read, or the files
\* of an accepted candidate, whose contract comes right after it.
Plain(todo) ==
    \/ todo = <<>>
    \/ \E x : todo = <<x>> /\ x.file \in Files \ BoundFiles
    \/ \E x, y : todo = <<x, y>> /\ {x.file, y.file} \subseteq Files \ BoundFiles
Whole(c) == <<Put("candidate", c), Put("contract", ContractOf(c)), Put("validation", c.id)>>
Rest(c) == <<Put("contract", ContractOf(c)), Put("validation", c.id)>>
Writing(todo) ==
    \/ Plain(todo)
    \/ \E c : WasAccepted(c) /\ todo = Whole(c)
    \/ \E c : WasAccepted(c) /\ dir.candidate = c /\ todo = Rest(c)

Between == \E c : command.todo = Rest(c)

ImproveTyped ==
    /\ dir = [f \in Files |-> dir[f]]
    /\ command = [todo |-> command.todo, held |-> command.held]
    /\ kills \in Nat

AcceptedOnly ==
    /\ \A a \in accepted : InScope(a.candidate, a.constraint) /\ NoGaming(a.candidate)
    /\ Readable(dir.candidate) => WasAccepted(dir.candidate)

ImproveCommands ==
    /\ Writing(command.todo)
    /\ command.held # Absent =>
         /\ command.todo = <<>>
         /\ WasAccepted(command.held.candidate)
         /\ kills = 0 => command.held.contract = ContractOf(command.held.candidate)

Matching ==
    kills = 0 /\ Readable(dir.candidate) /\ Readable(dir.contract) /\ ~Between
        => dir.contract = ContractOf(dir.candidate)

ImproveInv == ImproveTyped /\ AcceptedOnly /\ ImproveCommands /\ Matching /\ VerifiedIsProved

(***************************************************************************)
(* Sequences of writes                                                     *)
(***************************************************************************)

\* The first of one, two or three writes, and what is left after it.
LEMMA Writes ==
  ASSUME NEW x, NEW y, NEW z
  PROVE  /\ Len(<<x>>) = 1 /\ Head(<<x>>) = x /\ Tail(<<x>>) = <<>>
         /\ Len(<<x, y>>) = 2 /\ Head(<<x, y>>) = x /\ Tail(<<x, y>>) = <<y>>
         /\ Len(<<x, y, z>>) = 3 /\ Head(<<x, y, z>>) = x /\ Tail(<<x, y, z>>) = <<y, z>>
<1>1. /\ <<x>> \in Seq({x, y, z})
      /\ <<x, y>> \in Seq({x, y, z})
      /\ <<x, y, z>> \in Seq({x, y, z})
  OBVIOUS
<1> QED BY <1>1

\* A write of a file `verify` does not read is plain, and so are two.
LEMMA PlainWrite ==
  ASSUME NEW f \in Files \ BoundFiles, NEW v
  PROVE  Plain(<<Put(f, v)>>)
<1>1. Put(f, v).file = f
  BY DEF Put
<1> HIDE DEF Put
<1> QED BY <1>1 DEF Plain

LEMMA PlainWrites ==
  ASSUME NEW f \in Files \ BoundFiles, NEW g \in Files \ BoundFiles, NEW v, NEW w
  PROVE  Plain(<<Put(f, v), Put(g, w)>>)
<1>1. Put(f, v).file = f /\ Put(g, w).file = g
  BY DEF Put
<1> HIDE DEF Put
<1>2. {Put(f, v).file, Put(g, w).file} \subseteq Files \ BoundFiles
  BY <1>1
<1> QED BY <1>2 DEF Plain

\* The three files of a candidate are not two, and a plain write is not of a contract.
LEMMA Apart ==
  ASSUME NEW todo, NEW c, todo = Rest(c)
  PROVE  /\ ~Plain(todo)
         /\ \A d : todo # Whole(d)
         /\ todo # <<>>
<1>1. Len(todo) = 2 /\ Head(todo).file = "contract"
  BY Writes DEF Rest, Put
<1>2. \A d : Len(Whole(d)) = 3
  BY Writes DEF Whole
<1>3. Len(<<>>) = 0
  OBVIOUS
<1>4. \A x : Len(<<x>>) = 1
  BY Writes
<1>5. \A x, y : Head(<<x, y>>) = x
  BY Writes
<1> QED BY <1>1, <1>2, <1>3, <1>4, <1>5 DEF Plain, Files, BoundFiles

(***************************************************************************)
(* The steps                                                               *)
(***************************************************************************)

\* A verified improvement stays one when more has been accepted.
LEMMA VerifiedStays ==
  ASSUME VerifiedIsProved, judged' = judged, accepted \subseteq accepted'
  PROVE  VerifiedIsProved'
  BY DEF VerifiedIsProved

\* A command that starts changes no file; it holds what it has read of an accepted
\* candidate, or writes what it may.
LEMMA StartHolds ==
  ASSUME ImproveInv, NEW todo, NEW held, Idle, Start(todo, held),
         judged' = judged, accepted \subseteq accepted',
         \A a \in accepted' : InScope(a.candidate, a.constraint) /\ NoGaming(a.candidate),
         \/ Plain(todo)
         \/ \E a \in accepted' : todo = Whole(a.candidate),
         held # Absent =>
            /\ todo = <<>>
            /\ WasAccepted(held.candidate)
            /\ kills = 0 => held.contract = ContractOf(held.candidate)
  PROVE  ImproveInv'
<1>1. /\ dir' = dir /\ kills' = kills
      /\ command' = [todo |-> todo, held |-> held]
      /\ command'.todo = todo /\ command'.held = held
  BY DEF Start
<1>2. \A c : WasAccepted(c) => WasAccepted(c)'
  BY DEF WasAccepted
<1>3. ImproveTyped'
  BY <1>1 DEF ImproveInv, ImproveTyped
<1>4. AcceptedOnly'
  BY <1>1 DEF ImproveInv, AcceptedOnly, WasAccepted
<1>5. Writing(command.todo)'
  <2>1. CASE Plain(todo)
    BY <1>1, <2>1 DEF Writing, Plain
  <2>2. CASE \E a \in accepted' : todo = Whole(a.candidate)
    BY <1>1, <2>2 DEF Writing, WasAccepted, Whole
  <2> QED BY <2>1, <2>2
<1>6. ImproveCommands'
  BY <1>1, <1>2, <1>5 DEF ImproveCommands, WasAccepted
<1>7. Matching'
  <2>1. command.todo = <<>>
    BY DEF Idle, NoCommand
  <2>2. ~Between
    BY <2>1, Apart DEF Between
  <2> QED BY <1>1, <2>2 DEF ImproveInv, Matching, Between
<1>8. VerifiedIsProved'
  BY VerifiedStays DEF ImproveInv
<1> QED BY <1>3, <1>4, <1>6, <1>7, <1>8 DEF ImproveInv

\* A command that writes its next file keeps what the files say of each other.
LEMMA WriteHolds == ImproveInv /\ WriteFile => ImproveInv'
<1> SUFFICES ASSUME ImproveInv, WriteFile PROVE ImproveInv'
  OBVIOUS
<1> DEFINE todo == command.todo
           x == Head(todo)
<1>1. /\ todo # <<>>
      /\ dir' = [dir EXCEPT ![x.file] = x.value]
      /\ command' = [command EXCEPT !.todo = Tail(todo)]
      /\ UNCHANGED <<accepted, judged, ran, kills>>
  BY DEF WriteFile
<1>2. command = [todo |-> todo, held |-> command.held] /\ command.held = Absent
  BY <1>1 DEF ImproveInv, ImproveTyped, ImproveCommands
<1>3. command' = [todo |-> Tail(todo), held |-> Absent]
  BY <1>1, <1>2
<1>4. ASSUME x.file \in Files PROVE ImproveTyped'
  BY <1>1, <1>2, <1>3, <1>4 DEF ImproveInv, ImproveTyped
<1>5. VerifiedIsProved'
  BY <1>1, VerifiedStays DEF ImproveInv
<1>6. ASSUME Plain(todo) PROVE ImproveInv'
  <2>1. /\ x.file \in Files \ BoundFiles
        /\ \/ command' = NoCommand
           \/ \E y : y.file \in Files \ BoundFiles /\ command' = [todo |-> <<y>>, held |-> Absent]
    <3>1. CASE \E y : todo = <<y>> /\ y.file \in Files \ BoundFiles
      <4> PICK y : todo = <<y>> /\ y.file \in Files \ BoundFiles
        BY <3>1
      <4>1. x = y /\ Tail(todo) = <<>>
        BY Writes
      <4> QED BY <1>3, <4>1 DEF NoCommand
    <3>2. CASE \E y, z : todo = <<y, z>> /\ {y.file, z.file} \subseteq Files \ BoundFiles
      <4> PICK y, z : todo = <<y, z>> /\ {y.file, z.file} \subseteq Files \ BoundFiles
        BY <3>2
      <4>1. x = y /\ Tail(todo) = <<z>>
        BY Writes
      <4> QED BY <1>3, <4>1
    <3> QED BY <1>1, <1>6, <3>1, <3>2 DEF Plain
  <2>2. dir'.candidate = dir.candidate /\ dir'.contract = dir.contract
    BY <1>1, <2>1 DEF ImproveInv, ImproveTyped, Files, BoundFiles
  <2>3. ~Between
    BY <1>6, Apart DEF Between
  <2>4. AcceptedOnly'
    BY <1>1, <2>2 DEF ImproveInv, AcceptedOnly, WasAccepted
  <2>5. ImproveCommands'
    BY <2>1 DEF ImproveCommands, Writing, Plain, NoCommand
  <2>6. Matching'
    BY <1>1, <2>2, <2>3 DEF ImproveInv, Matching
  <2> QED BY <1>4, <1>5, <2>1, <2>4, <2>5, <2>6 DEF ImproveInv
<1>7. ASSUME NEW c, WasAccepted(c), todo = Whole(c) PROVE ImproveInv'
  <2>1. x = Put("candidate", c) /\ command' = [todo |-> Rest(c), held |-> Absent]
    BY <1>3, <1>7, Writes DEF Whole, Rest
  <2>2. dir'.candidate = c
    BY <1>1, <2>1 DEF ImproveInv, ImproveTyped, Files, Put
  <2>3. AcceptedOnly'
    BY <1>1, <1>7, <2>2 DEF ImproveInv, AcceptedOnly, WasAccepted
  <2>4. ImproveCommands'
    <3>1. Writing(Rest(c))'
      BY <1>1, <1>7, <2>2 DEF Writing, WasAccepted, Rest
    <3> QED BY <2>1, <3>1 DEF ImproveCommands, Writing, Rest
  <2>5. Matching'
    <3>1. Between'
      BY <2>1 DEF Between
    <3> QED BY <3>1 DEF Matching
  <2> QED BY <1>4, <1>5, <2>1, <2>3, <2>4, <2>5 DEF ImproveInv, Put, Files
<1>8. ASSUME NEW c, WasAccepted(c), dir.candidate = c, todo = Rest(c) PROVE ImproveInv'
  <2>1. /\ x = Put("contract", ContractOf(c))
        /\ command' = [todo |-> <<Put("validation", c.id)>>, held |-> Absent]
    BY <1>3, <1>8, Writes DEF Rest
  <2>2. dir'.candidate = c /\ dir'.contract = ContractOf(c)
    BY <1>1, <1>8, <2>1 DEF ImproveInv, ImproveTyped, Files, Put
  <2>3. AcceptedOnly'
    BY <1>1, <1>8, <2>2 DEF ImproveInv, AcceptedOnly, WasAccepted
  <2>4. ImproveCommands'
    BY <2>1 DEF ImproveCommands, Writing, Plain, Put, Files, BoundFiles
  <2>5. Matching'
    BY <2>2 DEF Matching
  <2> QED BY <1>4, <1>5, <2>1, <2>3, <2>4, <2>5 DEF ImproveInv, Put, Files
<1> QED BY <1>1, <1>6, <1>7, <1>8 DEF ImproveInv, ImproveCommands, Writing

\* A kill leaves files behind that no longer belong together, but none that says it is
\* a candidate and was not accepted.
LEMMA KillHolds == ImproveInv /\ Kill => ImproveInv'
<1> SUFFICES ASSUME ImproveInv, Kill PROVE ImproveInv'
  OBVIOUS
<1>1. /\ command' = NoCommand /\ kills' = kills + 1
      /\ UNCHANGED <<accepted, judged>>
      /\ \/ dir' = dir
         \/ dir' = [dir EXCEPT ![Head(command.todo).file] = Torn]
  BY DEF Kill
<1>2. /\ dir' = [f \in Files |-> dir'[f]]
      /\ dir'.candidate = dir.candidate \/ dir'.candidate = Torn
  BY <1>1 DEF ImproveInv, ImproveTyped, Files
<1>3. ImproveTyped'
  BY <1>1, <1>2 DEF ImproveInv, ImproveTyped, NoCommand
<1>4. AcceptedOnly'
  BY <1>1, <1>2 DEF ImproveInv, AcceptedOnly, WasAccepted, Readable
<1>5. ImproveCommands'
  BY <1>1 DEF ImproveCommands, NoCommand, Writing, Plain
<1>6. Matching'
  BY <1>1 DEF ImproveInv, ImproveTyped, Matching
<1>7. VerifiedIsProved'
  BY <1>1, VerifiedStays DEF ImproveInv
<1> QED BY <1>3, <1>4, <1>5, <1>6, <1>7 DEF ImproveInv

\* What `verify` calls verified is the candidate it holds, which was accepted; and
\* as long as nothing was killed the contract it holds is that candidate's.
LEMMA JudgeHolds ==
  ASSUME ImprovementAssumption, ImproveInv, NEW proof, NEW before, NEW after, Judge(proof, before, after)
  PROVE  ImproveInv'
<1> DEFINE held == command.held
           status == Outcome(held.contract, proof, held.candidate, before, after)
           put == Put("outcome", [issue |-> held.issue, candidate |-> held.candidate.id,
                                  status |-> status])
<1>1. /\ held # Absent
      /\ command' = [todo |-> <<put>>, held |-> Absent]
      /\ judged' = [candidate |-> held.candidate, proof |-> proof, before |-> before,
                    after |-> after, status |-> status, whole |-> kills = 0]
      /\ UNCHANGED <<dir, accepted, kills>>
  BY DEF Judge
<1>2. /\ command.todo = <<>>
      /\ WasAccepted(held.candidate)
      /\ kills = 0 => held.contract = ContractOf(held.candidate)
  BY <1>1 DEF ImproveInv, ImproveCommands
<1>3. ImproveTyped'
  BY <1>1 DEF ImproveInv, ImproveTyped
<1>4. AcceptedOnly'
  BY <1>1 DEF ImproveInv, AcceptedOnly, WasAccepted
<1>5. ImproveCommands'
  BY <1>1 DEF ImproveCommands, Writing, Plain, Put, Files, BoundFiles
<1>6. Matching'
  <2>1. ~Between
    BY <1>2, Apart DEF Between
  <2> QED BY <1>1, <2>1 DEF ImproveInv, Matching
<1>7. VerifiedIsProved'
  <2> SUFFICES ASSUME judged'.status = "verified_improvement"
               PROVE  (LET c == judged.candidate IN
                        /\ \E a \in accepted :
                             /\ a.candidate = c /\ c.targets \subseteq a.constraint.allowed
                             /\ (c.targets \cup c.deleted) \cap (Protected \cup Truth) = {}
                             /\ c.deleted \cap Tests = {}
                        /\ judged.whole =>
                             /\ c.plan \subseteq judged.proof.succeeded
                             /\ c.targets \subseteq judged.proof.changed
                        /\ (/\ judged.before # Absent /\ judged.after # Absent
                            /\ DOMAIN judged.before = DOMAIN judged.after) =>
                             \A m \in DOMAIN judged.before :
                                ~Worse(judged.before[m], judged.after[m]))'
    BY DEF VerifiedIsProved
  <2>1. status = "verified_improvement"
    BY <1>1
  <2>2. ProofValid(held.contract, proof, held.candidate) /\ Comparison(before, after) # "FAIL"
    BY <2>1 DEF Outcome
  <2>3. \E a \in accepted :
           /\ a.candidate = held.candidate
           /\ held.candidate.targets \subseteq a.constraint.allowed
           /\ (held.candidate.targets \cup held.candidate.deleted) \cap (Protected \cup Truth) = {}
           /\ held.candidate.deleted \cap Tests = {}
    BY <1>2 DEF ImprovementAssumption, ImproveInv, AcceptedOnly, WasAccepted, InScope, NoGaming
  <2>4. kills = 0 =>
           /\ held.candidate.plan \subseteq proof.succeeded
           /\ held.candidate.targets \subseteq proof.changed
    BY <1>2, <2>2 DEF ProofValid, ContractOf
  <2>5. before # Absent /\ after # Absent /\ DOMAIN before = DOMAIN after =>
           \A m \in DOMAIN before : ~Worse(before[m], after[m])
    BY <2>2 DEF Comparison
  <2> HIDE DEF held, status
  <2> QED BY <1>1, <2>3, <2>4, <2>5 DEF Worse, StatusRank, StatusValues, NumberValues
<1> QED BY <1>3, <1>4, <1>5, <1>6, <1>7 DEF ImproveInv

\* Before the first command nothing is written, accepted or judged.
LEMMA ImproveInitHolds == ImproveInit => ImproveInv
<1> SUFFICES ASSUME ImproveInit PROVE ImproveInv
  OBVIOUS
<1>1. dir = [f \in Files |-> dir[f]]
  BY DEF ImproveInit, Files
<1> QED BY <1>1 DEF ImproveInit, ImproveInv, ImproveTyped, AcceptedOnly, ImproveCommands, NoCommand, Writing, Plain, Matching,
                    VerifiedIsProved, Readable

\* Every step keeps the invariant.
LEMMA ImproveStepHolds ==
  ASSUME ImprovementAssumption
  PROVE  ImproveInv /\ [ImproveNext]_improveVars => ImproveInv'
<1> SUFFICES ASSUME ImproveInv, [ImproveNext]_improveVars PROVE ImproveInv'
  OBVIOUS
<1> USE DEF ImproveInv
<1>1. ASSUME NEW b \in Bundles, Generate(b) PROVE ImproveInv'
  <2> DEFINE todo == <<Put("issues", Derived[b].issues), Put("constraints", Derived[b].constraints)>>
  <2>1. Plain(todo)
    BY PlainWrites DEF Files, BoundFiles
  <2>2. Idle /\ Start(todo, Absent) /\ accepted' = accepted /\ judged' = judged
    BY <1>1 DEF Generate
  <2> HIDE DEF todo
  <2> QED BY <2>1, <2>2, StartHolds DEF AcceptedOnly
<1>2. ASSUME NEW n \in 1..MaxIssues, Prompt(n) PROVE ImproveInv'
  <2> DEFINE todo == <<Put("task", [issue |-> dir.issues[n], constraint |-> dir.constraints[n]])>>
  <2>1. Plain(todo)
    BY PlainWrite DEF Files, BoundFiles
  <2>2. Idle /\ Start(todo, Absent) /\ accepted' = accepted /\ judged' = judged
    BY <1>2 DEF Prompt
  <2> HIDE DEF todo
  <2> QED BY <2>1, <2>2, StartHolds DEF AcceptedOnly
<1>3. ASSUME NEW n \in 1..MaxIssues, Verify(n) PROVE ImproveInv'
  <2> DEFINE held == [issue |-> n, candidate |-> dir.candidate, contract |-> dir.contract]
  <2>1. /\ Idle /\ Start(<<>>, held) /\ accepted' = accepted /\ judged' = judged
        /\ Readable(dir.candidate) /\ Readable(dir.contract)
    BY <1>3 DEF Verify
  <2>2. /\ WasAccepted(held.candidate)
        /\ kills = 0 => held.contract = ContractOf(held.candidate)
    BY <2>1, Apart DEF AcceptedOnly, Matching, Idle, NoCommand, Between
  <2>3. Plain(<<>>)
    BY DEF Plain
  <2> HIDE DEF held
  <2> QED BY <2>1, <2>2, <2>3, StartHolds DEF AcceptedOnly
<1>4. ASSUME NEW c \in Submissions, Validate(c) PROVE ImproveInv'
  <2> DEFINE a == [candidate |-> c, constraint |-> dir.constraints[c.constraint]]
  <2>1. /\ Idle /\ Start(Whole(c), Absent) /\ judged' = judged
        /\ accepted' = accepted \cup {a}
        /\ InScope(c, dir.constraints[c.constraint]) /\ NoGaming(c)
    BY <1>4 DEF Validate, Acceptable, Whole
  <2>2. a \in accepted' /\ a.candidate = c
    BY <2>1
  <2>3. \A d \in accepted' : InScope(d.candidate, d.constraint) /\ NoGaming(d.candidate)
    BY <2>1 DEF AcceptedOnly
  <2> HIDE DEF a
  <2> QED BY <2>1, <2>2, <2>3, StartHolds
<1>5. ASSUME NEW before \in Metrics, NEW after \in Metrics, Compare(before, after) PROVE ImproveInv'
  <2> DEFINE todo == <<Put("comparison", Comparison(before, after))>>
  <2>1. Plain(todo)
    BY PlainWrite DEF Files, BoundFiles
  <2>2. Idle /\ Start(todo, Absent) /\ accepted' = accepted /\ judged' = judged
    BY <1>5 DEF Compare
  <2> HIDE DEF todo
  <2> QED BY <2>1, <2>2, StartHolds DEF AcceptedOnly
<1>6. ASSUME NEW before \in Metrics, NEW after \in Metrics, NEW proof \in GivenProofs,
             Judge(proof, before, after) PROVE ImproveInv'
  BY <1>6, JudgeHolds
<1>7. CASE UNCHANGED improveVars
  BY <1>7 DEF improveVars, ImproveTyped, AcceptedOnly, WasAccepted, ImproveCommands, Writing, Plain, Matching, Between,
              VerifiedIsProved
<1> QED BY <1>1, <1>2, <1>3, <1>4, <1>5, <1>6, <1>7, WriteHolds, KillHolds DEF ImproveNext

(***************************************************************************)
(* The results                                                             *)
(***************************************************************************)

\* In every state the files and the running command are as the invariant says.
THEOREM ImproveInvariance ==
  ASSUME ImprovementAssumption
  PROVE  ImproveSpec => []ImproveInv
<1>1. ImproveInv /\ [ImproveNext]_improveVars => ImproveInv'
  BY ImproveStepHolds
<1> QED BY <1>1, ImproveInitHolds, PTL DEF ImproveSpec

\* `verify` never calls an improvement verified unless exactly this candidate was
\* accepted, in the scope of a constraint and away from graders and tests, and has
\* made no comparable metric worse; and unless a command was killed, the commands of
\* its own plan succeeded and every target of it was changed.
THEOREM VerifiedImprovementIsProved ==
  ASSUME ImprovementAssumption
  PROVE  ImproveSpec => []VerifiedIsProved
<1>1. ImproveInv => VerifiedIsProved
  BY DEF ImproveInv
<1>2. ImproveSpec => []ImproveInv
  BY ImproveInvariance
<1> QED BY <1>1, <1>2, PTL
---------------------------------------------------------------------------
(* The issues of a bundle.                                                  *)

CategoryNames == {"stale_verification", "unknown_root_cause", "unsupported_claim",
                  "missing_verification"}

\* The category of a Claim is a known one or none, and a Claim that does not stand
\* has one.
LEMMA CategoryOfClaim ==
  ASSUME ClaimsAssumption, NEW b \in Bundles, NEW c \in DOMAIN b.claims
  PROVE  /\ Category(b, c) \in CategoryNames \cup {Absent}
         /\ b.claims[c].status \notin {"supported", "partially_supported"} =>
              Category(b, c) # Absent
<1> DEFINE changed == \E e \in Refs(b.claims[c]) : b.evidence[e].changed
           status == b.claims[c].status
<1>0. Category(b, c) = IF changed THEN "stale_verification"
                       ELSE CASE status = "unsupported" -> "unsupported_claim"
                              [] status = "unknown" -> "unknown_root_cause"
                              [] status = "conflicted" -> "missing_verification"
                              [] OTHER -> Absent
  BY DEF Category
<1> HIDE DEF changed, status
<1>1. /\ changed => Category(b, c) = "stale_verification"
      /\ ~changed /\ status = "unsupported" => Category(b, c) = "unsupported_claim"
      /\ ~changed /\ status = "unknown" => Category(b, c) = "unknown_root_cause"
      /\ ~changed /\ status = "conflicted" => Category(b, c) = "missing_verification"
      /\ ~changed /\ status \in {"supported", "partially_supported"} => Category(b, c) = Absent
  BY <1>0
<1>2. status \in {"supported", "partially_supported", "unsupported", "conflicted", "unknown"}
  BY DEF ClaimsAssumption, status
<1>3. Absent \notin CategoryNames
  <2>1. \A n \in 1..4 : Absent # Categories[n]
    BY DEF ClaimsAssumption, Categories
  <2> QED BY <2>1 DEF Categories, CategoryNames
<1>4. /\ Category(b, c) \in CategoryNames \cup {Absent}
      /\ status \notin {"supported", "partially_supported"} => Category(b, c) # Absent
  BY <1>1, <1>2, <1>3 DEF CategoryNames
<1> QED BY <1>4 DEF status

\* Categories of one urgency are one.
LEMMA UrgencyRanks ==
  /\ \A x \in CategoryNames : Urgency(x) \in 1..4
  /\ \A x, y \in CategoryNames : Urgency(x) = Urgency(y) => x = y
<1>1. \A x \in CategoryNames : \E n \in DOMAIN Categories : Categories[n] = x
  <2>1. DOMAIN Categories = 1..4
    BY DEF Categories
  <2>2. /\ Categories[1] = "stale_verification" /\ Categories[2] = "unknown_root_cause"
        /\ Categories[3] = "unsupported_claim" /\ Categories[4] = "missing_verification"
    BY DEF Categories
  <2> QED BY <2>1, <2>2 DEF CategoryNames
<1>2. \A x \in CategoryNames : Urgency(x) \in DOMAIN Categories /\ Categories[Urgency(x)] = x
  BY <1>1 DEF Urgency
<1>3. DOMAIN Categories = 1..4
  BY DEF Categories
<1> QED BY <1>2, <1>3

\* Of some numbers one is the first.
LEMMA FirstIsLeast ==
  ASSUME NEW S, S \subseteq Nat, S # {}
  PROVE  First(S) \in S /\ \A d \in S : First(S) <= d
<1> DEFINE less == OpToRel(<, Nat)
<1>1. \A m, n \in Nat : <<m, n>> \in less <=> m < n
  BY DEF OpToRel
<1>2. IsWellFoundedOn(less, Nat)
  BY NatLessThanWellFounded
<1> HIDE DEF less
<1>3. PICK x \in S : \A y \in S : ~ (<<y, x>> \in less)
  BY <1>2, WFMin
<1>4. ASSUME NEW y \in S PROVE x <= y
  <2>1. x \in Nat /\ y \in Nat /\ ~ (y < x)
    BY <1>1, <1>3
  <2> QED BY <2>1
<1> QED BY <1>3, <1>4 DEF First

\* Every Claim with a category is in a group of its own kind.
LEMMA GroupOfClaim ==
  ASSUME NEW b \in Bundles, NEW c \in DOMAIN b.claims, Category(b, c) # Absent
  PROVE  /\ IssueOf(b, c) \in Groups(b)
         /\ c \in IssueOf(b, c).findings
         /\ IssueOf(b, c).category = Category(b, c)
         /\ IssueOf(b, c).evidence = Refs(b.claims[c])
BY DEF Groups, IssueOf, OneIssue

\* A group is the group of each of its findings.
LEMMA GroupFacts ==
  ASSUME ClaimsAssumption, NEW b \in Bundles, NEW g \in Groups(b)
  PROVE  /\ g.findings # {} /\ g.findings \subseteq DOMAIN b.claims
         /\ g.category \in CategoryNames
         /\ \A c \in g.findings : /\ g = IssueOf(b, c) /\ Category(b, c) # Absent
                                  /\ g.evidence = Refs(b.claims[c])
         /\ First(g.findings) \in g.findings /\ First(g.findings) \in Nat
<1>1. PICK d \in DOMAIN b.claims : Category(b, d) # Absent /\ g = IssueOf(b, d)
  BY DEF Groups
<1>2. /\ g.findings = OneIssue(b, d) /\ g.category = Category(b, d)
      /\ g.evidence = Refs(b.claims[d])
  BY <1>1 DEF IssueOf
<1>3. d \in g.findings /\ g.findings \subseteq DOMAIN b.claims
  BY <1>2 DEF OneIssue
<1>4. g.category \in CategoryNames
  BY <1>1, <1>2, CategoryOfClaim
<1>5. ASSUME NEW c \in g.findings
      PROVE  g = IssueOf(b, c) /\ Category(b, c) # Absent /\ g.evidence = Refs(b.claims[c])
  <2>1. Category(b, c) = Category(b, d) /\ Refs(b.claims[c]) = Refs(b.claims[d])
    BY <1>2 DEF OneIssue
  <2>2. OneIssue(b, c) = OneIssue(b, d)
    BY <2>1 DEF OneIssue
  <2> QED BY <1>1, <1>2, <2>1, <2>2 DEF IssueOf
<1>6. First(g.findings) \in g.findings /\ First(g.findings) \in Nat
  BY <1>3, FirstIsLeast DEF ClaimsAssumption
<1> QED BY <1>3, <1>4, <1>5, <1>6

\* The order of the issues is a total one.
LEMMA BeforeIsOrder ==
  ASSUME ClaimsAssumption, NEW b \in Bundles
  PROVE  /\ \A g \in Groups(b) : ~Before(g, g)
         /\ \A g, h, i \in Groups(b) : Before(g, h) /\ Before(h, i) => Before(g, i)
         /\ \A g, h \in Groups(b) : g = h \/ Before(g, h) \/ Before(h, g)
<1>1. \A g \in Groups(b) : /\ Urgency(g.category) \in 1..4
                           /\ First(g.findings) \in Nat
  BY GroupFacts, UrgencyRanks
<1>2. \A g, h \in Groups(b) : Urgency(g.category) = Urgency(h.category) => g.category = h.category
  BY GroupFacts, UrgencyRanks
<1>3. \A g, h \in Groups(b) : First(g.findings) = First(h.findings) => g = h
  BY GroupFacts
<1>4. \A g \in Groups(b) : ~Before(g, g)
  BY <1>1 DEF Before
<1>5. \A g, h, i \in Groups(b) : Before(g, h) /\ Before(h, i) => Before(g, i)
  BY <1>1 DEF Before
<1>6. \A g, h \in Groups(b) : g = h \/ Before(g, h) \/ Before(h, g)
  BY <1>1, <1>2, <1>3 DEF Before
<1> QED BY <1>4, <1>5, <1>6

\* The places of the issues are the numbers from 1, each taken once and in order.
LEMMA PlacesAreRanks ==
  ASSUME ClaimsAssumption, NEW b \in Bundles
  PROVE  /\ \A g \in Groups(b) : Place(b, g) \in Nat \ {0}
         /\ \A g, h \in Groups(b) : Before(g, h) => Place(b, g) < Place(b, h)
         /\ \A g \in Groups(b) : \A n \in 1..Place(b, g) : \E h \in Groups(b) : Place(b, h) = n
<1> DEFINE G == Groups(b)
           Below(g) == {h \in G : Before(h, g)}
           N == Cardinality(G)
<1>1. IsFiniteSet(G)
  <2> DEFINE C == {d \in DOMAIN b.claims : Category(b, d) # Absent}
             issueOf == [c \in C |-> IssueOf(b, c)]
  <2>1. IsFiniteSet(C)
    BY FS_Subset DEF ClaimsAssumption
  <2>2. issueOf \in Surjection(C, G)
    BY DEF Groups, Surjection
  <2> HIDE DEF C, G, issueOf
  <2> QED BY <2>1, <2>2, FS_Surjection
<1>2. N \in Nat
  BY <1>1, FS_CardinalityType
<1>3. \A g \in G : Place(b, g) = 1 + Cardinality(Below(g))
  BY DEF Place
<1>4. \A g \in G : ~Before(g, g)
  BY BeforeIsOrder
<1>5. \A g, h, i \in G : Before(g, h) /\ Before(h, i) => Before(g, i)
  BY BeforeIsOrder
<1>6. \A g, h \in G : g = h \/ Before(g, h) \/ Before(h, g)
  BY BeforeIsOrder
<1> HIDE DEF G
<1>7. \A g \in G : IsFiniteSet(Below(g)) /\ Cardinality(Below(g)) \in Nat
  BY <1>1, FS_Subset, FS_CardinalityType
<1>8. ASSUME NEW g \in G PROVE Place(b, g) \in 1..N
  <2>1. Below(g) \in SUBSET G /\ Below(g) # G
    BY <1>4
  <2>2. Cardinality(Below(g)) <= N /\ Cardinality(Below(g)) # N
    BY <1>1, <2>1, FS_Subset
  <2> HIDE DEF Below, N
  <2> QED BY <1>2, <1>3, <1>7, <2>2
<1>9. ASSUME NEW g \in G, NEW h \in G, Before(g, h) PROVE Place(b, g) < Place(b, h)
  <2>1. Below(g) \in SUBSET Below(h) /\ Below(g) # Below(h)
    BY <1>4, <1>5, <1>9
  <2>2. /\ Cardinality(Below(g)) <= Cardinality(Below(h))
        /\ Cardinality(Below(g)) # Cardinality(Below(h))
    BY <1>7, <2>1, FS_Subset
  <2> HIDE DEF Below
  <2> QED BY <1>3, <1>7, <2>2
<1>10. ASSUME NEW n \in 1..N PROVE \E h \in G : Place(b, h) = n
  <2> DEFINE place == [h \in G |-> Place(b, h)]
  <2>1. place \in Injection(G, 1..N)
    <3>1. place \in [G -> 1..N]
      BY <1>8
    <3>2. ASSUME NEW g \in G, NEW h \in G, place[g] = place[h] PROVE g = h
      BY <1>6, <1>8, <1>9, <3>2, <1>2
    <3> HIDE DEF place
    <3> QED BY <3>1, <3>2 DEF Injection, IsInjective
  <2>2. IsFiniteSet(1..N) /\ Cardinality(1..N) = N
    BY <1>2, FS_Interval
  <2>3. place \in Surjection(G, 1..N)
    <3> HIDE DEF place
    <3> QED BY <2>1, <2>2, FS_Injection
  <2> QED BY <2>3 DEF Surjection
<1>11. ASSUME NEW g \in G, NEW n \in 1..Place(b, g) PROVE \E h \in G : Place(b, h) = n
  <2>1. n \in 1..N
    BY <1>2, <1>8
  <2> QED BY <2>1, <1>10
<1>12. \A g \in G : Place(b, g) \in Nat \ {0}
  BY <1>2, <1>8
<1> QED BY <1>9, <1>11, <1>12 DEF G

\* An issue stands at its place.
LEMMA IssueAtPlace ==
  ASSUME ClaimsAssumption, NEW b \in Bundles
  PROVE  /\ \A n \in DOMAIN Issues(b) : /\ n \in 1..MaxIssues
                                        /\ Issues(b)[n] \in Groups(b)
                                        /\ Place(b, Issues(b)[n]) = n
         /\ \A g \in Groups(b) : Place(b, g) <= MaxIssues =>
              Place(b, g) \in DOMAIN Issues(b) /\ Issues(b)[Place(b, g)] = g
<1> DEFINE places == {Place(b, g) : g \in Groups(b)} \cap 1..MaxIssues
           At(n) == CHOOSE g \in Groups(b) : Place(b, g) = n
<1>1. Issues(b) = [n \in places |-> At(n)]
  BY DEF Issues
<1>2. \A n \in places : At(n) \in Groups(b) /\ Place(b, At(n)) = n
  OBVIOUS
<1>3. \A g, h \in Groups(b) : Place(b, g) = Place(b, h) => g = h
  BY BeforeIsOrder, PlacesAreRanks
<1>4. \A g \in Groups(b) : Place(b, g) <= MaxIssues => Place(b, g) \in places
  BY PlacesAreRanks DEF MaxIssues
<1>5. places \subseteq 1..MaxIssues /\ DOMAIN Issues(b) = places
  BY <1>1
<1> HIDE DEF places, At
<1>6. \A n \in places : Issues(b)[n] = At(n)
  BY <1>1
<1> QED BY <1>2, <1>3, <1>4, <1>5, <1>6

\* What is derived from a bundle keeps its findings.
LEMMA FindingsOfBundle ==
  ASSUME ClaimsAssumption PROVE FindingsAreKept
<1> SUFFICES ASSUME NEW b \in Bundles
             PROVE  LET issues == Issues(b) IN
        /\ \A c \in DOMAIN b.claims :
             LET of == {n \in DOMAIN issues : c \in issues[n].findings}
             IN  /\ b.claims[c].status \notin {"supported", "partially_supported"} =>
                      \/ \E n \in of : of = {n} /\ issues[n].evidence = Refs(b.claims[c])
                      \/ /\ of = {} /\ DOMAIN issues = 1..MaxIssues
                         /\ \A n \in DOMAIN issues :
                              Urgency(issues[n].category) <= Urgency(Category(b, c))
        /\ \A n \in DOMAIN issues : \A path \in AllowedPaths(b, issues[n]) :
             \E c \in issues[n].findings : \E e \in Refs(b.claims[c]) : path \in b.evidence[e].paths
  <2>1. \A b \in Bundles : /\ Derived[b].issues = Issues(b)
                           /\ \A n \in DOMAIN Issues(b) :
                                Derived[b].constraints[n].allowed = AllowedPaths(b, Issues(b)[n])
    BY DEF Derived, Constraint
  <2> QED BY <2>1 DEF FindingsAreKept
<1> DEFINE issues == Issues(b)
<1>1. \A n \in DOMAIN issues : n \in 1..MaxIssues /\ issues[n] \in Groups(b) /\ Place(b, issues[n]) = n
  BY IssueAtPlace
<1>2. \A g \in Groups(b) : Place(b, g) <= MaxIssues =>
        Place(b, g) \in DOMAIN issues /\ issues[Place(b, g)] = g
  BY IssueAtPlace
<1> HIDE DEF issues
<1>3. ASSUME NEW c \in DOMAIN b.claims,
             b.claims[c].status \notin {"supported", "partially_supported"}
      PROVE  LET of == {n \in DOMAIN issues : c \in issues[n].findings}
             IN  \/ \E n \in of : of = {n} /\ issues[n].evidence = Refs(b.claims[c])
                 \/ /\ of = {} /\ DOMAIN issues = 1..MaxIssues
                    /\ \A n \in DOMAIN issues :
                         Urgency(issues[n].category) <= Urgency(Category(b, c))
  <2> DEFINE of == {n \in DOMAIN issues : c \in issues[n].findings}
             g == IssueOf(b, c)
  <2>1. /\ g \in Groups(b) /\ c \in g.findings
        /\ g.category = Category(b, c) /\ g.evidence = Refs(b.claims[c])
    BY <1>3, CategoryOfClaim, GroupOfClaim
  <2>2. \A n \in of : issues[n] = g /\ n = Place(b, g)
    BY <1>1, GroupFacts
  <2> HIDE DEF g
  <2>3. CASE Place(b, g) <= MaxIssues
    <3>1. Place(b, g) \in of /\ issues[Place(b, g)] = g
      BY <1>2, <2>1, <2>3
    <3> HIDE DEF of
    <3>2. of = {Place(b, g)}
      BY <2>2, <3>1
    <3> QED BY <2>1, <3>1, <3>2 DEF of
  <2>4. CASE ~ (Place(b, g) <= MaxIssues)
    <3>1. of = {}
      BY <1>1, <2>2, <2>4 DEF MaxIssues
    <3>2. Place(b, g) \in Nat /\ MaxIssues < Place(b, g)
      BY <2>1, <2>4, PlacesAreRanks DEF MaxIssues
    <3>3. ASSUME NEW n \in 1..MaxIssues PROVE n \in DOMAIN issues
      <4>1. n \in 1..Place(b, g)
        BY <3>2 DEF MaxIssues
      <4>2. PICK h \in Groups(b) : Place(b, h) = n
        BY <2>1, <4>1, PlacesAreRanks
      <4> QED BY <1>2, <4>2 DEF MaxIssues
    <3>4. DOMAIN issues = 1..MaxIssues
      BY <1>1, <3>3
    <3>5. ASSUME NEW n \in DOMAIN issues
          PROVE  Urgency(issues[n].category) <= Urgency(Category(b, c))
      <4>1. issues[n] \in Groups(b) /\ Place(b, issues[n]) < Place(b, g)
        BY <1>1, <3>2 DEF MaxIssues
      <4>2. ~Before(g, issues[n])
        BY <2>1, <3>2, <4>1, PlacesAreRanks
      <4>3. Before(issues[n], g)
        BY <2>1, <4>1, <4>2, <3>2, BeforeIsOrder
      <4>4. /\ Urgency(issues[n].category) \in 1..4
            /\ Urgency(g.category) \in 1..4
        BY <2>1, <4>1, GroupFacts, UrgencyRanks
      <4> QED BY <2>1, <4>3, <4>4 DEF Before
    <3> QED BY <3>1, <3>4, <3>5
  <2> QED BY <2>3, <2>4
<1>4. ASSUME NEW n \in DOMAIN issues, NEW path \in AllowedPaths(b, issues[n])
      PROVE  \E c \in issues[n].findings : \E e \in Refs(b.claims[c]) : path \in b.evidence[e].paths
  <2>1. PICK e \in issues[n].evidence : path \in b.evidence[e].paths
    BY <1>4 DEF AllowedPaths
  <2>2. PICK c \in issues[n].findings : issues[n].evidence = Refs(b.claims[c])
    BY <1>1, GroupFacts
  <2> QED BY <2>1, <2>2
<1> QED BY <1>3, <1>4 DEF issues

\* What is derived from records keeps what they say: redaction keeps a consistent
\* bundle consistent, and of the Claims that do not stand none is lost, torn from its
\* evidence or put behind a less urgent one.
THEOREM DerivedIsAlwaysFaithful == Behaviour => []DerivedIsFaithful
<1> DEFINE Inv == part = "bundle" => BundleInv
<1>1. Begin => Inv
  BY BundleInitHolds DEF Begin
<1>2. Inv /\ [Step]_allVars => Inv'
  <2> SUFFICES ASSUME Inv, [Step]_allVars, part' = "bundle" PROVE BundleInv'
    OBVIOUS
  <2>1. part = "bundle" /\ BundleInv /\ [Next]_vars
    BY DEF Step, allVars
  <2> QED BY <2>1, BundleStepHolds
<1>3. FindingsAreKept
  BY MCAssumption, FindingsOfBundle
<1>4. Inv => DerivedIsFaithful
  BY <1>3, RedactionHolds DEF DerivedIsFaithful
<1> QED BY <1>1, <1>2, <1>4, PTL DEF Behaviour
=============================================================================
