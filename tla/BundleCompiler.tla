--------------------------- MODULE BundleCompiler ---------------------------
(***************************************************************************)
(* From the records of an investigation to a review of its bundle          *)
(* (bundle/compiler.py, integrity.py, review_validator.py): compile_bundle *)
(* selects the records of one question, redacts, writes and validates them *)
(* in a temporary directory and renames it; validate_review_result loads   *)
(* the directory again and checks a reviewer's conclusion against it.      *)
(*                                                                         *)
(* Compilers of one output may overlap or die, and someone may edit the    *)
(* published files, take an edit back, and seal what they made of them;    *)
(* the records of the investigation do not change.  A reviewer's load      *)
(* parses the files and reads them again for their hashes, and the files   *)
(* may change in between.                                                  *)
(***************************************************************************)
EXTENDS EvidenceBundle

CONSTANTS
    Payloads,     \* the records an investigation may leave
    Compilers,
    Conclusions,  \* [disposition, claims, evidence, counter]
    Alter(_),     \* Alter(b): what an editor may make of the records b
    MaxDeaths,    \* bounds
    MaxEdits

ASSUME BundleAssumption ==
    /\ MaxDeaths \in Nat /\ MaxEdits \in Nat
    /\ \A p \in Payloads : WellFormedRecords(p)

VARIABLES
    payload,   \* the records, policy and Blobs given to the compilers
    job,       \* job[p]: None, or what the temporary directory of p holds
    outcome,   \* outcome[p]: what compile_bundle of p came to, or None
    output,    \* the published directory, or None
    published, \* history: what the compiler published, or None
    reading,   \* what validate_review_result has parsed and not yet hashed, or None
    review,    \* what it passed last, or None: the conclusion, and whether what was
               \* parsed was what was hashed and the manifest the compiler's
    deaths, edits

reviewVars == <<reading, review>>
vars == <<payload, job, outcome, output, published, reading, review, deaths, edits>>

\* The files of a directory, the files as manifest.json hashes them, and what else
\* there is: None, "file" or "link".
Sealed(b) == [files |-> b, hashed |-> b, stray |-> None]

\* load_bundle reads manifest.json and the records first ("parsed"), then the bytes of
\* every file: the Blobs and what is hashed are of directory d.
Parsed(d) == [files |-> d.files, hashed |-> d.hashed]
Loaded(parsed, d) == [parsed.files EXCEPT !.blobs = d.files.blobs]

\* It follows no link, and wants the Blobs within the policy's budget.
Loads(parsed, d) == d.stray # "link" /\ BlobsFit(Loaded(parsed, d))

\* Defective variant: the files are there, whatever they hold.
IntactByName(parsed, d) == d.stray # "file"
\* validate_integrity: each hash is right, and every file is hashed.
Intact(parsed, d) == d.files = parsed.hashed /\ d.stray # "file"

\* validate_bundle
Passes(parsed, d) == Loads(parsed, d) /\ Intact(parsed, d) /\ Valid(Loaded(parsed, d))
\* The same of a directory that nobody edits meanwhile.
Accepted(d) == Passes(Parsed(d), d)

Init ==
    /\ payload \in Payloads
    /\ job = [p \in Compilers |-> None]
    /\ outcome = [p \in Compilers |-> None]
    /\ output = None /\ published = None
    /\ reading = None /\ review = None
    /\ deaths = 0 /\ edits = 0

\* Everything compile_bundle does before it makes a directory.
Material(claims) ==
    LET selected == WithBlobs(Select(payload, claims))
    IN  IF payload.policy.redact THEN Redact(selected) ELSE selected
Prepared(claims) ==
    /\ Selectable(payload, claims)
    /\ BlobRefs(Select(payload, claims)) \subseteq payload.blobs
    /\ payload.policy.redact => Redactable(WithBlobs(Select(payload, claims)))

Fresh(p) == job[p] = None /\ outcome[p] = None

\* claims: the Claims asked for, None for all.
Refuse(p, claims) ==
    /\ Fresh(p)
    /\ output # None \/ ~Prepared(claims)
    /\ outcome' = [outcome EXCEPT ![p] = "refused"]
    /\ UNCHANGED <<payload, job, output, published, reviewVars, deaths, edits>>

\* _write_compiled_files: records, index, hashes.
Write(p, claims) ==
    /\ Fresh(p)
    /\ output = None /\ Prepared(claims)
    /\ job' = [job EXCEPT ![p] = Sealed(Indexed(Material(claims)))]
    /\ UNCHANGED <<payload, outcome, output, published, reviewVars, deaths, edits>>

\* The directory does not validate, or another one has taken the place: it is
\* removed.
Discard(p) ==
    /\ job[p] # None /\ outcome[p] = None
    /\ ~Accepted(job[p]) \/ output # None
    /\ job' = [job EXCEPT ![p] = None]
    /\ outcome' = [outcome EXCEPT ![p] = "refused"]
    /\ UNCHANGED <<payload, output, published, reviewVars, deaths, edits>>

\* It validates and is renamed to the output, which must not be there.
Publish(p) ==
    /\ job[p] # None /\ outcome[p] = None
    /\ Accepted(job[p]) /\ output = None
    /\ output' = job[p] /\ published' = job[p].files
    /\ outcome' = [outcome EXCEPT ![p] = "published"]
    /\ job' = [job EXCEPT ![p] = None]
    /\ UNCHANGED <<payload, reviewVars, deaths, edits>>

\* compile_bundle returns what the last validate_bundle loads.
Return(p) ==
    /\ outcome[p] = "published"
    /\ outcome' = [outcome EXCEPT ![p] = IF Accepted(output) THEN "returned" ELSE "failed"]
    /\ UNCHANGED <<payload, job, output, published, reviewVars, deaths, edits>>

\* A compiler dies; its temporary directory stays, and nobody reads it.
Die(p) ==
    /\ outcome[p] \notin {"refused", "returned", "failed", "dead"}
    /\ deaths < MaxDeaths
    /\ deaths' = deaths + 1
    /\ outcome' = [outcome EXCEPT ![p] = "dead"]
    /\ UNCHANGED <<payload, job, output, published, reviewVars, edits>>

\* Someone edits files of the published bundle, leaves one there or removes it, and may
\* seal what is there with a manifest of their own.
Edit ==
    /\ output # None /\ edits < MaxEdits
    /\ \/ \E files \in Alter(output.files) : output' = [output EXCEPT !.files = files]
       \/ \E other \in {None, "file", "link"} : output' = [output EXCEPT !.stray = other]
       \/ output' = [output EXCEPT !.hashed = output.files]
    /\ output' # output
    /\ edits' = edits + 1
    /\ UNCHANGED <<payload, job, outcome, published, reviewVars, deaths>>

---------------------------------------------------------------------------
(* Reviews.                                                                 *)

Definitive == {"accept", "request_change"}

\* _validate_conclusion_grounding
ConclusionGrounded(b, r) ==
    /\ r.claims # {} /\ r.claims \subseteq DOMAIN b.claims
    /\ r.evidence \cup r.counter \subseteq DOMAIN b.evidence
    /\ r.evidence \subseteq UNION {b.claims[c].evidence : c \in r.claims}
    /\ r.counter = UNION {b.claims[c].counter : c \in r.claims}
    /\ r.disposition \in Definitive =>
         \A c \in r.claims : \E e \in r.evidence \cap b.claims[c].evidence :
             Strong(b.evidence[e]) /\ b.evidence[e].fresh = "current"
    /\ \A c \in r.claims :
         /\ b.claims[c].status = "unknown" => r.disposition \notin Definitive
         /\ r.disposition = "accept" => b.claims[c].status = "supported"

\* validate_review_result parses the files, and reads them again.
Open ==
    /\ output # None /\ reading = None
    /\ reading' = Parsed(output)
    /\ UNCHANGED <<payload, job, outcome, output, published, review, deaths, edits>>

Review(r) ==
    /\ reading # None /\ Passes(reading, output)
    /\ ConclusionGrounded(Loaded(reading, output), r)
    /\ review' = [said |-> r, steady |-> reading.files = output.files,
                  genuine |-> reading.hashed = published]
    /\ reading' = None
    /\ UNCHANGED <<payload, job, outcome, output, published, deaths, edits>>

\* Another conclusion, or other files, and the review is refused.
RefuseReview ==
    /\ reading # None
    /\ reading' = None
    /\ UNCHANGED <<payload, job, outcome, output, published, review, deaths, edits>>

Next ==
    \/ \E p \in Compilers :
         \/ \E claims \in (SUBSET DOMAIN payload.claims) \cup {None} :
              Refuse(p, claims) \/ Write(p, claims)
         \/ Discard(p) \/ Publish(p) \/ Return(p) \/ Die(p)
    \/ Edit
    \/ Open \/ RefuseReview
    \/ \E r \in Conclusions : Review(r)

Spec == Init /\ [][Next]_vars
---------------------------------------------------------------------------
(* Properties.                                                              *)

\* Where a compiler is; what it publishes has its own index.
TypeOK ==
    /\ payload \in Payloads
    /\ \A p \in Compilers : outcome[p] \in {None, "refused", "published", "returned", "failed", "dead"}
    /\ published # None => published.index = IndexOf(published)
    /\ review = None \/ review.said \in Conclusions

\* Slicing by question hides nothing: whatever Claims were asked for, a published
\* Claim comes with all the evidence of the investigation for it and against it,
\* also the evidence only the other side of the reference knows, and says so.
NothingHidden ==
    /\ TypeOK
    /\ published # None => \A c \in DOMAIN published.claims :
         LET claim == published.claims[c]
         IN  /\ claim.evidence = Supporting(payload, c)
             /\ claim.counter = Contradicting(payload, c)
             /\ claim.evidence \cup claim.counter \subseteq DOMAIN published.evidence

\* Redaction moves every Blob to a new address, rewrites what refers to it, and the paths
\* beside: a selection that validates still does, unless a Blob grew beyond the budget or
\* a redacted path is none that could be read; no secret is left in a Blob, a path or a
\* reference.
RedactionKeepsBinding ==
    (\A p \in Compilers : Fresh(p)) => \A claims \in (SUBSET DOMAIN payload.claims) \cup {None} :
        (Prepared(claims) /\ payload.policy.redact) =>
            LET selected == WithBlobs(Select(payload, claims))
                redacted == Indexed(Redact(selected))
            IN  /\ Valid(Indexed(selected)) =>
                     (Valid(redacted) <=> BlobsFit(redacted) /\ PathsAllowed(redacted))
                /\ \A blob \in redacted.blobs : Clean[blob] = blob
                /\ \A s \in DOMAIN redacted.sources : LET path == redacted.sources[s].path IN
                     path # None => CleanPath[path] = path
                /\ Names(redacted) \cap SecretIds = {}

\* A review that passed rests on the investigation itself: each Claim it accepts
\* has current, at least corroborated evidence there that the reviewer cites, and
\* all evidence against it is disclosed, whatever was done to the files before.  Two
\* things it does not survive: a manifest someone sealed anew, which nothing
\* authenticates, and an edit that was parsed and taken back before the file was hashed.
ReviewsRestOnRecords ==
    review # None /\ review.genuine /\ review.steady => \A c \in review.said.claims :
        /\ Contradicting(payload, c) \subseteq review.said.counter
        /\ review.said.disposition = "accept" => payload.claims[c].status = "supported"
        /\ review.said.disposition \in Definitive =>
             \E e \in review.said.evidence : /\ c \in payload.evidence[e].supports
                                        /\ payload.evidence[e].fresh = "current"
                                        /\ Strong(payload.evidence[e])
=============================================================================
