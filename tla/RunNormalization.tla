-------------------------- MODULE RunNormalization --------------------------
(***************************************************************************)
(* `aet run normalize` (run_normalization/core.py): a native run is        *)
(* imported in chunks, each merged into the result of the ones before it.  *)
(* The merge keeps the first record of each identity, drops a second       *)
(* result of a call, and links results to calls over everything imported.  *)
(*                                                                         *)
(* A source record is what an adapter extracts from one event: its type,   *)
(* the native id or NoId, the tool call id (NoCall when there is none) and *)
(* its content.  Records are named by identity; the hash over group,       *)
(* generation, stable id and component is the tuple of its parts.          *)
(***************************************************************************)
EXTENDS Naturals, Sequences, FiniteSets

CONSTANTS
    Drafts,    \* source records: [type, native, call, content]
    NoCall,    \* the empty tool call id of a draft without one
    NoId,      \* no native id, no link
    Explicit,  \* whether the imports may, must or must not name a generation
    MaxLength  \* bounds: length of the source run, for each member of Explicit

NormalizationAssumption ==
    /\ \A d \in Drafts : d.type \in {"call", "result", "message"}
    /\ Explicit \in SUBSET BOOLEAN \ {{}}
    /\ MaxLength \in [Explicit -> Nat]

VARIABLES
    source,    \* the native run, a sequence of drafts
    upTo,      \* how much of it has been imported
    explicit,  \* whether every import named its generation
    run        \* the normalized run: records, diagnostics, partial

importVars == <<source, upTo, explicit, run>>

---------------------------------------------------------------------------
(* Identity and merge.                                                      *)

Content(d) == <<d.type, d.call, d.content>>

\* build_identity: native id, else content for a partial import that names no
\* generation, else the position in the source.
Stable(d, pos, fallback) ==
    IF d.native # NoId THEN <<"native", d.native>>
    ELSE IF fallback THEN <<"content", Content(d)>>
    ELSE <<"location", pos>>

RecordFromDraft(d, pos, fallback) ==
    [id |-> [stable |-> Stable(d, pos, fallback), component |-> <<d.type, d.call>>],
     draft |-> d, linked |-> NoId]

\* Defective variant: positions count from the start of the chunk.
CurrentFromZero(src, lo, hi, fallback) ==
    [n \in 1..(hi - lo + 1) |-> RecordFromDraft(src[lo + n - 1], n, fallback)]
CurrentRecords(src, lo, hi, fallback) ==
    [n \in 1..(hi - lo + 1) |-> RecordFromDraft(src[lo + n - 1], lo + n - 1, fallback)]

\* The elements of s at these positions, in order.
Nth(at, n) == CHOOSE i \in at : Cardinality({j \in at : j <= i}) = n
Picked(s, at) == [n \in 1..Cardinality(at) |-> s[Nth(at, n)]]

\* One identity with two contents is refused.
Agree(s) ==
    \A i, j \in DOMAIN s : s[i].id = s[j].id => Content(s[i].draft) = Content(s[j].draft)

Merge(s) == Picked(s, {i \in DOMAIN s : \A j \in 1..(i - 1) : s[j].id # s[i].id})

---------------------------------------------------------------------------
(* Tool links.                                                              *)

IsResult(r) == r.draft.type = "result"

\* The identity of the first call with this call id, if there is one.
CallFor(s, call) ==
    LET at == {i \in DOMAIN s : s[i].draft.type = "call" /\ s[i].draft.call = call}
    IN  IF at = {} \/ call = NoCall THEN NoId
        ELSE s[CHOOSE i \in at : \A j \in at : i <= j].id

\* A second result with a call id already answered: NoCall counts as one.
Duplicate(s, i) ==
    IsResult(s[i]) /\ \E j \in 1..(i - 1) : IsResult(s[j]) /\ s[j].draft.call = s[i].draft.call
Link(s) ==
    LET kept == Picked(s, {i \in DOMAIN s : ~Duplicate(s, i)})
    IN  [n \in DOMAIN kept |->
            IF IsResult(kept[n])
            THEN [kept[n] EXCEPT !.linked = CallFor(s, kept[n].draft.call)]
            ELSE kept[n]]

Unanswered(s) ==
    {c \in {s[i].draft.call : i \in {j \in DOMAIN s : s[j].draft.type = "call"}} :
        c # NoCall /\ \A i \in DOMAIN s : IsResult(s[i]) => s[i].draft.call # c}

\* The diagnostics of a merge that linking and the run as a whole give.
Findings(s, partial) ==
    {"duplicate_tool_result" : i \in {i \in DOMAIN s : Duplicate(s, i)}}
    \cup {"orphan_tool_result" : i \in {i \in DOMAIN s :
            IsResult(s[i]) /\ ~Duplicate(s, i) /\ CallFor(s, s[i].draft.call) = NoId}}
    \cup {"missing_tool_result" : c \in IF partial THEN {} ELSE Unanswered(s)}
    \cup {"partial_run" : c \in IF partial THEN {1} ELSE {}}

Carried(diagnostics) == diagnostics \ {"orphan_tool_result", "missing_tool_result"}

---------------------------------------------------------------------------
(* normalize_run.                                                           *)

NoRun == [records |-> <<>>, diagnostics |-> {}, partial |-> FALSE]

Normalized(prior, current, partial) ==
    LET merged == Merge(prior.records \o current)
    IN  [records     |-> Link(merged),
         diagnostics |-> Carried(prior.diagnostics) \cup Findings(merged, partial),
         partial     |-> partial]

\* One import of the first n source records.
Whole(n, partial) == Normalized(NoRun, CurrentRecords(source, 1, n, FALSE), partial)

ImportsInit ==
    /\ explicit \in Explicit
    /\ source \in UNION {[1..n -> Drafts] : n \in 1..MaxLength[explicit]}
    /\ upTo = 0
    /\ run = NoRun

\* The chunks come in order and may overlap what was imported; a run may be
\* declared complete and extended all the same.  The first import always has a
\* generation: the caller's or "generation-0"; the later ones inherit it.
Import(lo, hi, partial) ==
    LET current == CurrentRecords(source, lo, hi, partial /\ ~explicit)
    IN  /\ Agree(run.records \o current)
        /\ run' = Normalized(run, current, partial)
        /\ upTo' = IF hi > upTo THEN hi ELSE upTo
        /\ UNCHANGED <<source, explicit>>

ImportsNext ==
    \E lo \in 1..(upTo + 1), hi \in 1..Len(source), partial \in BOOLEAN :
        lo <= hi /\ Import(lo, hi, partial)

ImportsSpec == ImportsInit /\ [][ImportsNext]_importVars
---------------------------------------------------------------------------
(* Properties.                                                              *)

\* Type invariant: positions, and results are the only records with links.
ImportsTypeOK ==
    /\ upTo \in 0..Len(source)
    /\ run.partial \in BOOLEAN
    /\ \A i \in DOMAIN run.records :
         LET r == run.records[i]
         IN  /\ r.draft \in Drafts
             /\ r.linked # NoId => IsResult(r) /\ \E j \in DOMAIN run.records : run.records[j].id = r.linked

\* Chunks leave no trace: after any sequence of overlapping imports that named
\* their generation, records and links are those of one import of everything
\* read so far ("Reimporting the same chunk is idempotent. Tool calls and later
\* results can link across the prior/current boundary.").
ChunksLeaveNoTrace ==
    explicit => run.records = Whole(upTo, FALSE).records
\* A call has at most one result, whichever imports the results came with, and
\* the diagnostics do not outlive their reasons: an orphan or a missing result is
\* reported exactly when the records as they are now have one.
LinksAreCurrent ==
    LET s == run.records
    IN  /\ ImportsTypeOK
        /\ \A i, j \in DOMAIN s :
             (IsResult(s[i]) /\ IsResult(s[j]) /\ s[i].draft.call = s[j].draft.call) => i = j
        /\ ("orphan_tool_result" \in run.diagnostics)
              <=> \E i \in DOMAIN s : IsResult(s[i]) /\ s[i].linked = NoId
        /\ ("missing_tool_result" \in run.diagnostics)
              <=> (~run.partial /\ Unanswered(s) # {})
\* Chunked imports are one import, and their links are those of the records.
ImportsAreOne == ChunksLeaveNoTrace /\ LinksAreCurrent
=============================================================================
