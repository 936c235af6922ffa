-------------------------- MODULE PlanningContext --------------------------
(***************************************************************************)
(* What the Evidence-Guided Planner puts into a planning context           *)
(* (planning/context_builder.py with relevance, source_navigator, policy,  *)
(* gap_detector and bundle_loader), as functions of a request, a validated *)
(* Bundle and the files of the workspace.                                  *)
(*                                                                         *)
(* A pattern is the set of paths it matches and whether it is a directory; *)
(* a content stands for its hash, and what it is like is given by Size,    *)
(* Lines and Texts.  A Bundle is a record of functions from ids:           *)
(*   claims:    [evidence, counter, unknown]                               *)
(*   evidence:  [sources, paths, freshness, commands]                      *)
(*   sources:   [path, hash], either of which may be missing               *)
(*   conflicts: a set, since a Conflict says nothing a plan depends on     *)
(* and of its policy: allowed, a set of patterns, and denied, of paths.    *)
(* Records are ranked by reasons; the texts they share words with the      *)
(* request are given by the set "lexical" of the request.                  *)
(***************************************************************************)
EXTENDS Integers, Sequences, FiniteSetsExt

CONSTANTS
    Paths,     \* repository paths, as numbers: seeds are visited in their order
    Contents,  \* what a file may hold
    Size, Lines, Texts,   \* of a content; Texts are the ones that decode as text
    Languages, \* paths whose suffix names a language
    Fixtures,  \* paths every plan protects (improvement/constraint/rules.py)
    Nothing

\* No Bundle was supplied.
NoBundle ==
    [claims |-> <<>>, evidence |-> <<>>, sources |-> <<>>, conflicts |-> {},
     allowed |-> {}, denied |-> {}]

Matched(patterns) == UNION {p.paths : p \in patterns}
Exact(path) == [paths |-> {path}, directory |-> FALSE]
ExplicitPaths(patterns) == UNION {p.paths : p \in {x \in patterns : ~x.directory}}

\* The Bundle's policy and every path its evidence is bound to.
BundleAllowed(b) ==
    b.allowed \cup {Exact(p) : p \in UNION {b.evidence[e].paths : e \in DOMAIN b.evidence}}
BundleCommands(b) == UNION {b.evidence[e].commands : e \in DOMAIN b.evidence}

\* Patterns of the request that overlap one of the Bundle's are kept whole.
Allowed(r, b) ==
    LET policy == BundleAllowed(b)
    IN  IF r.allowed = {} THEN policy
        ELSE IF policy = {} THEN r.allowed
        ELSE {p \in r.allowed : \E q \in policy : p.paths \cap q.paths # {}}
Constraints(r, b) ==
    [allowed |-> Matched(Allowed(r, b)), protected |-> Fixtures \cup r.protected \cup b.denied,
     resolved |-> Allowed(r, b) # {}]

----------------------------------------------------------------------------
(* Ranking and selection.                                                   *)

Record(kind, id) == [kind |-> kind, id |-> id]
Records(b) ==
    {Record("claim", c) : c \in DOMAIN b.claims}
    \cup {Record("conflict", c) : c \in b.conflicts}
    \cup {Record("evidence", e) : e \in DOMAIN b.evidence}
    \cup {Record("source", s) : s \in DOMAIN b.sources}

PathsOf(x, b) ==
    CASE x.kind = "evidence" -> b.evidence[x.id].paths
      [] x.kind = "source" -> {b.sources[x.id].path} \ {Nothing}
      [] OTHER -> {}
DirectLinks(x, b) ==
    \/ x.kind = "claim" /\ b.claims[x.id].evidence \cup b.claims[x.id].counter # {}
    \/ x.kind = "evidence" /\ b.evidence[x.id].sources # {}

Tier(x, r, b) ==
    IF PathsOf(x, b) \cap ExplicitPaths(r.allowed) # {} THEN 0
    ELSE IF PathsOf(x, b) \cap Matched(BundleAllowed(b)) # {} THEN 1
    ELSE IF DirectLinks(x, b) THEN 4
    ELSE IF x.id \in r.lexical THEN 7 ELSE 8

KindRank(kind) == CHOOSE n \in 1..4 : <<"claim", "conflict", "evidence", "source">>[n] = kind
\* Ids of one kind are numbers.
RankedBefore(x, y, r, b) ==
    LET key(z) == <<Tier(z, r, b), KindRank(z.kind), z.id>>
        kx == key(x)
        ky == key(y)
    IN  \E n \in 1..3 : kx[n] < ky[n] /\ \A m \in 1..(n - 1) : kx[m] = ky[m]

\* The records within the budget: those with fewer records before them.
Selected(r, b) ==
    {x \in Records(b) : Cardinality({y \in Records(b) : RankedBefore(y, x, r, b)}) < r.maxNodes}
OmittedNodes(r, b) == Max({0, Cardinality(Records(b)) - r.maxNodes})

\* Evidence a selected Claim names comes with it, for or against, over the budget.
WithEvidence(ids, claims, b) ==
    ids \cup UNION {b.claims[c].evidence \cup b.claims[c].counter : c \in claims}
Relevant(r, b) ==
    LET Of(selected) ==
            LET ids(kind) == {x.id : x \in {y \in selected : y.kind = kind}}
            IN  [claims |-> ids("claim"), conflicts |-> ids("conflict"), sources |-> ids("source"),
                 evidence |-> WithEvidence(ids("evidence"), ids("claim"), b)]
    IN  Of(Selected(r, b))

----------------------------------------------------------------------------
(* Source sites.                                                            *)

\* A source record with a path per path, the last one, then the bound paths without one, then
\* the explicit paths of the request.
Seeds(relevant, r, b) ==
    LET records == {s \in (UNION {b.evidence[e].sources : e \in relevant.evidence}) \cup relevant.sources :
                      b.sources[s].path # Nothing}
        bound == (UNION {b.evidence[e].paths : e \in relevant.evidence}) \cup ExplicitPaths(r.allowed)
        of(path) == {s \in records : b.sources[s].path = path}
    IN  [path \in {b.sources[s].path : s \in records} \cup bound |->
            IF of(path) = {} THEN Nothing ELSE Max(of(path))]

\* inspect_path refuses paths it may not read.
Unreadable(path, limits) ==
    path \in limits.protected \/ (limits.resolved /\ path \notin limits.allowed)
ReadStatus(path, content, expected, r) ==
    IF content = Nothing THEN "MISSING"
    ELSE IF Size[content] > r.maxBytes \/ content \notin Texts \/ path \notin Languages
         THEN "UNSUPPORTED"
    ELSE IF expected \notin {Nothing, content} THEN "STALE" ELSE "CONFIRMED"
Site(path, content, source, r, b) ==
    LET expected == IF source = Nothing THEN Nothing ELSE b.sources[source].hash
    IN  [path |-> path, source |-> source, content |-> content,
         status |-> ReadStatus(path, content, expected, r),
         lines |-> IF content \in Texts /\ Size[content] <= r.maxBytes THEN Lines[content] ELSE 0]
SizeOf(content) == IF content = Nothing THEN 0 ELSE Size[content]

\* What is left of the budgets decides whether a seed is visited.
WithinBudget(sites, bytes, r) == Cardinality(sites) < r.maxFiles /\ bytes < r.maxBytes

----------------------------------------------------------------------------
(* Gaps.                                                                    *)

Verification(r, b) == r.verification \cup BundleCommands(b)

\* The gaps that are critical.  Unsupported sources and omitted data are gaps too, and
\* so are unresolved conflicts: a Conflict of a Bundle has no severity, so none of them
\* is critical.
CriticalGaps(relevant, limits, sites, r, b) ==
    (IF b = NoBundle THEN {"no_bundle"} ELSE {})
    \cup (IF limits.resolved THEN {} ELSE {"scope"})
    \cup (IF b # NoBundle /\ relevant.claims \cup relevant.evidence = {} THEN {"irrelevant"} ELSE {})
    \cup {<<s.status, s.path>> : s \in {x \in sites : x.status \in {"STALE", "MISSING"}}}
    \cup (IF Verification(r, b) = {} THEN {"verification"} ELSE {})
=============================================================================
