--------------------------- MODULE ReviewPackage ---------------------------
(***************************************************************************)
(* `aet review-graph`: a Review Package is built from the workspace, a     *)
(* bundle and an improvements directory, and later opened, expanded and    *)
(* exported against the workspace as it is then (review_graph/storage.py,  *)
(* with the readers of indexer.py).  The user edits files, replaces the    *)
(* inputs, moves the base to another commit, or makes the repository       *)
(* unreadable to git, while a package is built or afterwards.              *)
(*                                                                         *)
(* The digest of a workspace is all its files; the base is not part of it, *)
(* nor is the package, and neither are its inputs here.  A file and its diff are read at   *)
(* one moment.                                                             *)
(***************************************************************************)
EXTENDS ReviewGraph

CONSTANTS
    Bases,            \* commits: Paths -> content or Absent
    Contents,         \* path -> what an edit leaves there
    ReviewBundles,    \* name -> valid bundle
    Improvements,     \* improvements directories
    Issue,            \* the issue asked for, or None
    Limits,           \* of slices: [nodes, edges, bytes]
    MaxFiles, MaxBytes, MaxEdits

VARIABLES
    base,          \* what the base names
    code,          \* the workspace
    readable,      \* git can describe it
    inputs,        \* [bundle, improvements] as they are on disk
    builder,       \* the build that runs, or None
    package,       \* the package, or None
    answer,        \* of the last command on the package, None once it is read or overtaken
    edits

vars == <<base, code, readable, inputs, builder, package, answer, edits>>

Init ==
    /\ base \in Bases
    /\ code = base
    /\ readable = TRUE
    /\ inputs \in [bundle : DOMAIN ReviewBundles, improvements : Improvements]
    /\ builder = None /\ package = None /\ answer = None
    /\ edits = 0

---------------------------------------------------------------------------
(* The environment.  `disturbed` is history: a file changed after the digest *)
(* was taken and before the package was there.                              *)

Disturbed ==
    IF builder = None \/ builder.digest = None THEN builder ELSE [builder EXCEPT !.disturbed = TRUE]
\* ... or the base moved between the list of what changed and the lines.
BaseMoved == IF builder = None \/ builder.base = None THEN builder ELSE [builder EXCEPT !.disturbed = TRUE]

Edit(p, content) ==
    /\ edits < MaxEdits /\ content # code[p]
    /\ code' = [code EXCEPT ![p] = content]
    /\ builder' = Disturbed
    /\ edits' = edits + 1 /\ answer' = None
    /\ UNCHANGED <<base, readable, inputs, package>>

ReplaceInputs(new) ==
    /\ edits < MaxEdits /\ new # inputs
    /\ inputs' = new
    /\ edits' = edits + 1 /\ answer' = None
    /\ UNCHANGED <<base, code, readable, builder, package>>

MoveBase(new) ==
    /\ edits < MaxEdits /\ new # base
    /\ base' = new
    /\ builder' = BaseMoved
    /\ edits' = edits + 1 /\ answer' = None
    /\ UNCHANGED <<code, readable, inputs, package>>

LoseGit ==
    /\ readable /\ edits < MaxEdits
    /\ readable' = FALSE
    /\ edits' = edits + 1 /\ answer' = None
    /\ UNCHANGED <<base, code, inputs, builder, package>>

---------------------------------------------------------------------------
(* A build.                                                                 *)

\* An output that exists ends it at once.
Start ==
    /\ builder = None /\ package = None
    /\ \E contract \in Contracts(inputs.improvements, Issue) :
         builder' = [phase |-> "snapshot", inputs |-> inputs, contract |-> contract, digest |-> None,
                     base |-> None, changed |-> {}, todo |-> {}, files |-> {}, limits |-> {}, bytes |-> 0,
                     graph |-> None, disturbed |-> FALSE]
    /\ UNCHANGED <<base, code, readable, inputs, package, answer, edits>>

\* No contract to be had.
Refuse ==
    /\ builder = None /\ package = None /\ answer = None
    /\ Contracts(inputs.improvements, Issue) = {}
    /\ answer' = [task |-> "build", slice |-> TooSmall]
    /\ UNCHANGED <<base, code, readable, inputs, builder, package, edits>>

Failed == builder' = None /\ UNCHANGED package

\* _review_snapshot
Snapshot ==
    /\ builder # None /\ builder.phase = "snapshot"
    /\ IF readable THEN builder' = [builder EXCEPT !.phase = "list", !.digest = code] /\ UNCHANGED package
       ELSE Failed
    /\ UNCHANGED <<base, code, readable, inputs, answer, edits>>

\* _changed_paths, _python_files: the first MaxFiles of them.
Candidates == {p \in PythonFiles(code) : Cardinality({q \in PythonFiles(code) : q < p}) < MaxFiles}
List ==
    /\ builder # None /\ builder.phase = "list"
    /\ IF ~readable THEN Failed
       ELSE /\ builder' = [builder EXCEPT !.phase = "read", !.base = base,
                                          !.changed = ChangedPaths(code, base), !.todo = Candidates,
                                          !.limits = {x \in {"FILE_LIMIT"} : Candidates # PythonFiles(code)}]
            /\ UNCHANGED package
    /\ UNCHANGED <<base, code, readable, inputs, answer, edits>>

\* The next file: a file that is gone ends the build, one too many ends the reading.
FileAt(p, changed) ==
    [path |-> p, content |-> code[p],
     lines |-> IF p \in changed THEN ChangedLines(code[p], base[p]) ELSE {}]
ReadFile ==
    /\ builder # None /\ builder.phase = "read" /\ builder.todo # {}
    /\ LET p == CHOOSE p \in builder.todo : \A q \in builder.todo : p <= q
           size == IF code[p] = Absent THEN 0 ELSE code[p].size
       IN  IF code[p] = Absent \/ (p \in builder.changed /\ ~readable) THEN Failed
           ELSE /\ builder' =
                     IF builder.bytes + size > MaxBytes
                     THEN [builder EXCEPT !.todo = {}, !.limits = @ \cup {"BYTE_LIMIT"}]
                     ELSE [builder EXCEPT !.todo = @ \ {p}, !.bytes = @ + size,
                                          !.files = @ \cup {FileAt(p, builder.changed)}]
                /\ UNCHANGED package
    /\ UNCHANGED <<base, code, readable, inputs, answer, edits>>

\* The graph and its root slice; a kernel larger than the limits ends the build.
ComposeGraph(limits) ==
    /\ builder # None /\ builder.phase = "read" /\ builder.todo = {}
    /\ IF \/ ~Indexable(builder.files)
          \/ Missing(builder.contract, ReviewBundles[builder.inputs.bundle]) # {}
       THEN Failed
       ELSE \E g \in {Compose(CodeGraph(builder.files, builder.changed, builder.limits),
                              ReviewBundles[builder.inputs.bundle], builder.contract)} :
              IF RootSlice(g, limits) = TooSmall THEN Failed
              ELSE /\ builder' = [builder EXCEPT !.phase = "publish", !.graph = g]
                   /\ UNCHANGED package
    /\ UNCHANGED <<base, code, readable, inputs, answer, edits>>

\* _write_content, _manifest: the graph, and a manifest that names the inputs as they
\* are when they are read again.
Content(b, names) ==
    [graph |-> b.graph, digest |-> b.digest, base |-> b.base, names |-> names,
     made |-> b.inputs, contract |-> b.contract, disturbed |-> b.disturbed]
Publish ==
    /\ builder # None /\ builder.phase = "publish"
    /\ builder' = None
    /\ IF Contracts(inputs.improvements, Issue) = {} THEN UNCHANGED package
       ELSE package' = Content(builder, inputs)
    /\ UNCHANGED <<base, code, readable, inputs, answer, edits>>

---------------------------------------------------------------------------
(* The users of a package.                                                  *)

\* Defective variant: only edits of what was indexed count.
StaleByFiles ==
    readable /\ {p \in Python : code[p] # package.digest[p] /\ code[p] # Absent} # {}
\* Only a digest that could be taken can differ.
Stale == readable /\ code # package.digest

Answer(task, slice, limits) ==
    [task |-> task, slice |-> slice, limits |-> limits]

Open(limits) ==
    /\ package # None /\ answer = None
    /\ \E slice \in {IF Stale THEN StaleSlice(package.graph) ELSE RootSlice(package.graph, limits)} :
         answer' = Answer("open", slice, limits)
    /\ UNCHANGED <<base, code, readable, inputs, builder, package, edits>>

Expand(key, relations, limits) ==
    /\ package # None /\ answer = None
    /\ \E slice \in {IF Stale THEN StaleSlice(package.graph)
                     ELSE Expansion(package.graph, key, relations, limits)} :
         answer' = Answer("expand", slice, limits)
    /\ UNCHANGED <<base, code, readable, inputs, builder, package, edits>>

\* export_compatibility: what is opened, unless it is stale.
Export(limits) ==
    /\ package # None /\ answer = None /\ ~Stale
    /\ \E slice \in {RootSlice(package.graph, limits)} : answer' = Answer("export", slice, limits)
    /\ UNCHANGED <<base, code, readable, inputs, builder, package, edits>>

\* The answer has been read.
Done ==
    /\ answer # None
    /\ answer' = None
    /\ UNCHANGED <<base, code, readable, inputs, builder, package, edits>>

Next ==
    \/ \E p \in Paths : \E content \in Contents[p] : Edit(p, content)
    \/ \E new \in [bundle : DOMAIN ReviewBundles, improvements : Improvements] : ReplaceInputs(new)
    \/ LoseGit \/ \E new \in Bases : MoveBase(new)
    \/ Start \/ Refuse \/ Snapshot \/ List \/ ReadFile \/ Publish \/ Done
    \/ \E limits \in Limits : ComposeGraph(limits) \/ Open(limits) \/ Export(limits)
    \/ /\ package # None
       /\ \E key \in Mandatory(package.graph), relations \in {{}, {"CONTAINS", "TESTS"}}, limits \in Limits :
            Expand(key, relations, limits)

Spec == Init /\ [][Next]_vars
---------------------------------------------------------------------------
(* Properties.                                                              *)

Slices == IF answer = None THEN {} ELSE {answer.slice} \ {TooSmall}

\* Whatever the limits: a slice is valid and within them, and a root slice has the whole
\* safety kernel, the relations within it, and no optional code but what was changed or is
\* next to it, where what changed is the last to go (slicer.py).
SlicesKeepTheKernel ==
    \A s \in Slices :
        /\ SliceValid(s)
        /\ s.mode = "stale" \/ /\ Cardinality(s.nodes) <= answer.limits.nodes
                               /\ Cardinality(s.edges) <= answer.limits.edges
        /\ s.mode = "root" =>
             LET keys == {n.key : n \in s.nodes}
                 optional == {n \in s.nodes : ~n.mandatory}
             IN  /\ Mandatory(package.graph) \subseteq keys
                 /\ EdgesAmong(package.graph, Mandatory(package.graph)) \subseteq s.edges
                 /\ (\E n \in package.graph.nodes : n.changed /\ n.key \notin keys) =>
                       \A n \in optional : n.changed

\* A root slice that passes rests on all of it: the contract is complete, the records it
\* names are current and supported, and every Python file that had changed since the base,
\* as both were, was read, parses, and is in scope; unless something changed while the
\* package was built (builder.py, indexer.py).  Nothing is promised of a file that is gone,
\* is a link, lies in a directory the indexer skips, or is not Python: see ScopeFailsClosed.
PassIsEarned ==
    \A s \in Slices : s.mode = "root" /\ s.status = "PASS" =>
        LET contract == package.contract
            b == ReviewBundles[package.made.bundle]
        IN  /\ {} \notin {contract.by.allowed, contract.by.verification,
                          contract.by.protected \cup contract.by.forbidden}
            /\ \A c \in contract.findings : b.claims[c].status = "supported"
            /\ \A e \in contract.evidence : b.evidence[e].fresh = "current"
            /\ package.disturbed \/
               \A p \in ChangedPaths(package.digest, package.base) \cap PythonFiles(package.digest) :
                   /\ p \in contract.by.allowed \ contract.by.protected
                   /\ package.digest[p].parses
                   /\ FileKey(p) \in {n.key : n \in s.nodes}

\* The code a slice shows is the code there is, of the files the indexer takes: unless the
\* files changed and changed back while the package was built, the base moved, or git could
\* not say (storage.py, indexer.py).
Now(now) ==
    CodeGraph({[path |-> p, content |-> now[p],
                lines |-> IF p \in ChangedPaths(now, base) THEN ChangedLines(now[p], base[p]) ELSE {}] :
                  p \in PythonFiles(now)},
              ChangedPaths(now, base), {})
SlicesAreCurrent ==
    \A s \in Slices : readable /\ base = package.base /\ ~package.disturbed =>
        \A n \in s.nodes : n.key[1] \in {"code file", "code symbol"} =>
            \E m \in Now(code).nodes :
                <<m.key, m.kind, m.changed, m.says>> = <<n.key, n.kind, n.changed, n.says>>

ReviewsAreSound == SlicesKeepTheKernel /\ PassIsEarned /\ SlicesAreCurrent

\* These are never downgraded to a PASS under which work may go on: "changes that touch
\* what is outside the allowed scope, or a protected path" (docs/review-graph.md, in Chinese).
ScopeFailsClosed ==
    \A s \in Slices : s.mode = "root" /\ s.status = "PASS" /\ ~package.disturbed =>
        {p \in Paths : package.digest[p] # package.base[p]}
            \subseteq package.contract.by.allowed \ package.contract.by.protected
=============================================================================
