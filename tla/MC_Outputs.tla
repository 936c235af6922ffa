----------------------------- MODULE MC_Outputs -----------------------------
(***************************************************************************)
(* What is written again and again to one place: output directories that   *)
(* processes replace, normalized runs that imports extend, plan packages   *)
(* that are made from what the workspace holds now.  A behaviour runs one  *)
(* of them ("part"); the others stay as they were: a directory and a run at *)
(* the start, plans that were never asked for.                              *)
(***************************************************************************)
EXTENDS PublishDirectory, RunNormalization, Planning, TLC

CONSTANTS
    w1, w2, small, big, test,
    Parts,      \* which of them run
    Removals    \* lines a diff removes: see Planning

VARIABLE part

\* vars, importVars and planVars: the variables of the components.
allVars == <<part, vars, importVars, planVars>>

(* Directories: the four writers, with two failing renames or deletions and  *)
(* a crash.                                                                  *)

Writers == {w1, w2}
Writing(w) == [protocol |-> w, faults |-> 2, crashes |-> 1]
WriterScenes == {Writing(w) : w \in {"run", "atlas", "audit", "plan"}}

(* Runs: calls and results of two call ids, one of them answered twice,      *)
(* results without a call id, and messages with and without a native id.     *)

D(type, native, call, content) ==
    [type |-> type, native |-> native, call |-> call, content |-> content]
SourceRecords ==
    {D("call", "c1", "c1", "x"),
     D("result", "c1", "c1", "x"), D("result", "r2", "c1", "y"),
     D("result", NoId, NoCall, "x"),
     D("result", "c2", "c2", "x"),
     D("message", NoId, NoCall, "x"),
     D("message", "m", NoCall, "x"), D("message", "m", NoCall, "y")}

SomeLengths == [e \in BOOLEAN |-> IF e THEN 4 ELSE 3]

(* Plans: path 1 is code with two records of what it held, path 2 a file of  *)
(* no known language, path 3 a test with a record that has no hash.  A Bundle*)
(* of one Claim with evidence for and against it, or none; requests with     *)
(* ample and with tight budgets.                                             *)

Source(path, hash) == [path |-> path, hash |-> hash]
OneClaim ==
    [claims |-> (1 :> [evidence |-> {1}, counter |-> {2}, status |-> "PASS"]),
     evidence |-> (1 :> [sources |-> {1, 5}, paths |-> {1}, freshness |-> "PASS", commands |-> {test}])
                    @@ (2 :> [sources |-> {2, 3, 4}, paths |-> {2}, freshness |-> "STALE",
                              commands |-> {}]),
     sources |-> (1 :> Source(1, small)) @@ (2 :> Source(2, small)) @@ (3 :> Source(1, big))
                   @@ (4 :> Source(3, Nothing)) @@ (5 :> Source(Nothing, small)),
     conflicts |-> {1}, allowed |-> {}, denied |-> {}]

Asked(allowed, protected, nodes, sites, bytes, verification) ==
    [allowed |-> allowed, protected |-> protected, lexical |-> {1}, verification |-> verification,
     maxNodes |-> nodes, maxFiles |-> sites, maxBytes |-> bytes, maxItems |-> 2]
SomeRequests ==
    {Asked({}, {}, 9, 9, 8, {}), Asked({}, {}, 3, 2, 2, {}),
     Asked({[paths |-> {1, 3}, directory |-> TRUE], [paths |-> {2}, directory |-> FALSE]}, {2},
           9, 9, 8, {test})}

Item(path, evidence, sources, deps, tests, disposition) ==
    [path |-> path, evidence |-> evidence, sources |-> sources, deps |-> deps, tests |-> tests,
     disposition |-> disposition, upTo |-> 1, claimsDone |-> FALSE]
Candidate(items, verification, complete) ==
    [items |-> items, verification |-> verification, complete |-> complete, answers |-> TRUE]
ForIt == <<"evidence", 1>>
Code == <<"source", 3>>
SomeCandidates ==
    {Candidate(<<Item(1, {ForIt}, {Code}, {}, {3}, "REQUIRED")>>, {{1}}, FALSE),
     Candidate(<<Item(1, {ForIt}, {}, {}, {}, "OPTIONAL"),
                 Item(2, {}, {<<"source", 2>>}, {1}, {}, "REQUIRED")>>, {{1, 2}}, FALSE),
     Candidate(<<Item(1, {ForIt}, {}, {2}, {}, "REQUIRED"),
                 Item(2, {}, {<<"source", 2>>}, {1}, {}, "REQUIRED")>>, {{1}}, FALSE),
     Candidate(<<Item(1, {ForIt}, {ForIt}, {}, {}, "REQUIRED"), Item(2, {}, {}, {1}, {}, "DO_NOT_EDIT")>>,
               {{1}}, TRUE)}
Changed(old, new, removed) == [old |-> old, new |-> new, removed |-> removed]

SomePaths == 1..3
SomeContents == {small, big}
SomeSizes == (small :> 1) @@ (big :> 3)
SomeLines == (small :> 1) @@ (big :> 2)
SomeLanguages == {1, 3}
SomeBundles == {OneClaim, NoBundle}
SomeWorkspaces == {[path \in SomePaths |-> IF path = 1 THEN big ELSE small]}
SomeDiffs ==
    {<<Changed(1, 1, r)>> : r \in Removals}
      \cup {<<Changed(1, 3, r), Changed(2, Nothing, Nothing)>> : r \in Removals}

\* visit in _validate_dependency_graph: depth first, with the edits on the way here.  It
\* finds the cycles that Planning speaks of.
RECURSIVE Visit(_, _, _, _)
Visit(todo, visiting, deps, acc) ==
    IF todo = {} \/ acc.cyclic THEN acc
    ELSE LET node == Min(todo)
             below == Visit(deps[node], visiting \cup {node}, deps, acc)
         IN  Visit(todo \ {node}, visiting, deps,
                   IF node \in visiting THEN [acc EXCEPT !.cyclic = TRUE]
                   ELSE IF node \in acc.visited \/ below.cyclic THEN below
                   ELSE [below EXCEPT !.visited = @ \cup {node}])
ASSUME \A deps \in [1..3 -> SUBSET (1..3)] :
    Visit(1..3, {}, deps, [visited |-> {}, cyclic |-> FALSE]).cyclic = CyclicGraph(deps)

ASSUME PublishAssumption /\ NormalizationAssumption
----------------------------------------------------------------------------
NoDirectories == Init /\ scene = Writing("run") /\ out = None
NoRuns == explicit = TRUE /\ source = <<D("message", NoId, NoCall, "x")>> /\ ImportsInit
NoPlans ==
    /\ bundle = Nothing /\ files = Nothing /\ reading = Nothing /\ context = Nothing
    /\ package = Nothing /\ consumer = Nothing /\ skill = Nothing /\ answer = Nothing
    /\ seen = Nothing /\ edits = Nothing /\ asked = Nothing /\ uses = Nothing

OutputsInit ==
    /\ part \in Parts
    /\ \/ part = "directories" /\ Init /\ NoRuns /\ NoPlans
       \/ part = "runs" /\ ImportsInit /\ NoDirectories /\ NoPlans
       \/ part = "plans" /\ PlansInit /\ NoDirectories /\ NoRuns

OutputsNext ==
    /\ UNCHANGED part
    /\ \/ part = "directories" /\ Step /\ UNCHANGED <<importVars, planVars>>
       \/ part = "runs" /\ ImportsNext /\ UNCHANGED <<vars, planVars>>
       \/ part = "plans" /\ PlansNext /\ UNCHANGED <<vars, importVars>>

OutputsSpec == OutputsInit /\ [][OutputsNext]_allVars

\* The properties are the components': OutputIsKept and NoRollback, ImportsAreOne,
\* PlansAreGrounded.
=============================================================================
