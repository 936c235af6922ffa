------------------------------ MODULE MC_Atlas ------------------------------
(* One investigation of two Claims that share a Proof, in versions that     *)
(* differ in one respect or several: how fresh the shared Evidence is, an   *)
(* open conflict, a reworded Observation, a further Claim.  An atlas is     *)
(* drawn of it, or a change is reviewed with it, or quick proofs are made   *)
(* and checked; what a behaviour leaves alone stays as it was.              *)
EXTENDS AtlasStore, QuickProof, TLC
CONSTANTS raw, c1, c2, c3, e1, e2, o1, s1, s2, s3, k1, x1, f1, f2, g1

MCClean == raw :> raw
MCCleanPath == [path \in FilePaths |-> path]
MCSize == raw :> 1
Claim(status, ev, counter, notes) ==
    [status |-> status, basis |-> "other", evidence |-> ev, counter |-> counter,
     observations |-> {o1}, notes |-> notes]
Ev(kind, strength, fresh, sources, supports, contradicts, paths) ==
    [kind |-> kind, strength |-> strength, fresh |-> fresh, sources |-> sources,
     supports |-> supports, contradicts |-> contradicts, paths |-> paths, command |-> kind = "test_result",
     notes |-> IF fresh = "current" /\ paths # {} THEN {} ELSE {"limitation", "action"}, blob |-> None]
PolicyOf ==
    [allowed |-> {"run.read"}, denied |-> {}, calls |-> 2, candidates |-> 1, evidence |-> 2,
     records |-> 1, blobs |-> 1, execution |-> FALSE, prefix |-> FALSE, allowedPaths |-> {},
     deniedPaths |-> {}, redact |-> FALSE, reasoning |-> FALSE, raw |-> TRUE,
     competing |-> FALSE, search |-> FALSE]
Entry(action, tool, input, out, cands) ==
    [action |-> action, tool |-> tool, input |-> input, output |-> out, hypothesis |-> None,
     observations |-> {o1}, candidates |-> cands, words |-> 1]

Version(fresh, conflict, words, more) ==
    LET current == fresh = "current"
        claims == (c1 :> Claim(IF conflict THEN "conflicted" ELSE IF current THEN "supported" ELSE "partially_supported",
                               {e1}, IF conflict THEN {e2} ELSE {}, {"limitation"}))
                    @@ (c2 :> Claim("unknown", {e1}, IF conflict THEN {e2} ELSE {}, {"action"}))
                    @@ (IF more THEN c3 :> Claim("unsupported", {}, {}, {}) ELSE <<>>)
        evidence == (e1 :> Ev("test_result", "corroborated", fresh, {s1}, {c1, c2}, {}, {f1, f2}))
                      @@ (e2 :> Ev("authority_fact", "observed", "current", {s2}, {},
                                   IF conflict THEN {c1, c2} ELSE {}, {}))
    IN  [claims |-> claims, evidence |-> evidence,
         observations |-> o1 :> [type |-> "agent_statement", sources |-> {s2}, notes |-> {}, words |-> words],
         sources |-> (s1 :> [type |-> "proof_receipt", path |-> f1, blob |-> [ref |-> raw, hash |-> raw]])
                       @@ (s2 :> [type |-> "user_instruction", path |-> None, blob |-> None])
                       @@ (s3 :> [type |-> "run_record", path |-> None, blob |-> None]),
         conflicts |-> IF conflict THEN k1 :> [evidence |-> {e1, e2}, open |-> TRUE] ELSE <<>>,
         diagnostics |-> {}, blobs |-> {raw}, policy |-> PolicyOf,
         ledger |-> <<Entry("read_run_record", "run.read", s3, e1, {}),
                      Entry("propose_candidate", None, None, None, {x1})>>,
         index |-> [claims |-> DOMAIN claims, evidence |-> DOMAIN evidence, observations |-> {o1}],
         scope |-> {f1}, limited |-> more]

\* Versions: how fresh, a conflict, the words of the Observation, a third Claim.
Chosen == {<<"current", TRUE, 1, FALSE>>, <<"unknown", FALSE, 2, TRUE>>, <<"changed", TRUE, 2, FALSE>>}
MCBundles == [v \in Chosen |-> Version(v[1], v[2], v[3], v[4])]
MCDiagnoses ==
    ("none" :> None)
      @@ ("risk" :> [factors |-> g1 :> [failed |-> TRUE, refs |-> {e1, o1}],
                     pathways |-> {[failed |-> FALSE, refs |-> {c1}, factors |-> {g1}]},
                     interventions |-> {[proposed |-> TRUE, refs |-> {s2}, factors |-> {g1}]}])
Ample == [depth |-> 3, nodes |-> 40, children |-> 12, total |-> 100]
Tight == [depth |-> 2, nodes |-> 4, children |-> 2, total |-> 14]
TwoPolicies == {Ample, Tight}
MCSelections == {ViewIds, {"claim-chain", "freshness"}, {"regression-lineage"}}
ASSUME AtlasAssumption

---------------------------------------------------------------------------
(* Reviews.  Path 1 is a module with two functions, 2 its test, 3 no code,  *)
(* 4 Python in a directory that is skipped.                                 *)

VARIABLES base, code, readable, inputs, builder, package, answer, replaced

Paths == 1..4
Python == {1, 2, 4}
Unindexed == {4}
Module == 1 :> <<"pkg", "a">> @@ 2 :> <<"tests", "a">> @@ 4 :> <<"build", "x">>
TestNames == {"test_f"}
TestPaths == {2}
Def(name, parent, first, last) ==
    [name |-> name, class |-> FALSE, parent |-> parent, first |-> first, last |-> last]
Calls(within, name, dynamic, line) ==
    [within |-> within, name |-> name, relation |-> "CALLS", dynamic |-> dynamic, line |-> line]
Text(lines, defs, uses) ==
    [size |-> Len(lines), link |-> FALSE, parses |-> TRUE, lines |-> lines, defs |-> defs, uses |-> uses, imports |-> {}]
Two == <<Def("f", 0, 1, 2), Def("g", 0, 3, 4)>>
Code == Text(<<1, 2, 3, 4>>, Two, {Calls(2, "f", FALSE, 4)})
Test == [Text(<<1, 2>>, <<Def("test_f", 0, 1, 2)>>, {Calls(1, "f", FALSE, 2)}) EXCEPT !.imports = {<<"a">>}]
Data(n) == [Text(<<n>>, <<>>, {}) EXCEPT !.parses = FALSE]
Generated(n) == Text(<<n>>, <<>>, {})
\* The second, to which the base may move, is of another day: another test, nothing built.
Bases ==
    {1 :> Code @@ 2 :> Test @@ 3 :> Data(1) @@ 4 :> Generated(1),
     1 :> Code @@ 2 :> [Test EXCEPT !.lines = <<1, 9>>] @@ 3 :> Data(1) @@ 4 :> Absent}
\* A line of f; a line less; a dynamic call; a syntax error; f twice; the test as a link.
ReviewContents ==
    1 :> {Code, Text(<<1, 5, 3, 4>>, Two, {Calls(2, "f", FALSE, 4)}),
          Text(<<1, 2, 3>>, <<Def("f", 0, 1, 2), Def("g", 0, 3, 3)>>, {}),
          Text(<<1, 2, 3, 6>>, Two, {Calls(2, "f", TRUE, 4)}),
          [Text(<<1, 7, 3, 4>>, <<>>, {}) EXCEPT !.parses = FALSE],
          Text(<<1, 2, 1, 4>>, <<Def("f", 0, 1, 2), Def("f", 0, 3, 4)>>, {}), Absent}
      @@ 2 :> {Test, [Test EXCEPT !.lines = <<1, 8>>], [Test EXCEPT !.link = TRUE], Absent}
      @@ 3 :> {Data(2)} @@ 4 :> {Generated(2)}
ReviewBundles ==
    "current" :> Version("current", FALSE, 1, FALSE) @@ "changed" :> Version("changed", FALSE, 1, FALSE)
Issue == None
Improving(evidence, verification) ==
    [issues |-> "i" :> [findings |-> {c1}, evidence |-> evidence],
     constraints |-> {[issue |-> "i", allowed |-> {1}, protected |-> {3, 4}, forbidden |-> {},
                       verification |-> verification]}]
\* Two issues, and none is asked for.
TwoIssues ==
    [issues |-> [i \in {"i", "j"} |-> [findings |-> {c1}, evidence |-> {e1}]],
     constraints |-> Improving({e1}, {"v"}).constraints]
Improvements == {TwoIssues, Improving({e1}, {"v"}), Improving({e1}, {}), Improving({e2, k1}, {"v"})}
Limits == {[nodes |-> 24, edges |-> 40, bytes |-> 400], [nodes |-> 12, edges |-> 12, bytes |-> 80],
            [nodes |-> 5, edges |-> 12, bytes |-> 80]}
MaxFiles == 2
MaxBytes == 6
Reviews == INSTANCE ReviewPackage WITH edits <- replaced, Contents <- ReviewContents

ReviewVars == <<base, code, readable, inputs, builder, package, answer, replaced>>
Reviewing == base # None

---------------------------------------------------------------------------
(* Quick proofs of a Git workspace, whatever is declared, from one commit.  *)

ASSUME QuickAssumption

Declared == SUBSET {"rel", "out"}
NoDeclaration == [declared |-> {}, git |-> TRUE, redacted |-> FALSE]
\* The check of freshness ends.
Compared == pc = "end" /\ UNCHANGED quickVars

---------------------------------------------------------------------------
NoAtlas == bundle = None /\ atlas = Absent /\ outcome = "none"
NoReview ==
    /\ base = None /\ code = None /\ readable = None /\ inputs = None /\ builder = None
    /\ package = None /\ answer = None /\ replaced = None
NoProof == QuickInit /\ file = [i \in Items |-> 1] /\ head = 1 /\ given = NoDeclaration
Building == bundle # None
Proving == ~Building /\ ~Reviewing

MCInit ==
    \/ Init /\ NoReview /\ NoProof
    \/ Reviews!Init /\ base[4] # Absent /\ NoAtlas /\ NoProof
    \/ QuickInit /\ head = 1 /\ NoAtlas /\ NoReview
MCNext ==
    \/ Building /\ Next /\ UNCHANGED <<ReviewVars, quickVars>>
    \/ Reviewing /\ Reviews!Next /\ UNCHANGED <<vars, quickVars>>
    \/ Proving /\ (QuickNext \/ Compared) /\ UNCHANGED <<vars, ReviewVars>>
MCSpec == MCInit /\ [][MCNext]_<<vars, ReviewVars, quickVars>>

\* See ReviewPackage.
ReviewsAreSound == Reviewing => Reviews!ReviewsAreSound
ScopeFailsClosed == Reviewing => Reviews!ScopeFailsClosed
=============================================================================
