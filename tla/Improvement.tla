---------------------------- MODULE Improvement ----------------------------
(***************************************************************************)
(* Improvements (improvement/): `aet improve <bundle>` turns the Claims of *)
(* a bundle that do not stand into issues and constraints, `validate`      *)
(* judges what an agent proposes for one of them, `verify` decides with a  *)
(* proof and metrics someone supplies whether it is done.                  *)
(*                                                                         *)
(* The commands speak to each other only by files of one directory, which  *)
(* they write one after the other; issues, constraints and contracts have  *)
(* positions for names.  One command runs at a time and may be killed at   *)
(* any write.  Proof, metrics and code are other people's: a command finds *)
(* whatever they hold at the moment it reads them.                         *)
(***************************************************************************)
EXTENDS Naturals, Sequences, FiniteSets

CONSTANTS
    Absent, Torn,   \* a file that is not there; one cut off by a kill
    Bundles,      \* [claims: id -> [status, evidence, counter],
                  \*  evidence: id -> [changed, paths, command]]
    Submissions,  \* the candidates an agent may write
    GivenProofs, Metrics, Workspaces,   \* Workspaces: which paths hold the symbols named
    Protected, Truth, Tests,       \* paths: not to be touched, graders and fixtures, tests
    MaxCommands, MaxKills   \* bounds

ImprovementAssumption ==
    /\ Truth \subseteq Protected
    /\ {MaxCommands, MaxKills} \subseteq Nat

VARIABLES
    dir,       \* the directory of improvements, file by file
    command,   \* what the running command has yet to write and what it has read
    accepted,  \* history: [candidate, constraint] pairs that `validate` found valid
    judged,    \* history: what the last `verify` read
    ran, kills

improveVars == <<dir, command, accepted, judged, ran, kills>>
---------------------------------------------------------------------------
(* Issues and constraints.                                                  *)

Refs(claim) == claim.evidence \cup claim.counter

\* normalize_finding: the first of these that a Claim is.
Category(b, id) ==
    LET claim == b.claims[id]
    IN  IF \E e \in Refs(claim) : b.evidence[e].changed THEN "stale_verification"
        ELSE CASE claim.status = "unsupported" -> "unsupported_claim"
               [] claim.status = "unknown" -> "unknown_root_cause"
               [] claim.status = "conflicted" -> "missing_verification"
               [] OTHER -> Absent

\* By priority (the last is P2, the others P1), then by name.
Categories == <<"stale_verification", "unknown_root_cause", "unsupported_claim",
                "missing_verification">>
Urgency(category) == CHOOSE n \in DOMAIN Categories : Categories[n] = category
First(findings) == CHOOSE c \in findings : \A d \in findings : c <= d

\* Bundles as bundle/validator.py lets them in.
ClaimsAssumption ==
    /\ Absent \notin {Categories[n] : n \in DOMAIN Categories}
    /\ \A b \in Bundles :
         /\ IsFiniteSet(DOMAIN b.claims) /\ DOMAIN b.claims \subseteq Nat
         /\ \A c \in DOMAIN b.claims :
              b.claims[c].status \in
                {"supported", "partially_supported", "unsupported", "conflicted", "unknown"}

\* Claims of one category with the same evidence are one issue.
OneIssue(b, c) ==
    {d \in DOMAIN b.claims : /\ Category(b, d) = Category(b, c)
                             /\ Refs(b.claims[d]) = Refs(b.claims[c])}
IssueOf(b, c) ==
    [category |-> Category(b, c), findings |-> OneIssue(b, c), evidence |-> Refs(b.claims[c])]
Groups(b) == {IssueOf(b, c) : c \in {d \in DOMAIN b.claims : Category(b, d) # Absent}}

MaxIssues == 5
Before(i, j) ==
    \/ Urgency(i.category) < Urgency(j.category)
    \/ i.category = j.category /\ First(i.findings) < First(j.findings)

\* An issue's name is its place.
Place(b, g) == 1 + Cardinality({h \in Groups(b) : Before(h, g)})
Issues(b) ==
    [n \in {Place(b, g) : g \in Groups(b)} \cap 1..MaxIssues |->
        CHOOSE g \in Groups(b) : Place(b, g) = n]

AllowedPaths(b, issue) == UNION {b.evidence[e].paths : e \in issue.evidence}
VerificationRequirements(b, issue) == {b.evidence[e].command : e \in issue.evidence} \ {Absent}
Constraint(b, issue) ==
    [category |-> issue.category, allowed |-> AllowedPaths(b, issue),
     verification |-> VerificationRequirements(b, issue)]

\* generate_improvements, up to the files.
Derived ==
    [b \in Bundles |-> LET issues == Issues(b)
                       IN  [issues |-> issues,
                            constraints |-> [n \in DOMAIN issues |-> Constraint(b, issues[n])]]]
---------------------------------------------------------------------------
(* Candidates: [id, constraint, root, certain, hiding, targets, deleted,    *)
(* plan, findings, evidence]; certain: the strategy says what "root cause   *)
(* is", hiding: one of the five forbidden phrases is in it.                 *)

WellFormed(c) ==
    /\ DOMAIN c = {"id", "constraint", "root", "certain", "hiding", "targets", "deleted", "plan",
                   "findings", "evidence"}
    /\ c.targets # {} /\ c.root \in {Absent, "unknown", "plausible", "evidenced"}

CandidateGrounded(c, issues) ==
    /\ c.evidence \subseteq UNION {issues[n].evidence : n \in DOMAIN issues}
    /\ c.findings \subseteq UNION {issues[n].findings : n \in DOMAIN issues}

InScope(c, constraint) ==
    /\ (c.targets \cup c.deleted) \cap Protected = {}
    /\ c.targets \subseteq constraint.allowed

StrengthMatches(c) == c.root # "unknown" /\ (c.root = "plausible" => ~c.certain)

NoGaming(c) == c.deleted \cap Tests = {} /\ c.targets \cap Truth = {} /\ ~c.hiding

TargetsExist(c, code) == c.targets \subseteq code

Acceptable(c, issues, constraint, code) ==
    /\ CandidateGrounded(c, issues) /\ InScope(c, constraint) /\ StrengthMatches(c)
    /\ NoGaming(c) /\ TargetsExist(c, code)

ContractOf(c) == [number |-> c.constraint, commands |-> c.plan, paths |-> c.targets]
---------------------------------------------------------------------------
(* Proofs and metrics.                                                      *)

\* Defective variant: which paths were changed does not matter.
ProofOfAnyChange(contract, proof, candidate) ==
    /\ proof # Absent
    /\ proof.current
    /\ proof.contract = contract.number /\ proof.candidate = candidate.id
    /\ proof.pass /\ contract.commands \subseteq proof.succeeded
    /\ proof.changed # {}
\* proof: [contract, candidate, current, pass, succeeded, changed]
ProofValid(contract, proof, candidate) ==
    /\ proof # Absent
    /\ proof.current
    /\ proof.contract = contract.number /\ proof.candidate = candidate.id
    /\ proof.pass /\ contract.commands \subseteq proof.succeeded
    /\ proof.changed # {} /\ contract.paths \subseteq proof.changed

StatusValues == {"FAIL", "UNKNOWN", "NOT_APPLICABLE", "PASS"}
StatusRank(v) == CASE v = "FAIL" -> 0 [] v = "PASS" -> 2 [] OTHER -> 1
NumberValues == {"less", "more"}
Worse(left, right) ==
    /\ left # right
    /\ \/ {left, right} \subseteq StatusValues /\ StatusRank(right) <= StatusRank(left)
       \/ {left, right} \subseteq NumberValues /\ right = "less"
Better(left, right) ==
    /\ left # right /\ ~Worse(left, right)
    /\ {left, right} \subseteq StatusValues \/ {left, right} \subseteq NumberValues

\* compare_before_after
Comparison(before, after) ==
    IF before = Absent \/ after = Absent \/ DOMAIN before # DOMAIN after THEN "UNKNOWN"
    ELSE LET worse == {m \in DOMAIN before : Worse(before[m], after[m])}
             better == {m \in DOMAIN before : Better(before[m], after[m])}
             same == {m \in DOMAIN before : before[m] = after[m]}
         IN  IF worse # {} THEN "FAIL"
             ELSE IF better # {} /\ better \cup same = DOMAIN before THEN "PASS"
             ELSE "UNKNOWN"

\* verify_improvement, promote_outcome and what verify_issue makes of a regression.
Outcome(contract, proof, candidate, before, after) ==
    IF ProofValid(contract, proof, candidate) /\ Comparison(before, after) # "FAIL"
    THEN "verified_improvement" ELSE "implemented_unverified"
---------------------------------------------------------------------------
(* The commands.                                                            *)

\* No command runs: nothing is left to write, nothing has been read.
NoCommand == [todo |-> <<>>, held |-> Absent]

ImproveInit ==
    /\ dir = [issues |-> Absent, constraints |-> Absent, task |-> Absent, candidate |-> Absent,
              contract |-> Absent, validation |-> Absent, outcome |-> Absent, comparison |-> Absent]
    /\ command = NoCommand
    /\ accepted = {} /\ judged = Absent
    /\ ran = 0 /\ kills = 0

Readable(file) == file \notin {Absent, Torn}
Put(file, value) == [file |-> file, value |-> value]
Idle == command = NoCommand /\ ran < MaxCommands
Start(todo, held) ==
    /\ command' = [todo |-> todo, held |-> held]
    /\ ran' = ran + 1
    /\ UNCHANGED <<dir, kills>>

\* A Claim that does not stand and has no evidence at all refuses the bundle.  The
\* human-readable report is left out: nothing reads it.
Generate(b) ==
    /\ Idle
    /\ \A n \in DOMAIN Derived[b].issues : Derived[b].issues[n].evidence # {}
    /\ Start(<<Put("issues", Derived[b].issues), Put("constraints", Derived[b].constraints)>>, Absent)
    /\ UNCHANGED <<accepted, judged>>

StateLoads == Readable(dir.issues) /\ Readable(dir.constraints)
Named(n) == StateLoads /\ n \in DOMAIN dir.issues \cap DOMAIN dir.constraints

Prompt(n) ==
    /\ Idle /\ Named(n)
    /\ Start(<<Put("task", [issue |-> dir.issues[n], constraint |-> dir.constraints[n]])>>, Absent)
    /\ UNCHANGED <<accepted, judged>>

\* A candidate that is not acceptable leaves every file as it is.
Validate(c) ==
    /\ Idle /\ WellFormed(c) /\ Named(c.constraint)
    /\ \E code \in Workspaces : Acceptable(c, dir.issues, dir.constraints[c.constraint], code)
    /\ Start(<<Put("candidate", c), Put("contract", ContractOf(c)), Put("validation", c.id)>>, Absent)
    /\ accepted' = accepted \cup {[candidate |-> c, constraint |-> dir.constraints[c.constraint]]}
    /\ UNCHANGED judged

Verify(n) ==
    /\ Idle /\ Named(n)
    /\ Readable(dir.candidate) /\ dir.candidate.constraint = n
    /\ Readable(dir.contract)
    /\ Start(<<>>, [issue |-> n, candidate |-> dir.candidate, contract |-> dir.contract])
    /\ UNCHANGED <<accepted, judged>>

\* Proof and metrics are read after the files of the tool.
Judge(proof, before, after) ==
    /\ command.held # Absent
    /\ LET outcome == Outcome(command.held.contract, proof, command.held.candidate, before, after)
       IN  /\ command' = [todo |-> <<Put("outcome", [issue |-> command.held.issue,
                                                 candidate |-> command.held.candidate.id,
                                                 status |-> outcome])>>,
                      held |-> Absent]
           /\ judged' = [candidate |-> command.held.candidate, proof |-> proof, before |-> before,
                         after |-> after, status |-> outcome, whole |-> kills = 0]
    /\ UNCHANGED <<dir, accepted, ran, kills>>

Compare(before, after) ==
    /\ Idle /\ before # Absent /\ after # Absent
    /\ Start(<<Put("comparison", Comparison(before, after))>>, Absent)
    /\ UNCHANGED <<accepted, judged>>

\* One file is written; after the last one the command returns.
WriteFile ==
    /\ command.todo # <<>>
    /\ dir' = [dir EXCEPT ![Head(command.todo).file] = Head(command.todo).value]
    /\ command' = [command EXCEPT !.todo = Tail(@)]
    /\ UNCHANGED <<accepted, judged, ran, kills>>

\* The command is killed before a write or in it.
Kill ==
    /\ command.todo # <<>> /\ kills < MaxKills
    /\ kills' = kills + 1
    /\ command' = NoCommand
    /\ \/ dir' = dir
       \/ dir' = [dir EXCEPT ![Head(command.todo).file] = Torn]
    /\ UNCHANGED <<accepted, judged, ran>>

ImproveNext ==
    \/ \E b \in Bundles : Generate(b)
    \/ \E n \in 1..MaxIssues : Prompt(n) \/ Verify(n)
    \/ \E c \in Submissions : Validate(c)
    \/ \E before, after \in Metrics :
         Compare(before, after) \/ \E proof \in GivenProofs : Judge(proof, before, after)
    \/ WriteFile \/ Kill

ImproveSpec == ImproveInit /\ [][ImproveNext]_improveVars
---------------------------------------------------------------------------
(* Properties.                                                              *)

\* Every Claim that does not stand is in exactly one issue, with all the evidence
\* for it and against it, or five issues at least as urgent stand in its place;
\* and an issue may change what that evidence speaks of, and nothing else.  This is
\* a matter of the bundle alone, looked at before the first command.
FindingsAreKept ==
    ran = 0 => \A b \in Bundles : LET issues == Derived[b].issues IN
        /\ \A c \in DOMAIN b.claims :
             LET of == {n \in DOMAIN issues : c \in issues[n].findings}
             IN  /\ b.claims[c].status \notin {"supported", "partially_supported"} =>
                      \/ \E n \in of : of = {n} /\ issues[n].evidence = Refs(b.claims[c])
                      \/ /\ of = {} /\ DOMAIN issues = 1..MaxIssues
                         /\ \A n \in DOMAIN issues :
                              Urgency(issues[n].category) <= Urgency(Category(b, c))
        /\ \A n \in DOMAIN issues : \A path \in Derived[b].constraints[n].allowed :
             \E c \in issues[n].findings : \E e \in Refs(b.claims[c]) : path \in b.evidence[e].paths

\* A verified improvement is a candidate that was accepted, as it stands, in the scope
\* of a constraint, and touches neither a grader nor deletes a test; unless a command
\* was killed, its own plan succeeded and each of its targets was changed, although
\* candidate, contract and proof are three files; and no metric measured on both
\* sides alone has got worse.
VerifiedIsProved ==
    (judged # Absent /\ judged.status = "verified_improvement") =>
        LET c == judged.candidate IN
        /\ \E a \in accepted : /\ a.candidate = c /\ c.targets \subseteq a.constraint.allowed
                               /\ (c.targets \cup c.deleted) \cap (Protected \cup Truth) = {}
                               /\ c.deleted \cap Tests = {}
        /\ judged.whole =>
             /\ c.plan \subseteq judged.proof.succeeded
             /\ c.targets \subseteq judged.proof.changed
        /\ (judged.before # Absent /\ judged.after # Absent /\ DOMAIN judged.before = DOMAIN judged.after) =>
             \A m \in DOMAIN judged.before : ~Worse(judged.before[m], judged.after[m])
=============================================================================
