------------------------------ MODULE MC_Runs ------------------------------
(* What is done with a run: its delivery is followed by a manifest, or it   *)
(* is investigated.  Deliveries are one command at a time with three        *)
(* reports, and two commands at once with two reports that pass.  Which     *)
(* command it is does not matter: the manifest's name of its init is only   *)
(* ever compared.                                                           *)
EXTENDS DeliveryRun, PortableInvestigation, TLC

TwoIntents == {[code |-> 1, intent |-> "i"], [code |-> 2, intent |-> "j"]}
Scene(procs, verdicts, n) ==
    [procs |-> procs, workspaces |-> TwoIntents, verdicts |-> verdicts, reports |-> n]
MCScenes == {Scene({p}, BOOLEAN, 3) : p \in Procs} \cup {Scene(Procs, {TRUE}, 2)}

Commands == Permutations(Procs)

---------------------------------------------------------------------------
(* Investigations: records, receipts and budgets.                           *)

RunR == {[id |-> "a", run |-> "r"]}
Asked(records, proofs, questions, budgets, tools, lifted, filters, exports) ==
    Request(records, {RunR}, proofs, questions, {"plain"}, budgets, tools, lifted, filters, exports, {TRUE})

Record(kind, c, i, f) ==
    [kind |-> kind, run |-> "r", command |-> c, link |-> i, fails |-> f, hash |-> <<kind, c, f>>]
Plain(kind) == Record(kind, "", 0, FALSE)
CallOf(c) == Record("call", c, 0, FALSE)
ResultOf(i, f) == Record("result", "", i, f)
Meta == Plain("meta")

\* Runs of three or four records; a result comes after the call it is linked to.
Ordered ==
    {<<Meta, CallOf("t"), ResultOf(2, f)>> : f \in BOOLEAN}
    \cup {<<Meta, r, CallOf("t"), CallOf("u")>> : r \in {Plain("assistant"), Plain("reasoning"), Plain("user"), ResultOf(0, TRUE), CallOf("")}}
    \cup {<<CallOf("u"), ResultOf(1, TRUE), Meta, CallOf("t")>>, <<Meta>>}
\* The later part of a run was imported before the earlier part.
Late == {<<Meta, ResultOf(3, FALSE), CallOf("t")>>}

\* A receipt that neither passes nor fails is not asked whether it is current.
Proved(c, v, f) == [id |-> <<c, v, f>>, command |-> c, verdict |-> v, fresh |-> f,
                    allowed |-> TRUE, twice |-> FALSE, secret |-> "none"]
Receipts ==
    {Proved(c, v, f) : c \in {"t", "u"}, v \in {"pass", "fail"}, f \in BOOLEAN}
    \cup {Proved(c, "other", TRUE) : c \in {"t", "u"}}
Pairs == {<<>>} \cup {<<p>> : p \in Receipts} \cup {<<p, q>> : p \in Receipts, q \in Receipts}
PassT == Proved("t", "pass", TRUE)
PassingT == {<<PassT>>}
\* Receipts that are refused, or whose result is; of a command that is read or not.
OddReceipts ==
    UNION {{<<[p EXCEPT !.allowed = FALSE]>>, <<[p EXCEPT !.twice = TRUE]>>,
            <<[p EXCEPT !.secret = "file"]>>, <<[p EXCEPT !.secret = "record"]>>,
            <<Proved("t", "fail", TRUE), [p EXCEPT !.twice = TRUE]>>}
           : p \in {PassT, Proved("v", "pass", TRUE), Proved("t", "other", TRUE)}}

Tools == {{"run.read"}, {"run.read", "proof.inspect"}, {"run.read", "proof.inspect", "freshness.check"}}
AllTools == {{"run.read", "proof.inspect", "freshness.check"}}

Few ==
    UNION {{[records |-> rs, runs |-> RunR, lifts |-> {}, proofs |-> ps, question |-> "plain",
             names |-> "plain", redacts |-> TRUE, maxRecords |-> 3 + n,
             maxCandidates |-> m, maxEvidence |-> v, maxTools |-> t, tools |-> ts,
             filter |-> f, exportReasoning |-> TRUE]
            : ps \in {<<>>} \cup {<<p>> : p \in Receipts}, n \in {0, 1}, m \in {1, 3}, v \in {0, 1}, t \in {1, 2}, ts \in Tools, f \in BOOLEAN}
           : rs \in Ordered}
Many ==
    {[records |-> rs, runs |-> RunR, lifts |-> {}, proofs |-> ps, question |-> "plain",
      names |-> "plain", redacts |-> TRUE, maxRecords |-> 4,
      maxCandidates |-> 4, maxEvidence |-> v, maxTools |-> t, tools |-> ts,
      filter |-> FALSE, exportReasoning |-> FALSE]
     : rs \in {<<Meta, CallOf("t"), CallOf("u")>>, <<Meta, CallOf("t"), ResultOf(2, TRUE)>>},
       ps \in Pairs, v \in {1, 2}, t \in {2, 3, 4}, ts \in AllTools}
LateRequests == Asked(Late, {<<>>}, {"plain"}, {2, 3}, AllTools, {{}}, {FALSE}, {FALSE})
\* Records of a run that is not declared, or changed since their import; a run whose
\* records are not there; policies that allow more than reading.
Foreign == {<<Meta, [CallOf("t") EXCEPT !.run = "s"]>>, <<Meta, [CallOf("t") EXCEPT !.command = "u"]>>,
            <<Plain("assistant")>>}
RefusedRequests ==
    Asked(Foreign, {<<>>}, {"plain"}, {3}, AllTools, {{}}, {FALSE}, {FALSE})
    \cup Asked({<<Meta>>}, {<<>>}, {"plain"}, {3}, {{"run.read"}, {"run.read", "git.commit"}},
              {{}, {"read only"}, {"competing hypothesis"}}, {FALSE}, {FALSE})
SecretRequests ==
    Request(Ordered, {RunR}, {<<>>} \cup PassingT, {"secret"}, {"plain"}, {4}, AllTools, {{}},
            {FALSE}, {FALSE}, BOOLEAN)
    \cup Request({<<Meta>>}, {RunR}, {<<>>}, {"plain"}, {"secret"}, {3}, AllTools, {{}}, {FALSE},
                {FALSE}, BOOLEAN)
\* Receipts of every kind; two runs whose sources are told apart, share an id, or name
\* one run.
Called == <<Meta, CallOf("t")>>
TwoRuns == {{[id |-> i, run |-> "r"], [id |-> j, run |-> n]} :
              i \in {"a"}, j \in {"a", "b"}, n \in {"r", "s"}}
OddRequests ==
    Request({Called}, {RunR}, OddReceipts, {"plain"}, {"plain"}, {4}, AllTools, {{}}, {FALSE},
            {FALSE}, BOOLEAN)
    \cup Request({Called \o <<[Meta EXCEPT !.run = "s"]>>, Called}, TwoRuns, PassingT, {"plain"},
                {"plain"}, {4}, AllTools, {{}}, {FALSE}, {FALSE}, {TRUE})
MCRequests ==
    Few \cup Many \cup LateRequests \cup SecretRequests \cup RefusedRequests \cup OddRequests

---------------------------------------------------------------------------
\* A delivery is not an investigation; its request is not looked at.
NoInvestigation ==
    /\ stage = "none" /\ req = CHOOSE r \in LateRequests : TRUE
    /\ obs = {} /\ cands = {} /\ evidence = {} /\ ledger = {}
    /\ looked = 0 /\ calls = 0 /\ exhausted = FALSE /\ output = "absent"
MCInit ==
    \/ Init /\ NoInvestigation
    \/ InvestigateInit /\ Init /\ scene = Scene(Procs, {TRUE}, 2) /\ ws.code = 1
\* An investigation ends.
Ended == stage \in {"done", "refused"} /\ UNCHANGED investigated
MCNext ==
    \/ stage = "none" /\ Next /\ UNCHANGED <<scene, investigated>>
    \/ stage # "none" /\ (InvestigateNext \/ Ended) /\ UNCHANGED vars
MCSpec == MCInit /\ [][MCNext]_<<vars, investigated>>
=============================================================================
