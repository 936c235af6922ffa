--------------------------- MODULE AssetAdoption ---------------------------
(***************************************************************************)
(* The last step of the evolution pipeline: `aet learn adopt` puts a gated *)
(* candidate in the place of its target asset and enters the decision      *)
(* DEC-<candidate> in an asset Decision Ledger.  Three functions do this:  *)
(*                                                                         *)
(*   - learn.py, adopt (Skill documents): enter the decision, then install *)
(*     the text;                                                           *)
(*   - policy_targets.py, adopt_policy_candidate, and audit_evolution.py,  *)
(*     adopt_audit_rule (both here "policy"): prepare the new ledger beside*)
(*     the old one, install the asset, move the prepared ledger in place,  *)
(*     and put the old asset back if that fails.                           *)
(*                                                                         *)
(* Adopters are processes; each may die at any step, and a file operation  *)
(* may fail.  The ledger is the value of LedgerValue, its ids the          *)
(* candidates.  A candidate the checks refuse is not a step: its material, *)
(* its gate and its shadow evidence do not change, only its target does.   *)
(***************************************************************************)
EXTENDS LedgerValue, FiniteSets

CONSTANTS
    Adopters,     \* processes
    Assets,       \* target files
    Originals,    \* contents of assets that are not candidates
    BaseOf,       \* the contents a candidate was proposed against
    Scenes        \* the situations considered:
                  \*   kind: "skill" or "policy", the code the adopters run
                  \*   assigned[a]: the candidates adopter a may be asked to adopt
                  \*   targetOf[c]: the asset of a candidate
                  \*   max: bounds on attempts, faults, crashes and edits

Candidates == Ids
Texts == Candidates \cup Originals
Events == {"attempts", "faults", "crashes", "edits"}

AdoptionAssumption ==
    /\ \A s \in Scenes :
         /\ s.kind \in {"skill", "policy"}
         /\ s.assigned \in [Adopters -> SUBSET Candidates]
         \* No two processes adopt the same candidate at once.
         /\ \A a, b \in Adopters : a # b => s.assigned[a] \cap s.assigned[b] = {}
         /\ s.targetOf \in [Candidates -> Assets]
         /\ s.max \in [Events -> Nat]
    /\ BaseOf \in [Candidates -> Texts]
    /\ None \notin Texts \cup Ledgers /\ Candidates \cap Originals = {}

VARIABLES
    scene,     \* the situation, fixed
    pc,        \* pc[a]: where adopter a is
    cand,      \* cand[a]: the candidate it adopts
    draft,     \* draft[a]: the ledger it has in memory (skill)
    kept,      \* kept[a]: the contents to put back on an error (policy)
    target,    \* target[s]: the contents of asset s
    tmp,       \* tmp[s]: the temporary file beside asset s; its name is fixed
    ledger,    \* the ledger file, or None
    prepared,  \* prepared[c]: <ledger>.<c>.prepared, or None (policy)
    adopted,   \* candidates for which an adopter returned PASS
    spent      \* attempts, faults, crashes and edits so far

vars == <<scene, pc, cand, draft, kept, target, tmp, ledger, prepared, adopted, spent>>

Init ==
    /\ scene \in Scenes
    /\ pc = [a \in Adopters |-> "idle"]
    /\ cand = [a \in Adopters |-> None]
    /\ draft = [a \in Adopters |-> Empty]
    /\ kept = [a \in Adopters |-> None]
    /\ target \in [Assets -> Originals]
    /\ tmp = [s \in Assets |-> None]
    /\ ledger = None
    /\ prepared = [c \in Candidates |-> None]
    /\ adopted = {}
    /\ spent = [e \in Events |-> 0]

AssetOf(a) == scene.targetOf[cand[a]]

Goto(a, from, to) ==
    /\ pc[a] = from
    /\ pc' = [pc EXCEPT ![a] = to]

Fault == spent.faults < scene.max.faults /\ spent' = [spent EXCEPT !.faults = @ + 1]

\* candidate.json, the gate and the target are read and agree: the target
\* still has the contents the candidate was proposed against.
Authorize(a, c) ==
    /\ c \in scene.assigned[a]
    /\ target[scene.targetOf[c]] = BaseOf[c]
    /\ spent.attempts < scene.max.attempts
    /\ spent' = [spent EXCEPT !.attempts = @ + 1]
    /\ Goto(a, "idle", "authorized")
    /\ cand' = [cand EXCEPT ![a] = c]
    /\ UNCHANGED <<scene, draft, kept, target, tmp, ledger, prepared, adopted>>
\* add_decision(DEC-c, ACCEPTED, EVIDENCED, two sources) on a ledger.
Enterable(l, c) == Addable(l, c, "ACCEPTED", "EVIDENCED", TRUE, <<>>)
Enter(l, c) == Add(l, c, "ACCEPTED", <<>>)
Entered(l, c) == l # None /\ Present(l, c)

---------------------------------------------------------------------------
(* Skill: the decision first.                                               *)

CreateLedger(a) ==
    /\ scene.kind = "skill" /\ ledger = None
    /\ Goto(a, "authorized", "creating")
    /\ UNCHANGED <<scene, cand, draft, kept, target, tmp, ledger, prepared, adopted, spent>>

WriteEmptyLedger(a) ==
    /\ Goto(a, "creating", "authorized")
    /\ ledger' = Empty
    /\ UNCHANGED <<scene, cand, draft, kept, target, tmp, prepared, adopted, spent>>


LoadLedger(a) ==
    /\ scene.kind = "skill" /\ ledger # None
    /\ Goto(a, "authorized", "entering")
    /\ Enterable(ledger, cand[a])
    /\ draft' = [draft EXCEPT ![a] = Enter(ledger, cand[a])]
    /\ UNCHANGED <<scene, cand, kept, target, tmp, ledger, prepared, adopted, spent>>

\* The candidate is in the ledger already: "decision id must be ... unique".
RefuseEntry(a) ==
    /\ scene.kind = "skill" /\ ledger # None
    /\ Goto(a, "authorized", "idle")
    /\ ~Enterable(ledger, cand[a])
    /\ UNCHANGED <<scene, cand, draft, kept, target, tmp, ledger, prepared, adopted, spent>>

\* Defective variant: the entry stays in memory.
EnterInMemory(a) ==
    /\ Goto(a, "entering", "installing")
    /\ draft' = [draft EXCEPT ![a] = Empty]
    /\ UNCHANGED <<scene, cand, kept, target, tmp, ledger, prepared, adopted, spent>>

EnterDecision(a) ==
    /\ Goto(a, "entering", "installing")
    /\ ledger' = draft[a]
    /\ draft' = [draft EXCEPT ![a] = Empty]
    /\ UNCHANGED <<scene, cand, kept, target, tmp, prepared, adopted, spent>>

---------------------------------------------------------------------------
(* Policy: the ledger is prepared aside.                                    *)


\* A prepared ledger left by an earlier attempt is unlinked; the ledger is
\* copied, or an empty one created.
Prepare(a) ==
    /\ scene.kind = "policy"
    /\ Goto(a, "authorized", "prepared")
    /\ prepared' = [prepared EXCEPT ![cand[a]] = IF ledger = None THEN Empty ELSE ledger]
    /\ UNCHANGED <<scene, cand, draft, kept, target, tmp, ledger, adopted, spent>>
EnterPrepared(a) ==
    LET l == prepared[cand[a]]
    IN  /\ pc[a] = "prepared"
        /\ IF Enterable(l, cand[a])
           THEN /\ Goto(a, "prepared", "entered")
                /\ prepared' = [prepared EXCEPT ![cand[a]] = Enter(l, cand[a])]
           ELSE /\ Goto(a, "prepared", "idle")
                /\ UNCHANGED prepared
        /\ UNCHANGED <<scene, cand, draft, kept, target, tmp, ledger, adopted, spent>>

\* What a rollback will put back is read only now.
KeepBaseline(a) ==
    /\ Goto(a, "entered", "installing")
    /\ kept' = [kept EXCEPT ![a] = target[AssetOf(a)]]
    /\ UNCHANGED <<scene, cand, draft, target, tmp, ledger, prepared, adopted, spent>>

---------------------------------------------------------------------------
(* Installing: _atomic_text and _atomic_bytes.                              *)

\* Defective variant: the prepared ledger is put in place before the asset.
PublishLedgerFirst(a) ==
    /\ Goto(a, "installing", "replacing")
    /\ ledger' = prepared[cand[a]]
    /\ tmp' = [tmp EXCEPT ![AssetOf(a)] = cand[a]]
    /\ UNCHANGED <<scene, cand, draft, kept, target, prepared, adopted, spent>>

WriteTmp(a) ==
    /\ Goto(a, "installing", "replacing")
    /\ tmp' = [tmp EXCEPT ![AssetOf(a)] = cand[a]]
    /\ UNCHANGED <<scene, cand, draft, kept, target, ledger, prepared, adopted, spent>>

\* os.replace takes whatever the temporary file holds.
ReplaceTarget(a) ==
    /\ Goto(a, "replacing", IF scene.kind = "skill" THEN "idle" ELSE "installed")
    /\ tmp[AssetOf(a)] # None
    /\ target' = [target EXCEPT ![AssetOf(a)] = tmp[AssetOf(a)]]
    /\ tmp' = [tmp EXCEPT ![AssetOf(a)] = None]
    /\ adopted' = IF scene.kind = "skill" THEN adopted \cup {cand[a]} ELSE adopted
    /\ UNCHANGED <<scene, cand, draft, kept, ledger, prepared, spent>>

ReplaceLedger(a) ==
    /\ Goto(a, "installed", "idle")
    /\ ledger' = prepared[cand[a]]
    /\ prepared' = [prepared EXCEPT ![cand[a]] = None]
    /\ adopted' = adopted \cup {cand[a]}
    /\ UNCHANGED <<scene, cand, draft, kept, target, tmp, spent>>


\* An OSError while installing (one before that has the effect of a crash
\* there): the policy code puts the kept contents back, the Skill code has
\* nothing to catch it.
Failure(a) ==
    pc' = [pc EXCEPT ![a] = IF scene.kind = "policy" THEN "rolling" ELSE "idle"]

FailInstall(a) ==
    /\ \/ /\ pc[a] \in {"installing", "replacing", "installed"}
          /\ Fault
       \/ /\ pc[a] = "replacing" /\ tmp[AssetOf(a)] = None
          /\ UNCHANGED spent
    /\ Failure(a)
    /\ UNCHANGED <<scene, cand, draft, kept, target, tmp, ledger, prepared, adopted>>

RollbackTmp(a) ==
    /\ Goto(a, "rolling", "rolled")
    /\ tmp' = [tmp EXCEPT ![AssetOf(a)] = kept[a]]
    /\ UNCHANGED <<scene, cand, draft, kept, target, ledger, prepared, adopted, spent>>

RollbackTarget(a) ==
    /\ Goto(a, "rolled", "idle")
    /\ tmp[AssetOf(a)] # None
    /\ target' = [target EXCEPT ![AssetOf(a)] = tmp[AssetOf(a)]]
    /\ tmp' = [tmp EXCEPT ![AssetOf(a)] = None]
    /\ UNCHANGED <<scene, cand, draft, kept, ledger, prepared, adopted, spent>>

\* The rollback fails in its turn.
FailRollback(a) ==
    /\ \/ pc[a] \in {"rolling", "rolled"} /\ Fault
       \/ pc[a] = "rolled" /\ tmp[AssetOf(a)] = None /\ UNCHANGED spent
    /\ pc' = [pc EXCEPT ![a] = "idle"]
    /\ UNCHANGED <<scene, cand, draft, kept, target, tmp, ledger, prepared, adopted>>

---------------------------------------------------------------------------
Crash(a) ==
    /\ pc[a] # "idle"
    /\ spent.crashes < scene.max.crashes
    /\ spent' = [spent EXCEPT !.crashes = @ + 1]
    /\ pc' = [pc EXCEPT ![a] = "idle"]
    /\ draft' = [draft EXCEPT ![a] = Empty]
    /\ UNCHANGED <<scene, cand, kept, target, tmp, ledger, prepared, adopted>>

\* The user edits an asset, or restores one, while nothing is being adopted.
UserEdit(s, text) ==
    /\ \A a \in Adopters : pc[a] = "idle"
    /\ target[s] # text
    /\ spent.edits < scene.max.edits
    /\ spent' = [spent EXCEPT !.edits = @ + 1]
    /\ target' = [target EXCEPT ![s] = text]
    /\ UNCHANGED <<scene, pc, cand, draft, kept, tmp, ledger, prepared, adopted>>

AdoptSkill(a) ==
    CreateLedger(a) \/ WriteEmptyLedger(a) \/ LoadLedger(a) \/ RefuseEntry(a)
        \/ EnterDecision(a)
AdoptPolicy(a) ==
    Prepare(a) \/ EnterPrepared(a) \/ KeepBaseline(a) \/ ReplaceLedger(a)
        \/ RollbackTmp(a) \/ RollbackTarget(a) \/ FailRollback(a)

Next ==
    \/ \E a \in Adopters :
         \/ \E c \in Candidates : Authorize(a, c)
         \/ AdoptSkill(a) \/ AdoptPolicy(a)
         \/ WriteTmp(a) \/ ReplaceTarget(a) \/ FailInstall(a) \/ Crash(a)
    \/ \E s \in Assets, text \in Originals : UserEdit(s, text)

Spec == Init /\ [][Next]_vars
---------------------------------------------------------------------------
(* Properties.                                                              *)

Steps == {"idle", "authorized", "creating", "entering", "prepared", "entered",
          "installing", "replacing", "installed", "rolling", "rolled"}

TypeOK ==
    /\ pc \in [Adopters -> Steps]
    /\ cand \in [Adopters -> Candidates \cup {None}]
    /\ draft \in [Adopters -> Ledgers]
    /\ kept \in [Adopters -> Texts \cup {None}]
    /\ \A a \in Adopters :
         (scene.kind = "policy" /\ pc[a] \in {"installing", "replacing", "installed",
                                       "rolling", "rolled"}) => kept[a] \in Texts
    /\ target \in [Assets -> Texts]
    /\ tmp \in [Assets -> Texts \cup {None}]
    /\ ledger \in Ledgers \cup {None}
    /\ prepared \in [Candidates -> Ledgers \cup {None}]
    /\ adopted \subseteq Candidates
    /\ \A e \in Events : spent[e] \in 0..scene.max[e]

Quiet == \A a \in Adopters : pc[a] = "idle"
\* All adoptions are left to one process, which does one after another.
Alone == \E a \in Adopters : \A b \in Adopters \ {a} : scene.assigned[b] = {}

\* No two processes write the same asset.
Apart ==
    \A a, b \in Adopters : a # b =>
        \A c \in scene.assigned[a], d \in scene.assigned[b] : scene.targetOf[c] # scene.targetOf[d]

\* A Skill holds the text of a candidate only when the ledger has the decision
\* to adopt it, whatever crashed or failed on the way (learn.py, adopt: the
\* decision is written before the target).  One adopter at a time: of two that
\* overlap, the later one writes a ledger that does not have the other's decision.
InstalledIsEntered ==
    /\ TypeOK
    /\ scene.kind = "skill" /\ Alone =>
        \A s \in Assets : target[s] \in Candidates => Entered(ledger, target[s])

\* A decision the ledger holds stays in it, and the decision of a candidate that
\* was reported adopted is there, across crashes and attempts that fail half-way
\* and leave prepared ledgers behind; and it is installed once, even after the user
\* has restored the text it was proposed against.  One adopter at a time: of two that
\* overlap, the later one puts back the ledger it had copied.
EntriesEndure ==
    Alone =>
        /\ \A c \in Candidates : Entered(ledger, c) => Entered(ledger', c)
        /\ \A c \in adopted' : Entered(ledger', c)
        /\ \A c \in adopted, a \in Adopters :
             (cand[a] = c /\ pc[a] = "replacing") => target' = target

\* With at most one failing file operation, an attempt on a policy changes both
\* the asset and the ledger or neither: when nobody is adopting, an asset holds a
\* candidate only if that is entered, and only adopted ones are entered
\* (policy_targets.py, adopt_policy_candidate: "policy adoption was rolled back").
\* A process that dies between the two moves is not rolled back.
AllOrNothing ==
    (scene.kind = "policy" /\ Alone /\ Quiet /\ spent.crashes = 0 /\ spent.faults <= 1) =>
        /\ \A s \in Assets : target[s] \in Candidates => Entered(ledger, target[s])
        /\ \A c \in Candidates : Entered(ledger, c) => c \in adopted

\* An attempt that failed does not stand in the way of the next one: the ledger
\* refuses a candidate only when its decision has really been published, not
\* because a prepared ledger of the failed attempt holds it.  Of several adopters,
\* another one may have dropped the entry since the ledger was copied.
FailedAttemptsCanBeRetried ==
    \A a \in Adopters :
        (pc[a] = "prepared" /\ pc'[a] = "idle" /\ spent'.crashes = spent.crashes)
            => cand[a] \in adopted /\ (Alone => Entered(ledger, cand[a]))

\* A policy decision enters the ledger at a moment when its asset holds the
\* candidate, even if other candidates are being adopted for other assets and
\* processes die (the prepared ledger is moved after the asset).  Only an entry
\* that another adopter's copy had dropped may come back later.
EntryOnlyAfterInstall ==
    \A c \in Candidates :
        (scene.kind = "policy" /\ Apart /\ ~Entered(ledger, c) /\ Entered(ledger', c))
            => target[scene.targetOf[c]] = c \/ c \in adopted

\* What an adoption leaves: of a state, and of a step.
AdoptionIsWhole == InstalledIsEntered /\ AllOrNothing
EntriesStayTrue == EntriesEndure /\ EntryOnlyAfterInstall /\ FailedAttemptsCanBeRetried
EntriesAreTrue == [][EntriesStayTrue]_vars
=============================================================================
