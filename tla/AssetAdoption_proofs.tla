------------------------ MODULE AssetAdoption_proofs ------------------------
(***************************************************************************)
(* Proofs about adoption, for any candidates, assets and scenes, with any  *)
(* number of adopters, attempts, failures, deaths and edits.               *)
(*                                                                         *)
(* Whatever else is adopted, a prepared ledger holds what was adopted once *)
(* and the candidate it is prepared for (Sources), and, if no two          *)
(* processes write the same asset, the temporary file and the asset hold   *)
(* what their adopter wrote (Files).  That nothing is lost and nothing is  *)
(* half done needs that the ledger an adopter has copied is still the one  *)
(* in place, which is so if it is alone (Lone, Whole).                     *)
(***************************************************************************)
EXTENDS AssetAdoption, TLAPS

SkillSteps == {"idle", "authorized", "creating", "entering", "installing", "replacing"}
PolicySteps == Steps \ {"creating", "entering"}
Installing == {"installing", "replacing", "installed"}
Undoing == {"rolling", "rolled"}

Typed == TypeOK /\ scene \in Scenes /\ spent \in [Events -> Nat]

\* Where an adopter of these candidates is, and of which candidate.
PlaceOf(kind, at, c, assigned) ==
    /\ at # "idle" => c \in assigned
    /\ kind = "skill" => at \in SkillSteps
    /\ kind = "policy" => at \in PolicySteps

\* A prepared ledger p in use for c holds c and what was adopted.
SourceOf(at, c, p, done) ==
    /\ at \in {"prepared", "entered"} \cup Installing => p # None
    /\ at = "prepared" => \A d \in Candidates : Entered(p, d) => d \in done
    /\ at \in {"entered"} \cup Installing =>
         \A d \in Candidates : Entered(p, d) => d \in done \cup {c}

\* What an adopter has written, its temporary file m and the asset t, is in its place.
FileOf(at, c, k, m, t) ==
    /\ at = "replacing" => m = c
    /\ at = "rolled" => m = k
    /\ at = "installed" => t = c

\* The ledger l is the one that a lone adopter made its draft d, or the prepared p, from;
\* c was not adopted before.
LoneOf(kind, at, c, d, p, l, done) ==
    /\ at \in {"entering", "entered"} \cup Installing => c \notin done
    /\ kind = "skill" =>
         /\ at = "creating" => l = None
         /\ at = "entering" =>
              Entered(d, c) /\ \A e \in Candidates : Entered(l, e) => Entered(d, e)
         /\ at \in Installing => Entered(l, c)
    /\ kind = "policy" =>
         /\ at = "prepared" => \A e \in Candidates : Entered(l, e) <=> Entered(p, e)
         /\ at \in {"entered"} \cup Installing =>
              Entered(p, c) /\ \A e \in Candidates : Entered(l, e) => Entered(p, e)

\* What would be put back is entered, and one operation has failed when it is.
KeptOf(at, k, l, faults) ==
    /\ at \in Installing \cup Undoing /\ k \in Candidates => Entered(l, k)
    /\ at \in Undoing => faults = 1

(***************************************************************************)
(* The invariant.                                                          *)
(***************************************************************************)

Placed == \A a \in Adopters : PlaceOf(scene.kind, pc[a], cand[a], scene.assigned[a])

Sources ==
    scene.kind = "policy" =>
        /\ \A c \in Candidates : Entered(ledger, c) => c \in adopted
        /\ \A a \in Adopters : SourceOf(pc[a], cand[a], prepared[cand[a]], adopted)

Files ==
    Apart => \A a \in Adopters :
                 FileOf(pc[a], cand[a], kept[a], tmp[AssetOf(a)], target[AssetOf(a)])

TextsAreEntered(t, l) == \A s \in Assets : t[s] \in Candidates => Entered(l, t[s])
Lone ==
    Alone =>
        /\ \A c \in adopted : Entered(ledger, c)
        /\ scene.kind = "skill" => TextsAreEntered(target, ledger)
        /\ \A a \in Adopters :
             LoneOf(scene.kind, pc[a], cand[a], draft[a], prepared[cand[a]], ledger, adopted)

\* An asset that holds a candidate without an entry is being adopted or put back.
Whole ==
    scene.kind = "policy" /\ Alone /\ spent.crashes = 0 /\ spent.faults <= 1 =>
        /\ \A s \in Assets :
             \/ target[s] \in Candidates => Entered(ledger, target[s])
             \/ \E a \in Adopters : pc[a] \in {"installed"} \cup Undoing /\ s = AssetOf(a)
        /\ \A a \in Adopters : KeptOf(pc[a], kept[a], ledger, spent.faults)

IInv == Typed /\ Placed /\ Sources /\ Files /\ Lone /\ Whole

(***************************************************************************)
(* The scene and the ledger.                                               *)
(***************************************************************************)

LEMMA SceneIs ==
  ASSUME AdoptionAssumption, scene \in Scenes
  PROVE  /\ scene.kind \in {"skill", "policy"}
         /\ \A a \in Adopters : scene.assigned[a] \subseteq Candidates
         /\ \A a, b \in Adopters : a # b => scene.assigned[a] \cap scene.assigned[b] = {}
         /\ scene.targetOf \in [Candidates -> Assets]
         /\ scene.max \in [Events -> Nat]
         /\ None \notin Texts /\ None \notin Ledgers /\ Candidates \cap Originals = {}
         /\ BaseOf \in [Candidates -> Texts]
  BY DEF AdoptionAssumption

LEMMA EmptyIs ==
  ASSUME AdoptionAssumption
  PROVE  Empty \in Ledgers /\ Empty # None /\ \A c \in Candidates : ~Entered(Empty, c)
<1>1. Empty \in Ledgers
  BY DEF Empty, Ledgers, Absent, Event
<1>2. \A c \in Candidates : ~Entered(Empty, c)
  BY DEF Entered, Present, Empty, Absent, Candidates
<1> QED BY <1>1, <1>2 DEF AdoptionAssumption

\* The entry of a candidate is added to those of the ledger.
LEMMA EnterIs ==
  ASSUME AdoptionAssumption
  PROVE  \A l \in Ledgers, c \in Candidates :
           /\ Enter(l, c) \in Ledgers /\ Enter(l, c) # None
           /\ \A d \in Candidates : Entered(Enter(l, c), d) <=> d = c \/ Entered(l, d)
           /\ Enterable(l, c) <=> ~Entered(l, c)
<1> SUFFICES ASSUME NEW l \in Ledgers, NEW c \in Candidates
             PROVE  /\ Enter(l, c) \in Ledgers /\ Enter(l, c) # None
                    /\ \A d \in Candidates : Entered(Enter(l, c), d) <=> d = c \/ Entered(l, d)
                    /\ Enterable(l, c) <=> ~Entered(l, c)
  OBVIOUS
<1>1. ASSUME NEW d \in Ids
      PROVE  Enter(l, c).decisions[d] =
               IF d = c THEN [state |-> "ACCEPTED", superseded_by |-> None] ELSE l.decisions[d]
  BY DEF Enter, Add
<1>2. [n \in 1..Len(<<>>) |-> Superseded(<<>>[n], c)] = <<>>
  OBVIOUS
<1>3. Enter(l, c).history \in Seq(Event)
  <2>1. Append(l.history, Added(c)) \in Seq(Event)
    BY DEF Ledgers, Event, Added, Candidates
  <2> QED BY <1>2, <2>1 DEF Enter, Add
<1>4. Enter(l, c).decisions \in [Ids -> Decision \cup {Absent}]
  <2>1. [state |-> "ACCEPTED", superseded_by |-> None] \in Decision
    BY DEF Decision, States
  <2> QED BY <1>1, <2>1 DEF Enter, Add, Ledgers
<1>5. Enter(l, c) \in Ledgers
  BY <1>3, <1>4 DEF Enter, Add, Ledgers
<1>6. Enter(l, c) # None /\ l # None
  BY <1>5 DEF AdoptionAssumption
<1>7. Enterable(l, c) <=> ~Entered(l, c)
  BY <1>6 DEF Enterable, Addable, Entered
<1>8. \A d \in Candidates : Entered(Enter(l, c), d) <=> d = c \/ Entered(l, d)
  <2> SUFFICES ASSUME NEW d \in Candidates
               PROVE  Entered(Enter(l, c), d) <=> d = c \/ Entered(l, d)
    OBVIOUS
  <2>1. CASE d = c
    <3>1. Enter(l, c).decisions[d].state = "ACCEPTED"
      BY <1>1, <2>1 DEF Candidates
    <3> QED BY <1>6, <2>1, <3>1 DEF Entered, Present
  <2>2. CASE d # c
    <3>1. Enter(l, c).decisions[d] = l.decisions[d]
      BY <1>1, <2>2 DEF Candidates
    <3> QED BY <1>6, <2>2, <3>1 DEF Entered, Present
  <2> QED BY <2>1, <2>2
<1> QED BY <1>5, <1>6, <1>7, <1>8

(***************************************************************************)
(* A step of one adopter.                                                  *)
(***************************************************************************)

\* It writes nothing that is another's.
Only(a) ==
    /\ scene' = scene /\ adopted \subseteq adopted'
    /\ \A b \in Adopters \ {a} : pc'[b] = pc[b] /\ cand'[b] = cand[b] /\ kept'[b] = kept[b]
    /\ \A c \in Candidates \ scene.assigned[a] : prepared'[c] = prepared[c]
    /\ \A s \in Assets : (\A c \in scene.assigned[a] : scene.targetOf[c] # s) =>
                             tmp'[s] = tmp[s] /\ target'[s] = target[s]

\* What it has to come to.
SourceAfter(a) ==
    scene.kind = "policy" =>
        /\ \A c \in Candidates : Entered(ledger', c) => c \in adopted'
        /\ SourceOf(pc'[a], cand'[a], prepared'[cand'[a]], adopted')
FileAfter(a) ==
    Apart => FileOf(pc'[a], cand'[a], kept'[a], tmp'[scene.targetOf[cand'[a]]],
                    target'[scene.targetOf[cand'[a]]])
LoneAfter(a) ==
    Alone =>
        /\ \A c \in adopted' : Entered(ledger', c)
        /\ scene.kind = "skill" => TextsAreEntered(target', ledger')
        /\ LoneOf(scene.kind, pc'[a], cand'[a], draft'[a], prepared'[cand'[a]], ledger', adopted')
WholeAfter(a) ==
    (scene.kind = "policy" /\ Alone /\ spent'.crashes = 0 /\ spent'.faults <= 1) =>
        /\ \A s \in Assets :
             \/ target'[s] \in Candidates => Entered(ledger', target'[s])
             \/ pc'[a] \in {"installed"} \cup Undoing /\ s = scene.targetOf[cand'[a]]
        /\ KeptOf(pc'[a], kept'[a], ledger', spent'.faults)

\* If one is alone, the others are idle.
LEMMA OthersIdle ==
  ASSUME Placed, Alone, NEW a \in Adopters, scene.assigned[a] # {}, NEW b \in Adopters, b # a
  PROVE  pc[b] = "idle"
<1>1. scene.assigned[b] = {}
  BY DEF Alone
<1> QED BY <1>1 DEF Placed, PlaceOf

\* So it is enough to look at what the adopter itself and the shared files come to.
LEMMA StepOf ==
  ASSUME AdoptionAssumption, IInv, NEW a \in Adopters, Only(a), Typed',
         scene.assigned[a] # {},
         PlaceOf(scene.kind, pc'[a], cand'[a], scene.assigned[a]),
         SourceAfter(a), FileAfter(a), LoneAfter(a), WholeAfter(a)
  PROVE  IInv'
<1>1. scene' = scene
  BY DEF Only
<1>2. (Alone' <=> Alone) /\ (Apart' <=> Apart)
  BY <1>1 DEF Alone, Apart
<1>3. ASSUME NEW b \in Adopters, b # a
      PROVE  /\ pc'[b] = pc[b] /\ cand'[b] = cand[b] /\ kept'[b] = kept[b]
             /\ PlaceOf(scene.kind, pc[b], cand[b], scene.assigned[b])
             /\ pc[b] # "idle" => cand[b] \in scene.assigned[b] /\ cand[b] \in Candidates
  <2>1. /\ pc'[b] = pc[b] /\ cand'[b] = cand[b] /\ kept'[b] = kept[b]
        /\ PlaceOf(scene.kind, pc[b], cand[b], scene.assigned[b])
    BY <1>3 DEF Only, IInv, Placed
  <2> QED BY <2>1, SceneIs DEF PlaceOf, IInv, Typed
<1>4. Placed'
  <2> SUFFICES ASSUME NEW b \in Adopters
               PROVE  PlaceOf(scene.kind, pc'[b], cand'[b], scene.assigned[b])
    BY <1>1 DEF Placed
  <2> QED BY <1>3
<1>5. Sources'
  <2> SUFFICES ASSUME scene.kind = "policy", NEW b \in Adopters, b # a
               PROVE  SourceOf(pc'[b], cand'[b], prepared'[cand'[b]], adopted')
    BY <1>1 DEF Sources, SourceAfter
  <2>1. SourceOf(pc[b], cand[b], prepared[cand[b]], adopted)
    BY DEF IInv, Sources
  <2>2. pc[b] # "idle" => prepared'[cand[b]] = prepared[cand[b]]
    BY <1>3, SceneIs DEF Only, IInv, Typed
  <2> QED BY <1>3, <2>1, <2>2 DEF SourceOf, Only, Installing
<1>6. Files'
  <2> SUFFICES ASSUME Apart, NEW b \in Adopters, b # a
               PROVE  FileOf(pc'[b], cand'[b], kept'[b], tmp'[scene.targetOf[cand'[b]]],
                             target'[scene.targetOf[cand'[b]]])
    BY <1>1, <1>2 DEF Files, AssetOf, FileAfter
  <2> DEFINE s == scene.targetOf[cand[b]]
  <2>1. FileOf(pc[b], cand[b], kept[b], tmp[s], target[s])
    BY DEF IInv, Files, AssetOf
  <2>2. pc[b] # "idle" => tmp'[s] = tmp[s] /\ target'[s] = target[s]
    <3> SUFFICES ASSUME pc[b] # "idle" PROVE tmp'[s] = tmp[s] /\ target'[s] = target[s]
      OBVIOUS
    <3>1. s \in Assets
      BY <1>3, SceneIs DEF IInv, Typed
    <3>2. \A c \in scene.assigned[a] : scene.targetOf[c] # s
      BY <1>3 DEF Apart
    <3> QED BY <3>1, <3>2 DEF Only
  <2> HIDE DEF s
  <2> QED BY <1>3, <2>1, <2>2 DEF FileOf, s
<1>7. Alone => \A b \in Adopters : b # a => pc'[b] = "idle"
  BY <1>3, OthersIdle DEF IInv
<1>8. Lone'
  <2> SUFFICES ASSUME Alone, NEW b \in Adopters, b # a
               PROVE  LoneOf(scene.kind, pc'[b], cand'[b], draft'[b], prepared'[cand'[b]],
                             ledger', adopted')
    BY <1>1, <1>2 DEF Lone, LoneAfter
  <2> QED BY <1>7 DEF LoneOf, Installing
<1>9. Whole'
  <2> SUFFICES ASSUME scene.kind = "policy", Alone, spent'.crashes = 0, spent'.faults <= 1
               PROVE  /\ \A s \in Assets :
                           \/ target'[s] \in Candidates => Entered(ledger', target'[s])
                           \/ \E b \in Adopters : /\ pc'[b] \in {"installed"} \cup Undoing
                                                  /\ s = scene.targetOf[cand'[b]]
                      /\ \A b \in Adopters : KeptOf(pc'[b], kept'[b], ledger', spent'.faults)
    BY <1>1, <1>2 DEF Whole, AssetOf
  <2>1. \A b \in Adopters : b # a => KeptOf(pc'[b], kept'[b], ledger', spent'.faults)
    BY <1>7 DEF KeptOf, Installing, Undoing
  <2> QED BY <2>1 DEF WholeAfter
<1> QED BY <1>4, <1>5, <1>6, <1>8, <1>9 DEF IInv

\* What the invariant says of one adopter.
LEMMA Now ==
  ASSUME AdoptionAssumption, IInv, NEW a \in Adopters
  PROVE  /\ scene.kind \in {"skill", "policy"}
         /\ pc[a] # "idle" => cand[a] \in scene.assigned[a]
         /\ cand[a] \in scene.assigned[a] =>
              cand[a] \in Candidates /\ scene.targetOf[cand[a]] \in Assets
         /\ pc[a] \in {"creating", "entering"} => scene.kind = "skill"
         /\ pc[a] \in {"prepared", "entered", "installed"} \cup Undoing => scene.kind = "policy"
         /\ scene.kind = "policy" =>
              /\ \A c \in Candidates : Entered(ledger, c) => c \in adopted
              /\ SourceOf(pc[a], cand[a], prepared[cand[a]], adopted)
         /\ Apart => FileOf(pc[a], cand[a], kept[a], tmp[scene.targetOf[cand[a]]],
                            target[scene.targetOf[cand[a]]])
         /\ Alone =>
              /\ Apart
              /\ \A c \in adopted : Entered(ledger, c)
              /\ scene.kind = "skill" => TextsAreEntered(target, ledger)
              /\ LoneOf(scene.kind, pc[a], cand[a], draft[a], prepared[cand[a]], ledger, adopted)
         /\ (scene.kind = "policy" /\ Alone /\ spent.crashes = 0 /\ spent.faults <= 1) =>
              KeptOf(pc[a], kept[a], ledger, spent.faults)
<1>1. PlaceOf(scene.kind, pc[a], cand[a], scene.assigned[a])
  BY DEF IInv, Placed
<1>2. cand[a] \in scene.assigned[a] =>
        cand[a] \in Candidates /\ scene.targetOf[cand[a]] \in Assets
  BY SceneIs DEF IInv, Typed
<1>3. /\ pc[a] \in {"creating", "entering"} => scene.kind = "skill"
      /\ pc[a] \in {"prepared", "entered", "installed"} \cup Undoing => scene.kind = "policy"
  BY <1>1, SceneIs DEF PlaceOf, SkillSteps, PolicySteps, Undoing, IInv, Typed
<1>4. Alone => Apart
  BY DEF Alone, Apart
<1> QED
  BY <1>1, <1>2, <1>3, <1>4, SceneIs DEF IInv, Typed, PlaceOf, Sources, Files, Lone, Whole, AssetOf

\* One that is alone and not idle accounts for every asset.
LEMMA WholeNow ==
  ASSUME AdoptionAssumption, IInv, NEW a \in Adopters, scene.assigned[a] # {},
         scene.kind = "policy", Alone, spent.crashes = 0, spent.faults <= 1,
         NEW s \in Assets
  PROVE  \/ target[s] \in Candidates => Entered(ledger, target[s])
         \/ pc[a] \in {"installed"} \cup Undoing /\ s = scene.targetOf[cand[a]]
<1>1. \A b \in Adopters : b # a => pc[b] = "idle"
  BY OthersIdle DEF IInv
<1> QED BY <1>1 DEF IInv, Whole, AssetOf, Undoing

(***************************************************************************)
(* The actions.                                                            *)
(***************************************************************************)

\* There is no ledger yet.
LEMMA CreateLedgerHolds ==
  ASSUME AdoptionAssumption, IInv, NEW a \in Adopters, CreateLedger(a)
  PROVE  IInv'
<1>1. /\ pc[a] = "authorized" /\ pc'[a] = "creating"
      /\ UNCHANGED <<cand, kept, ledger, adopted, target>> /\ ledger = None
  BY DEF CreateLedger, Goto, IInv, Typed, TypeOK, AssetOf
<1>2. /\ scene.kind = "skill" /\ cand'[a] \in scene.assigned[a]
      /\ cand'[a] \in Candidates /\ scene.targetOf[cand'[a]] \in Assets
  BY <1>1, Now, SceneIs DEF CreateLedger, IInv, Typed, Undoing
<1>3. Only(a)
  BY <1>1, <1>2 DEF Only, CreateLedger, Goto, IInv, Typed, TypeOK, AssetOf
<1>4. Typed'
  BY <1>1, <1>2, SceneIs DEF CreateLedger, Goto, IInv, Typed, TypeOK, Steps, Events
<1>5. PlaceOf(scene.kind, pc'[a], cand'[a], scene.assigned[a])
  BY <1>1, <1>2 DEF PlaceOf, SkillSteps, PolicySteps, Steps
<1>6. SourceAfter(a)
  BY <1>2 DEF SourceAfter
<1>7. FileAfter(a)
  BY <1>1, <1>2, Now DEF FileAfter, FileOf
<1>8. LoneAfter(a)
  BY <1>1, <1>2, Now DEF LoneAfter, LoneOf, Installing
<1>9. WholeAfter(a)
  BY <1>2 DEF WholeAfter
<1> QED BY <1>2, <1>3, <1>4, <1>5, <1>6, <1>7, <1>8, <1>9, StepOf

\* The new ledger is empty, and so was what it replaces, if the adopter is alone.
LEMMA WriteEmptyLedgerHolds ==
  ASSUME AdoptionAssumption, IInv, NEW a \in Adopters, WriteEmptyLedger(a)
  PROVE  IInv'
<1>1. /\ pc[a] = "creating" /\ pc'[a] = "authorized"
      /\ UNCHANGED <<cand, kept, adopted, target>> /\ ledger' = Empty
  BY DEF WriteEmptyLedger, Goto, IInv, Typed, TypeOK, AssetOf
<1>2. /\ scene.kind = "skill" /\ cand'[a] \in scene.assigned[a]
      /\ cand'[a] \in Candidates /\ scene.targetOf[cand'[a]] \in Assets
  BY <1>1, Now, SceneIs DEF WriteEmptyLedger, IInv, Typed, Undoing
<1>3. Only(a)
  BY <1>1, <1>2 DEF Only, WriteEmptyLedger, Goto, IInv, Typed, TypeOK, AssetOf
<1>4. Typed'
  BY <1>1, <1>2, SceneIs, EmptyIs DEF WriteEmptyLedger, Goto, IInv, Typed, TypeOK, Steps, Events
<1>5. PlaceOf(scene.kind, pc'[a], cand'[a], scene.assigned[a])
  BY <1>1, <1>2 DEF PlaceOf, SkillSteps, PolicySteps, Steps
<1>6. SourceAfter(a)
  BY <1>2 DEF SourceAfter
<1>7. FileAfter(a)
  BY <1>1, <1>2, Now DEF FileAfter, FileOf
<1>8. LoneAfter(a)
  <2> SUFFICES ASSUME Alone
               PROVE  /\ \A c \in adopted' : Entered(ledger', c)
                      /\ TextsAreEntered(target', ledger')
                      /\ LoneOf(scene.kind, pc'[a], cand'[a], draft'[a], prepared'[cand'[a]], ledger', adopted')
    BY <1>2 DEF LoneAfter
  <2>1. ledger = None
    BY <1>1, <1>2, Now DEF LoneOf
  <2>2. \A c : ~Entered(ledger, c)
    BY <2>1 DEF Entered
  <2> QED BY <1>1, <1>2, <2>2, Now DEF LoneOf, TextsAreEntered, Installing
<1>9. WholeAfter(a)
  BY <1>2 DEF WholeAfter
<1> QED BY <1>2, <1>3, <1>4, <1>5, <1>6, <1>7, <1>8, <1>9, StepOf

\* The draft is the ledger with the decision.
LEMMA LoadLedgerHolds ==
  ASSUME AdoptionAssumption, IInv, NEW a \in Adopters, LoadLedger(a)
  PROVE  IInv'
<1>1. /\ pc[a] = "authorized" /\ pc'[a] = "entering"
      /\ UNCHANGED <<cand, kept, ledger, adopted, target>> /\ ledger \in Ledgers
      /\ draft'[a] = Enter(ledger, cand[a]) /\ Enterable(ledger, cand[a])
  BY DEF LoadLedger, Goto, IInv, Typed, TypeOK, AssetOf
<1>2. /\ scene.kind = "skill" /\ cand'[a] \in scene.assigned[a]
      /\ cand'[a] \in Candidates /\ scene.targetOf[cand'[a]] \in Assets
  BY <1>1, Now, SceneIs DEF LoadLedger, IInv, Typed, Undoing
<1>3. Only(a)
  BY <1>1, <1>2 DEF Only, LoadLedger, Goto, IInv, Typed, TypeOK, AssetOf
<1>4. Typed'
  BY <1>1, <1>2, SceneIs, EnterIs DEF LoadLedger, Goto, IInv, Typed, TypeOK, Steps, Events
<1>5. PlaceOf(scene.kind, pc'[a], cand'[a], scene.assigned[a])
  BY <1>1, <1>2 DEF PlaceOf, SkillSteps, PolicySteps, Steps
<1>6. SourceAfter(a)
  BY <1>2 DEF SourceAfter
<1>7. FileAfter(a)
  BY <1>1, <1>2, Now DEF FileAfter, FileOf
<1>8. LoneAfter(a)
  BY <1>1, <1>2, Now, EnterIs DEF LoneAfter, LoneOf, Installing
<1>9. WholeAfter(a)
  BY <1>2 DEF WholeAfter
<1> QED BY <1>2, <1>3, <1>4, <1>5, <1>6, <1>7, <1>8, <1>9, StepOf

\* Nothing is changed.
LEMMA RefuseEntryHolds ==
  ASSUME AdoptionAssumption, IInv, NEW a \in Adopters, RefuseEntry(a)
  PROVE  IInv'
<1>1. /\ pc[a] = "authorized" /\ pc'[a] = "idle"
      /\ UNCHANGED <<cand, kept, ledger, adopted, target, draft>>
  BY DEF RefuseEntry, Goto, IInv, Typed, TypeOK, AssetOf
<1>2. /\ scene.kind = "skill" /\ cand'[a] \in scene.assigned[a]
      /\ cand'[a] \in Candidates /\ scene.targetOf[cand'[a]] \in Assets
  BY <1>1, Now, SceneIs DEF RefuseEntry, IInv, Typed, Undoing
<1>3. Only(a)
  BY <1>1, <1>2 DEF Only, RefuseEntry, Goto, IInv, Typed, TypeOK, AssetOf
<1>4. Typed'
  BY <1>1, <1>2, SceneIs DEF RefuseEntry, Goto, IInv, Typed, TypeOK, Steps, Events
<1>5. PlaceOf(scene.kind, pc'[a], cand'[a], scene.assigned[a])
  BY <1>1, <1>2 DEF PlaceOf, SkillSteps, PolicySteps, Steps
<1>6. SourceAfter(a)
  BY <1>2 DEF SourceAfter
<1>7. FileAfter(a)
  BY <1>1, <1>2, Now DEF FileAfter, FileOf
<1>8. LoneAfter(a)
  BY <1>1, <1>2, Now DEF LoneAfter, LoneOf, Installing
<1>9. WholeAfter(a)
  BY <1>2 DEF WholeAfter
<1> QED BY <1>2, <1>3, <1>4, <1>5, <1>6, <1>7, <1>8, <1>9, StepOf

\* The draft becomes the ledger.
LEMMA EnterDecisionHolds ==
  ASSUME AdoptionAssumption, IInv, NEW a \in Adopters, EnterDecision(a)
  PROVE  IInv'
<1>1. /\ pc[a] = "entering" /\ pc'[a] = "installing"
      /\ UNCHANGED <<cand, kept, adopted, target>> /\ ledger' = draft[a]
  BY DEF EnterDecision, Goto, IInv, Typed, TypeOK, AssetOf
<1>2. /\ scene.kind = "skill" /\ cand'[a] \in scene.assigned[a]
      /\ cand'[a] \in Candidates /\ scene.targetOf[cand'[a]] \in Assets
  BY <1>1, Now, SceneIs DEF EnterDecision, IInv, Typed, Undoing
<1>3. Only(a)
  BY <1>1, <1>2 DEF Only, EnterDecision, Goto, IInv, Typed, TypeOK, AssetOf
<1>4. Typed'
  BY <1>1, <1>2, SceneIs, EmptyIs DEF EnterDecision, Goto, IInv, Typed, TypeOK, Steps, Events
<1>5. PlaceOf(scene.kind, pc'[a], cand'[a], scene.assigned[a])
  BY <1>1, <1>2 DEF PlaceOf, SkillSteps, PolicySteps, Steps
<1>6. SourceAfter(a)
  BY <1>2 DEF SourceAfter
<1>7. FileAfter(a)
  BY <1>1, <1>2, Now DEF FileAfter, FileOf
<1>8. LoneAfter(a)
  <2> SUFFICES ASSUME Alone
               PROVE  /\ \A c \in adopted' : Entered(ledger', c)
                      /\ TextsAreEntered(target', ledger')
                      /\ LoneOf(scene.kind, pc'[a], cand'[a], draft'[a], prepared'[cand'[a]], ledger', adopted')
    BY <1>2 DEF LoneAfter
  <2>1. Entered(ledger', cand[a]) /\ \A c \in Candidates : Entered(ledger, c) => Entered(ledger', c)
    BY <1>1, <1>2, Now DEF LoneOf
  <2>2. adopted \subseteq Candidates
    BY DEF IInv, Typed, TypeOK
  <2> QED BY <1>1, <1>2, <2>1, <2>2, Now DEF LoneOf, TextsAreEntered, Installing
<1>9. WholeAfter(a)
  BY <1>2 DEF WholeAfter
<1> QED BY <1>2, <1>3, <1>4, <1>5, <1>6, <1>7, <1>8, <1>9, StepOf

\* The prepared ledger is a copy.
LEMMA PrepareHolds ==
  ASSUME AdoptionAssumption, IInv, NEW a \in Adopters, Prepare(a)
  PROVE  IInv'
<1>1. /\ pc[a] = "authorized" /\ pc'[a] = "prepared"
      /\ UNCHANGED <<cand, kept, ledger, adopted, target, tmp, spent>>
  BY DEF Prepare, Goto, IInv, Typed, TypeOK, AssetOf
<1>2. /\ scene.kind = "policy" /\ cand'[a] \in scene.assigned[a]
      /\ cand'[a] \in Candidates /\ scene.targetOf[cand'[a]] \in Assets
  BY <1>1, Now, SceneIs DEF Prepare, IInv, Typed, Undoing
<1>3. Only(a)
  BY <1>1, <1>2 DEF Only, Prepare, Goto, IInv, Typed, TypeOK, AssetOf
<1>4. prepared'[cand[a]] \in Ledgers /\ prepared'[cand[a]] # None
      /\ \A c \in Candidates : Entered(ledger, c) <=> Entered(prepared'[cand[a]], c)
  BY <1>1, <1>2, SceneIs, EmptyIs DEF Prepare, IInv, Typed, TypeOK, Entered
<1>5. Typed'
  BY <1>1, <1>2, SceneIs, EmptyIs DEF Prepare, Goto, IInv, Typed, TypeOK, Steps, Events
<1>6. PlaceOf(scene.kind, pc'[a], cand'[a], scene.assigned[a])
  BY <1>1, <1>2 DEF PlaceOf, SkillSteps, PolicySteps, Steps
<1>7. SourceAfter(a)
  BY <1>1, <1>2, <1>4, Now DEF SourceAfter, SourceOf, Installing
<1>8. FileAfter(a)
  BY <1>1, <1>2, Now DEF FileAfter, FileOf
<1>9. LoneAfter(a)
  BY <1>1, <1>2, <1>4, Now DEF LoneAfter, LoneOf, Installing
<1>10. WholeAfter(a)
  BY <1>1, <1>2, Now, WholeNow DEF WholeAfter, KeptOf, Installing, Undoing
<1> QED BY <1>2, <1>3, <1>5, <1>6, <1>7, <1>8, <1>9, <1>10, StepOf

\* The decision is added to the copy.
LEMMA EnterPreparedHolds ==
  ASSUME AdoptionAssumption, IInv, NEW a \in Adopters, EnterPrepared(a)
  PROVE  IInv'
<1>1. /\ pc[a] = "prepared" /\ UNCHANGED <<cand, kept, ledger, adopted, target, tmp, spent>>
      /\ \/ /\ Enterable(prepared[cand[a]], cand[a]) /\ pc'[a] = "entered"
            /\ prepared' = [prepared EXCEPT ![cand[a]] = Enter(prepared[cand[a]], cand[a])]
         \/ pc'[a] = "idle" /\ prepared' = prepared
  BY DEF EnterPrepared, Goto, IInv, Typed, TypeOK, AssetOf
<1>2. /\ scene.kind = "policy" /\ cand'[a] \in scene.assigned[a]
      /\ cand'[a] \in Candidates /\ scene.targetOf[cand'[a]] \in Assets
  BY <1>1, Now, SceneIs DEF EnterPrepared, IInv, Typed, Undoing
<1>3. Only(a)
  BY <1>1, <1>2 DEF Only, EnterPrepared, Goto, IInv, Typed, TypeOK, AssetOf
<1>4. /\ prepared[cand[a]] \in Ledgers
      /\ pc'[a] = "entered" =>
           /\ prepared'[cand[a]] = Enter(prepared[cand[a]], cand[a]) /\ ~Entered(prepared[cand[a]], cand[a])
           /\ prepared'[cand[a]] \in Ledgers /\ prepared'[cand[a]] # None
           /\ \A c \in Candidates :
                Entered(prepared'[cand[a]], c) <=> c = cand[a] \/ Entered(prepared[cand[a]], c)
  <2>1. prepared[cand[a]] \in Ledgers
    BY <1>1, <1>2, Now DEF SourceOf, IInv, Typed, TypeOK
  <2> QED BY <1>1, <1>2, <2>1, EnterIs DEF IInv, Typed, TypeOK
<1>5. Typed'
  BY <1>1, <1>2, <1>4, SceneIs DEF EnterPrepared, Goto, IInv, Typed, TypeOK, Steps, Events
<1>6. PlaceOf(scene.kind, pc'[a], cand'[a], scene.assigned[a])
  BY <1>1, <1>2 DEF PlaceOf, SkillSteps, PolicySteps, Steps
<1>7. SourceAfter(a)
  BY <1>1, <1>2, <1>4, Now DEF SourceAfter, SourceOf, Installing
<1>8. FileAfter(a)
  BY <1>1, <1>2, Now DEF FileAfter, FileOf
<1>9. LoneAfter(a)
  BY <1>1, <1>2, <1>4, Now DEF LoneAfter, LoneOf, Installing
<1>10. WholeAfter(a)
  BY <1>1, <1>2, Now, WholeNow DEF WholeAfter, KeptOf, Installing, Undoing
<1> QED BY <1>2, <1>3, <1>5, <1>6, <1>7, <1>8, <1>9, <1>10, StepOf

\* What is kept is in place.
LEMMA KeepBaselineHolds ==
  ASSUME AdoptionAssumption, IInv, NEW a \in Adopters, KeepBaseline(a)
  PROVE  IInv'
<1>1. /\ pc[a] = "entered" /\ pc'[a] = "installing"
      /\ UNCHANGED <<cand, prepared, ledger, adopted, target, tmp, spent>>
      /\ kept'[a] = target[scene.targetOf[cand[a]]]
  BY DEF KeepBaseline, Goto, IInv, Typed, TypeOK, AssetOf
<1>2. /\ scene.kind = "policy" /\ cand'[a] \in scene.assigned[a]
      /\ cand'[a] \in Candidates /\ scene.targetOf[cand'[a]] \in Assets
  BY <1>1, Now, SceneIs DEF KeepBaseline, IInv, Typed, Undoing
<1>3. Only(a)
  BY <1>1, <1>2 DEF Only, KeepBaseline, Goto, IInv, Typed, TypeOK, AssetOf
<1>4. Typed'
  BY <1>1, <1>2, SceneIs DEF KeepBaseline, Goto, IInv, Typed, TypeOK, Steps, Events
<1>5. PlaceOf(scene.kind, pc'[a], cand'[a], scene.assigned[a])
  BY <1>1, <1>2 DEF PlaceOf, SkillSteps, PolicySteps, Steps
<1>6. SourceAfter(a)
  BY <1>1, <1>2, Now DEF SourceAfter, SourceOf, Installing
<1>7. FileAfter(a)
  BY <1>1, <1>2, Now DEF FileAfter, FileOf
<1>8. LoneAfter(a)
  BY <1>1, <1>2, Now DEF LoneAfter, LoneOf, Installing
<1>9. WholeAfter(a)
  BY <1>1, <1>2, Now, WholeNow DEF WholeAfter, KeptOf, Installing, Undoing
<1> QED BY <1>2, <1>3, <1>4, <1>5, <1>6, <1>7, <1>8, <1>9, StepOf

\* The prepared ledger has the entries of the one it replaces.
LEMMA ReplaceLedgerHolds ==
  ASSUME AdoptionAssumption, IInv, NEW a \in Adopters, ReplaceLedger(a)
  PROVE  IInv'
<1>1. /\ pc[a] = "installed" /\ pc'[a] = "idle"
      /\ UNCHANGED <<cand, kept, target, tmp, spent>>
      /\ ledger' = prepared[cand[a]] /\ adopted' = adopted \cup {cand[a]}
  BY DEF ReplaceLedger, Goto, IInv, Typed, TypeOK, AssetOf
<1>2. /\ scene.kind = "policy" /\ cand'[a] \in scene.assigned[a]
      /\ cand'[a] \in Candidates /\ scene.targetOf[cand'[a]] \in Assets
  BY <1>1, Now, SceneIs DEF ReplaceLedger, IInv, Typed, Undoing
<1>3. Only(a)
  BY <1>1, <1>2 DEF Only, ReplaceLedger, Goto, IInv, Typed, TypeOK, AssetOf
<1>4. /\ adopted \subseteq Candidates
      /\ Alone => /\ Entered(ledger', cand[a])
                  /\ \A c \in Candidates : Entered(ledger, c) => Entered(ledger', c)
  BY <1>1, <1>2, Now DEF LoneOf, Installing, IInv, Typed, TypeOK
<1>5. Typed'
  BY <1>1, <1>2, SceneIs DEF ReplaceLedger, Goto, IInv, Typed, TypeOK, Steps, Events
<1>6. PlaceOf(scene.kind, pc'[a], cand'[a], scene.assigned[a])
  BY <1>1, <1>2 DEF PlaceOf, SkillSteps, PolicySteps, Steps
<1>7. SourceAfter(a)
  BY <1>1, <1>2, Now DEF SourceAfter, SourceOf, Installing
<1>8. FileAfter(a)
  BY <1>1, <1>2, Now DEF FileAfter, FileOf
<1>9. LoneAfter(a)
  BY <1>1, <1>2, <1>4, Now DEF LoneAfter, LoneOf, Installing
<1>10. WholeAfter(a)
  <2> SUFFICES ASSUME Alone, spent.crashes = 0, spent.faults <= 1
               PROVE  /\ \A s \in Assets : target[s] \in Candidates => Entered(ledger', target[s])
                      /\ KeptOf("idle", kept[a], ledger', spent.faults)
    BY <1>1 DEF WholeAfter
  <2>1. \A s \in Assets : \/ target[s] \in Candidates => Entered(ledger, target[s])
                          \/ target[s] = cand[a]
    BY <1>1, <1>2, Now, WholeNow DEF FileOf, Undoing
  <2> QED BY <1>4, <2>1 DEF KeptOf, Installing, Undoing
<1> QED BY <1>2, <1>3, <1>5, <1>6, <1>7, <1>8, <1>9, <1>10, StepOf

\* The kept text is written beside the asset.
LEMMA RollbackTmpHolds ==
  ASSUME AdoptionAssumption, IInv, NEW a \in Adopters, RollbackTmp(a)
  PROVE  IInv'
<1>1. /\ pc[a] = "rolling" /\ pc'[a] = "rolled"
      /\ UNCHANGED <<cand, kept, prepared, ledger, adopted, target, spent>>
  BY DEF RollbackTmp, Goto, IInv, Typed, TypeOK, AssetOf
<1>2. /\ scene.kind = "policy" /\ cand'[a] \in scene.assigned[a]
      /\ cand'[a] \in Candidates /\ scene.targetOf[cand'[a]] \in Assets
  BY <1>1, Now, SceneIs DEF RollbackTmp, IInv, Typed, Undoing
<1>3. Only(a)
  BY <1>1, <1>2 DEF Only, RollbackTmp, Goto, IInv, Typed, TypeOK, AssetOf
<1>4. tmp'[scene.targetOf[cand[a]]] = kept[a]
  BY <1>1, <1>2 DEF RollbackTmp, AssetOf, IInv, Typed, TypeOK
<1>5. Typed'
  BY <1>1, <1>2, SceneIs DEF RollbackTmp, Goto, IInv, Typed, TypeOK, Steps, Events
<1>6. PlaceOf(scene.kind, pc'[a], cand'[a], scene.assigned[a])
  BY <1>1, <1>2 DEF PlaceOf, SkillSteps, PolicySteps, Steps
<1>7. SourceAfter(a)
  BY <1>1, <1>2, Now DEF SourceAfter, SourceOf, Installing
<1>8. FileAfter(a)
  BY <1>1, <1>2, <1>4, Now DEF FileAfter, FileOf
<1>9. LoneAfter(a)
  BY <1>1, <1>2, Now DEF LoneAfter, LoneOf, Installing
<1>10. WholeAfter(a)
  BY <1>1, <1>2, Now, WholeNow DEF WholeAfter, KeptOf, Installing, Undoing
<1> QED BY <1>2, <1>3, <1>5, <1>6, <1>7, <1>8, <1>9, <1>10, StepOf

\* The kept text is put back.
LEMMA RollbackTargetHolds ==
  ASSUME AdoptionAssumption, IInv, NEW a \in Adopters, RollbackTarget(a)
  PROVE  IInv'
<1>1. /\ pc[a] = "rolled" /\ pc'[a] = "idle"
      /\ UNCHANGED <<cand, kept, prepared, ledger, adopted, spent>>
  BY DEF RollbackTarget, Goto, IInv, Typed, TypeOK, AssetOf
<1>2. /\ scene.kind = "policy" /\ cand'[a] \in scene.assigned[a]
      /\ cand'[a] \in Candidates /\ scene.targetOf[cand'[a]] \in Assets
  BY <1>1, Now, SceneIs DEF RollbackTarget, IInv, Typed, Undoing
<1>3. Only(a)
  BY <1>1, <1>2 DEF Only, RollbackTarget, Goto, IInv, Typed, TypeOK, AssetOf
<1>4. Typed'
  BY <1>1, <1>2, SceneIs DEF RollbackTarget, Goto, IInv, Typed, TypeOK, Steps, Events
<1>5. PlaceOf(scene.kind, pc'[a], cand'[a], scene.assigned[a])
  BY <1>1, <1>2 DEF PlaceOf, SkillSteps, PolicySteps, Steps
<1>6. SourceAfter(a)
  BY <1>1, <1>2, Now DEF SourceAfter, SourceOf, Installing
<1>7. FileAfter(a)
  BY <1>1, <1>2, Now DEF FileAfter, FileOf
<1>8. LoneAfter(a)
  BY <1>1, <1>2, Now DEF LoneAfter, LoneOf, Installing
<1>9. WholeAfter(a)
  <2> SUFFICES ASSUME Alone, spent.crashes = 0, spent.faults <= 1
               PROVE  /\ \A s \in Assets : target'[s] \in Candidates => Entered(ledger, target'[s])
                      /\ KeptOf("idle", kept[a], ledger, spent.faults)
    BY <1>1 DEF WholeAfter
  <2> DEFINE x == scene.targetOf[cand[a]]
  <2>1. tmp[x] = kept[a] /\ (kept[a] \in Candidates => Entered(ledger, kept[a]))
    BY <1>1, <1>2, Now DEF FileOf, KeptOf, Undoing
  <2>2. target' = [target EXCEPT ![x] = kept[a]]
    BY <2>1 DEF RollbackTarget, AssetOf
  <2>3. \A s \in Assets \ {x} : target[s] \in Candidates => Entered(ledger, target[s])
    BY <1>1, <1>2, WholeNow
  <2> QED BY <2>1, <2>2, <2>3 DEF KeptOf, Installing, Undoing, IInv, Typed, TypeOK
<1> QED BY <1>2, <1>3, <1>4, <1>5, <1>6, <1>7, <1>8, <1>9, StepOf

\* That is a second failure.
LEMMA FailRollbackHolds ==
  ASSUME AdoptionAssumption, IInv, NEW a \in Adopters, FailRollback(a)
  PROVE  IInv'
<1>1. /\ pc[a] \in Undoing /\ pc'[a] = "idle"
      /\ UNCHANGED <<cand, kept, prepared, ledger, adopted, target, tmp>>
  BY DEF FailRollback, Goto, Fault, Undoing, IInv, Typed, TypeOK, AssetOf
<1>2. /\ scene.kind = "policy" /\ cand'[a] \in scene.assigned[a]
      /\ cand'[a] \in Candidates /\ scene.targetOf[cand'[a]] \in Assets
  BY <1>1, Now, SceneIs DEF FailRollback, IInv, Typed, Undoing
<1>3. Only(a)
  BY <1>1, <1>2 DEF Only, FailRollback, Goto, Fault, Undoing, IInv, Typed, TypeOK, AssetOf
<1>4. Typed'
  BY <1>1, <1>2, SceneIs DEF FailRollback, Goto, Fault, Undoing, IInv, Typed, TypeOK, Steps, Events
<1>5. PlaceOf(scene.kind, pc'[a], cand'[a], scene.assigned[a])
  BY <1>1, <1>2 DEF PlaceOf, SkillSteps, PolicySteps, Steps
<1>6. SourceAfter(a)
  BY <1>1, <1>2, Now DEF SourceAfter, SourceOf, Installing
<1>7. FileAfter(a)
  BY <1>1, <1>2, Now DEF FileAfter, FileOf
<1>8. LoneAfter(a)
  BY <1>1, <1>2, Now DEF LoneAfter, LoneOf, Installing
<1>9. WholeAfter(a)
  <2> SUFFICES ASSUME Alone, spent'.crashes = 0, spent'.faults <= 1 PROVE FALSE
    BY DEF WholeAfter
  <2>1. CASE Fault
    <3>1. spent.crashes = 0 /\ spent'.faults = spent.faults + 1 /\ spent.faults \in Nat
      BY <2>1 DEF Fault, IInv, Typed, Events
    <3>2. KeptOf(pc[a], kept[a], ledger, spent.faults)
      BY <1>2, <3>1, Now
    <3> QED BY <1>1, <3>1, <3>2 DEF KeptOf
  <2>2. CASE pc[a] = "rolled" /\ tmp[scene.targetOf[cand[a]]] = None
    <3>1. kept[a] = None
      BY <1>1, <1>2, <2>2, Now DEF FileOf
    <3>2. kept[a] \in Texts
      BY <1>2, <2>2 DEF IInv, Typed, TypeOK
    <3> QED BY <3>1, <3>2, SceneIs DEF IInv, Typed
  <2> QED BY <2>1, <2>2 DEF FailRollback, AssetOf
<1> QED BY <1>2, <1>3, <1>4, <1>5, <1>6, <1>7, <1>8, <1>9, StepOf

\* The candidate is written beside the asset.
LEMMA WriteTmpHolds ==
  ASSUME AdoptionAssumption, IInv, NEW a \in Adopters, WriteTmp(a)
  PROVE  IInv'
<1>1. /\ pc[a] = "installing" /\ pc'[a] = "replacing"
      /\ UNCHANGED <<cand, kept, prepared, ledger, adopted, target, spent, draft>>
  BY DEF WriteTmp, Goto, IInv, Typed, TypeOK, AssetOf
<1>2. /\ scene.kind \in {"skill", "policy"} /\ cand'[a] \in scene.assigned[a]
      /\ cand'[a] \in Candidates /\ scene.targetOf[cand'[a]] \in Assets
  BY <1>1, Now, SceneIs DEF WriteTmp, IInv, Typed, Undoing
<1>3. Only(a)
  BY <1>1, <1>2 DEF Only, WriteTmp, Goto, IInv, Typed, TypeOK, AssetOf
<1>4. tmp' = [tmp EXCEPT ![scene.targetOf[cand[a]]] = cand[a]] /\ cand[a] \in Texts
  BY <1>1, <1>2 DEF WriteTmp, AssetOf, Texts
<1>5. Typed'
  BY <1>1, <1>2, <1>4, SceneIs DEF WriteTmp, Goto, IInv, Typed, TypeOK, Steps, Events
<1>6. PlaceOf(scene.kind, pc'[a], cand'[a], scene.assigned[a])
  BY <1>1, <1>2 DEF PlaceOf, SkillSteps, PolicySteps, Steps
<1>7. SourceAfter(a)
  BY <1>1, <1>2, Now DEF SourceAfter, SourceOf, Installing
<1>8. FileAfter(a)
  BY <1>1, <1>2, <1>4, Now DEF FileAfter, FileOf, IInv, Typed, TypeOK
<1>9. LoneAfter(a)
  BY <1>1, <1>2, Now DEF LoneAfter, LoneOf, Installing
<1>10. WholeAfter(a)
  BY <1>1, <1>2, Now, WholeNow DEF WholeAfter, KeptOf, Installing, Undoing
<1> QED BY <1>2, <1>3, <1>5, <1>6, <1>7, <1>8, <1>9, <1>10, StepOf

\* What is beside the asset is put in its place.
LEMMA ReplaceTargetHolds ==
  ASSUME AdoptionAssumption, IInv, NEW a \in Adopters, ReplaceTarget(a)
  PROVE  IInv'
<1>1. /\ pc[a] = "replacing" /\ pc'[a] = IF scene.kind = "skill" THEN "idle" ELSE "installed"
      /\ UNCHANGED <<cand, kept, prepared, ledger, spent, draft>>
  BY DEF ReplaceTarget, Goto, IInv, Typed, TypeOK, AssetOf
<1>2. /\ scene.kind \in {"skill", "policy"} /\ cand'[a] \in scene.assigned[a]
      /\ cand'[a] \in Candidates /\ scene.targetOf[cand'[a]] \in Assets
  BY <1>1, Now, SceneIs DEF ReplaceTarget, IInv, Typed, Undoing
<1>3. Only(a)
  BY <1>1, <1>2 DEF Only, ReplaceTarget, Goto, IInv, Typed, TypeOK, AssetOf
<1>4. /\ target' = [target EXCEPT ![scene.targetOf[cand[a]]] = tmp[scene.targetOf[cand[a]]]]
      /\ adopted' = IF scene.kind = "skill" THEN adopted \cup {cand[a]} ELSE adopted
      /\ Apart => target' = [target EXCEPT ![scene.targetOf[cand[a]]] = cand[a]]
  BY <1>1, <1>2, Now DEF ReplaceTarget, AssetOf, FileOf
<1>5. Typed'
  BY <1>1, <1>2, SceneIs DEF ReplaceTarget, Goto, IInv, Typed, TypeOK, Steps, Events
<1>6. PlaceOf(scene.kind, pc'[a], cand'[a], scene.assigned[a])
  BY <1>1, <1>2 DEF PlaceOf, SkillSteps, PolicySteps, Steps
<1>7. SourceAfter(a)
  BY <1>1, <1>2, <1>4, Now DEF SourceAfter, SourceOf, Installing
<1>8. FileAfter(a)
  BY <1>1, <1>2, <1>4, Now DEF FileAfter, FileOf, IInv, Typed, TypeOK
<1>9. LoneAfter(a)
  <2> SUFFICES ASSUME Alone
               PROVE  /\ \A c \in adopted' : Entered(ledger, c)
                      /\ scene.kind = "skill" => TextsAreEntered(target', ledger)
                      /\ LoneOf(scene.kind, pc'[a], cand[a], draft[a], prepared[cand[a]], ledger, adopted')
    BY <1>1 DEF LoneAfter
  <2>1. target' = [target EXCEPT ![scene.targetOf[cand[a]]] = cand[a]]
    BY <1>2, <1>4, Now
  <2>2. scene.kind = "skill" => Entered(ledger, cand[a])
    BY <1>1, <1>2, Now DEF LoneOf, Installing
  <2>3. scene.kind = "skill" => TextsAreEntered(target', ledger)
    BY <1>2, <2>1, <2>2, Now DEF TextsAreEntered, IInv, Typed, TypeOK
  <2>4. \A c \in adopted' : Entered(ledger, c)
    BY <1>2, <1>4, <2>2, Now
  <2>5. LoneOf(scene.kind, pc'[a], cand[a], draft[a], prepared[cand[a]], ledger, adopted')
    BY <1>1, <1>2, <1>4, Now DEF LoneOf, Installing
  <2> QED BY <2>3, <2>4, <2>5
<1>10. WholeAfter(a)
  <2> SUFFICES ASSUME scene.kind = "policy", Alone, spent.crashes = 0, spent.faults <= 1
               PROVE  /\ \A s \in Assets :
                           \/ target'[s] \in Candidates => Entered(ledger, target'[s])
                           \/ s = scene.targetOf[cand[a]]
                      /\ KeptOf("installed", kept[a], ledger, spent.faults)
    BY <1>1 DEF WholeAfter
  <2>1. \A s \in Assets \ {scene.targetOf[cand[a]]} :
           target[s] \in Candidates => Entered(ledger, target[s])
    BY <1>2, WholeNow
  <2>2. KeptOf(pc[a], kept[a], ledger, spent.faults)
    BY <1>2, Now
  <2> QED BY <1>1, <1>4, <2>1, <2>2 DEF KeptOf, Installing, Undoing, IInv, Typed, TypeOK
<1> QED BY <1>2, <1>3, <1>5, <1>6, <1>7, <1>8, <1>9, <1>10, StepOf

\* An operation fails.
LEMMA FailInstallHolds ==
  ASSUME AdoptionAssumption, IInv, NEW a \in Adopters, FailInstall(a)
  PROVE  IInv'
<1>1. /\ pc[a] \in Installing /\ pc'[a] = IF scene.kind = "policy" THEN "rolling" ELSE "idle"
      /\ UNCHANGED <<cand, kept, prepared, ledger, adopted, target, tmp, draft>>
  BY DEF FailInstall, Goto, Fault, Failure, Installing, IInv, Typed, TypeOK, AssetOf
<1>2. /\ scene.kind \in {"skill", "policy"} /\ cand'[a] \in scene.assigned[a]
      /\ cand'[a] \in Candidates /\ scene.targetOf[cand'[a]] \in Assets
  BY <1>1, Now, SceneIs DEF FailInstall, IInv, Typed, Undoing
<1>3. Only(a)
  BY <1>1, <1>2 DEF Only, FailInstall, Goto, Fault, Failure, Installing, IInv, Typed, TypeOK, AssetOf
<1>4. Typed'
  BY <1>1, <1>2, SceneIs DEF FailInstall, Goto, Fault, Failure, Installing, IInv, Typed, TypeOK, Steps, Events
<1>5. PlaceOf(scene.kind, pc'[a], cand'[a], scene.assigned[a])
  BY <1>1, <1>2 DEF PlaceOf, SkillSteps, PolicySteps, Steps
<1>6. SourceAfter(a)
  BY <1>1, <1>2, Now DEF SourceAfter, SourceOf, Installing
<1>7. FileAfter(a)
  BY <1>1, <1>2, Now DEF FileAfter, FileOf
<1>8. LoneAfter(a)
  BY <1>1, <1>2, Now DEF LoneAfter, LoneOf, Installing
<1>9. WholeAfter(a)
  <2> SUFFICES ASSUME scene.kind = "policy", Alone, spent'.crashes = 0, spent'.faults <= 1
               PROVE  /\ \A s \in Assets :
                           \/ target[s] \in Candidates => Entered(ledger, target[s])
                           \/ s = scene.targetOf[cand[a]]
                      /\ KeptOf("rolling", kept[a], ledger, spent'.faults)
    BY <1>1 DEF WholeAfter, Undoing
  <2>1. ~(pc[a] = "replacing" /\ tmp[scene.targetOf[cand[a]]] = None)
    BY <1>1, <1>2, Now, SceneIs DEF FileOf, IInv, Typed, Texts
  <2>2. Fault
    BY <2>1 DEF FailInstall, AssetOf
  <2>3. spent.crashes = 0 /\ spent.faults = 0 /\ spent'.faults = 1
    BY <2>2 DEF Fault, IInv, Typed, Events
  <2>4. \A s \in Assets : \/ target[s] \in Candidates => Entered(ledger, target[s])
                          \/ s = scene.targetOf[cand[a]]
    BY <1>1, <1>2, <2>3, WholeNow
  <2>5. KeptOf(pc[a], kept[a], ledger, spent.faults)
    BY <1>2, <2>3, Now
  <2> QED BY <1>1, <2>3, <2>4, <2>5 DEF KeptOf, Undoing
<1> QED BY <1>2, <1>3, <1>4, <1>5, <1>6, <1>7, <1>8, <1>9, StepOf

\* The adopter dies.
LEMMA CrashHolds ==
  ASSUME AdoptionAssumption, IInv, NEW a \in Adopters, Crash(a)
  PROVE  IInv'
<1>1. /\ pc[a] # "idle" /\ pc'[a] = "idle"
      /\ UNCHANGED <<cand, kept, prepared, ledger, adopted, target, tmp>>
  BY DEF Crash, Goto, IInv, Typed, TypeOK, AssetOf
<1>2. /\ scene.kind \in {"skill", "policy"} /\ cand'[a] \in scene.assigned[a]
      /\ cand'[a] \in Candidates /\ scene.targetOf[cand'[a]] \in Assets
  BY <1>1, Now, SceneIs DEF Crash, IInv, Typed, Undoing
<1>3. Only(a)
  BY <1>1, <1>2 DEF Only, Crash, Goto, IInv, Typed, TypeOK, AssetOf
<1>4. Typed'
  BY <1>1, <1>2, SceneIs, EmptyIs DEF Crash, Goto, IInv, Typed, TypeOK, Steps, Events
<1>5. PlaceOf(scene.kind, pc'[a], cand'[a], scene.assigned[a])
  BY <1>1, <1>2 DEF PlaceOf, SkillSteps, PolicySteps, Steps
<1>6. SourceAfter(a)
  BY <1>1, <1>2, Now DEF SourceAfter, SourceOf, Installing
<1>7. FileAfter(a)
  BY <1>1, <1>2, Now DEF FileAfter, FileOf
<1>8. LoneAfter(a)
  BY <1>1, <1>2, Now DEF LoneAfter, LoneOf, Installing
<1>9. WholeAfter(a)
  <2>1. spent'.crashes = spent.crashes + 1 /\ spent.crashes \in Nat
    BY DEF Crash, IInv, Typed, Events
  <2> QED BY <2>1 DEF WholeAfter
<1> QED BY <1>2, <1>3, <1>4, <1>5, <1>6, <1>7, <1>8, <1>9, StepOf

\* An adoption begins.
LEMMA AuthorizeHolds ==
  ASSUME AdoptionAssumption, IInv, NEW a \in Adopters, NEW c \in Candidates, Authorize(a, c)
  PROVE  IInv'
<1>1. /\ pc[a] = "idle" /\ pc'[a] = "authorized"
      /\ cand'[a] = c /\ c \in scene.assigned[a]
      /\ UNCHANGED <<kept, prepared, ledger, adopted, target, tmp, draft>>
  BY DEF Authorize, Goto, IInv, Typed, TypeOK, AssetOf
<1>2. /\ scene.kind \in {"skill", "policy"} /\ cand'[a] \in scene.assigned[a]
      /\ cand'[a] \in Candidates /\ scene.targetOf[cand'[a]] \in Assets
  BY <1>1, Now, SceneIs DEF Authorize, IInv, Typed, Undoing
<1>3. Only(a)
  BY <1>1, <1>2 DEF Only, Authorize, Goto, IInv, Typed, TypeOK, AssetOf
<1>4. Typed'
  BY <1>1, <1>2, SceneIs DEF Authorize, Goto, IInv, Typed, TypeOK, Steps, Events
<1>5. PlaceOf(scene.kind, pc'[a], cand'[a], scene.assigned[a])
  BY <1>1, <1>2 DEF PlaceOf, SkillSteps, PolicySteps, Steps
<1>6. SourceAfter(a)
  BY <1>1, <1>2, Now DEF SourceAfter, SourceOf, Installing
<1>7. FileAfter(a)
  BY <1>1, <1>2, Now DEF FileAfter, FileOf
<1>8. LoneAfter(a)
  BY <1>1, <1>2, Now DEF LoneAfter, LoneOf, Installing
<1>9. WholeAfter(a)
  <2>1. spent'.crashes = spent.crashes /\ spent'.faults = spent.faults
    BY DEF Authorize, IInv, Typed, Events
  <2> QED BY <1>1, <1>2, <2>1, Now, WholeNow DEF WholeAfter, KeptOf, Installing, Undoing
<1> QED BY <1>2, <1>3, <1>4, <1>5, <1>6, <1>7, <1>8, <1>9, StepOf

\* The user edits an asset while nobody adopts.
LEMMA UserEditHolds ==
  ASSUME AdoptionAssumption, IInv, NEW s \in Assets, NEW text \in Originals, UserEdit(s, text)
  PROVE  IInv'
<1>1. /\ \A a \in Adopters : pc'[a] = "idle" /\ cand'[a] = cand[a]
      /\ scene' = scene /\ ledger' = ledger /\ adopted' = adopted
      /\ spent'.crashes = spent.crashes /\ spent'.faults = spent.faults
      /\ \A x \in Assets : target'[x] = target[x] \/ target'[x] \in Originals
  BY DEF UserEdit, IInv, Typed, TypeOK, Events
<1>2. (Alone' <=> Alone) /\ (Apart' <=> Apart)
  BY <1>1 DEF Alone, Apart
<1>3. Typed'
  BY <1>1, SceneIs DEF UserEdit, IInv, Typed, TypeOK, Steps, Events, Texts
<1>4. Placed' /\ Sources'
  BY <1>1 DEF IInv, Placed, Sources, PlaceOf, SourceOf, SkillSteps, PolicySteps, Steps, Installing
<1>5. Files'
  BY <1>1 DEF Files, FileOf
<1>6. \A x \in Assets : (target[x] \in Candidates => Entered(ledger, target[x])) =>
                          (target'[x] \in Candidates => Entered(ledger, target'[x]))
  <2> SUFFICES ASSUME NEW x \in Assets, target[x] \in Candidates => Entered(ledger, target[x]),
                      target'[x] \in Candidates
               PROVE  Entered(ledger, target'[x])
    OBVIOUS
  <2> QED BY <1>1, SceneIs DEF UserEdit, IInv, Typed
<1>7. Lone' /\ Whole'
  BY <1>1, <1>2, <1>6 DEF UserEdit, IInv, Lone, Whole, LoneOf, KeptOf, TextsAreEntered, Installing, Undoing
<1> QED BY <1>3, <1>4, <1>5, <1>7 DEF IInv

LEMMA InitHolds ==
  ASSUME AdoptionAssumption
  PROVE  Init => IInv
<1> SUFFICES ASSUME Init PROVE IInv
  OBVIOUS
<1>1. Typed
  BY EmptyIs, SceneIs DEF Init, Typed, TypeOK, Steps, Texts, Events
<1>2. /\ \A a \in Adopters : pc[a] = "idle"
      /\ adopted = {} /\ ledger = None
      /\ \A s \in Assets : target[s] \in Originals
  BY DEF Init
<1>3. \A s \in Assets : target[s] \notin Candidates
  BY <1>2, SceneIs DEF Init
<1>4. \A c : ~Entered(ledger, c)
  BY <1>2 DEF Entered
<1> QED
  BY <1>1, <1>2, <1>3, <1>4 DEF IInv, Placed, Sources, Files, Lone, Whole, PlaceOf, SourceOf, FileOf,
     LoneOf, KeptOf, TextsAreEntered, SkillSteps, PolicySteps, Steps, Installing, Undoing

\* Every step keeps the invariant.
LEMMA StepHolds ==
  ASSUME AdoptionAssumption
  PROVE  IInv /\ [Next]_vars => IInv'
<1> SUFFICES ASSUME IInv, [Next]_vars PROVE IInv'
  OBVIOUS
<1>1. CASE UNCHANGED vars
  BY <1>1 DEF vars, IInv, Typed, TypeOK, Placed, Sources, Files, Lone, Whole, Apart, Alone, AssetOf
<1>2. ASSUME NEW a \in Adopters, AdoptSkill(a) PROVE IInv'
  BY <1>2, CreateLedgerHolds, WriteEmptyLedgerHolds, LoadLedgerHolds, RefuseEntryHolds,
     EnterDecisionHolds DEF AdoptSkill
<1>3. ASSUME NEW a \in Adopters, AdoptPolicy(a) PROVE IInv'
  BY <1>3, PrepareHolds, EnterPreparedHolds, KeepBaselineHolds, ReplaceLedgerHolds,
     RollbackTmpHolds, RollbackTargetHolds, FailRollbackHolds DEF AdoptPolicy
<1> QED
  BY <1>1, <1>2, <1>3, AuthorizeHolds, WriteTmpHolds, ReplaceTargetHolds, FailInstallHolds,
     CrashHolds, UserEditHolds DEF Next

(***************************************************************************)
(* The results.                                                            *)
(***************************************************************************)

THEOREM Invariance ==
  ASSUME AdoptionAssumption
  PROVE  Spec => []IInv
<1> QED BY InitHolds, StepHolds, PTL DEF Spec

\* A Skill that holds a candidate's text has the decision in the ledger, and an attempt
\* on a policy at most one operation of which fails changes both the policy and the
\* ledger or neither.
THEOREM AdoptionIsAlwaysWhole ==
  ASSUME AdoptionAssumption
  PROVE  Spec => []AdoptionIsWhole
<1>1. ASSUME IInv PROVE InstalledIsEntered
  BY <1>1 DEF IInv, Typed, Lone, TextsAreEntered, InstalledIsEntered
<1>2. ASSUME IInv PROVE AllOrNothing
  BY <1>2 DEF IInv, Whole, Sources, AllOrNothing, Quiet, Undoing
<1>3. IInv => AdoptionIsWhole
  BY <1>1, <1>2 DEF AdoptionIsWhole
<1> QED BY <1>3, Invariance, PTL

\* Only the last step of an adoption changes a ledger that policies are entered in.
LEMMA LedgerChanges ==
  ASSUME AdoptionAssumption, IInv, Next, ledger' # ledger
  PROVE  \E a \in Adopters :
           \/ ReplaceLedger(a) /\ scene.kind = "policy"
           \/ (WriteEmptyLedger(a) \/ EnterDecision(a)) /\ scene.kind = "skill"
<1>1. PICK a \in Adopters : ReplaceLedger(a) \/ WriteEmptyLedger(a) \/ EnterDecision(a)
  BY DEF Next, AdoptSkill, AdoptPolicy, Authorize, CreateLedger, LoadLedger, RefuseEntry, Prepare,
         EnterPrepared, KeepBaseline, RollbackTmp, RollbackTarget, FailRollback, WriteTmp,
         ReplaceTarget, FailInstall, Crash, UserEdit
<1>2. ReplaceLedger(a) => pc[a] = "installed"
  BY DEF ReplaceLedger, Goto
<1>3. (WriteEmptyLedger(a) => pc[a] = "creating") /\ (EnterDecision(a) => pc[a] = "entering")
  BY DEF WriteEmptyLedger, EnterDecision, Goto
<1> QED BY <1>1, <1>2, <1>3, Now

\* What is entered stays entered, is installed once and only after its asset, and only
\* what is entered is refused.
THEOREM EntriesAreAlwaysTrue ==
  ASSUME AdoptionAssumption
  PROVE  Spec => EntriesAreTrue
<1>1. ASSUME IInv, Next PROVE EntryOnlyAfterInstall
  <2> SUFFICES ASSUME NEW c \in Candidates, scene.kind = "policy", Apart,
                      ~Entered(ledger, c), Entered(ledger', c)
               PROVE  target[scene.targetOf[c]] = c \/ c \in adopted
    BY DEF EntryOnlyAfterInstall
  <2>1. PICK a \in Adopters : ReplaceLedger(a)
    BY <1>1, LedgerChanges
  <2>2. pc[a] = "installed" /\ ledger' = prepared[cand[a]]
    BY <2>1 DEF ReplaceLedger, Goto
  <2> QED BY <1>1, <2>2, Now DEF SourceOf, FileOf, Installing
<1>2. ASSUME IInv, Next, IInv' PROVE EntriesEndure
  <2> SUFFICES ASSUME Alone
               PROVE  /\ \A c \in Candidates : Entered(ledger, c) => Entered(ledger', c)
                      /\ \A c \in adopted' : Entered(ledger', c)
                      /\ \A c \in adopted, a \in Adopters :
                           (cand[a] = c /\ pc[a] = "replacing") => target' = target
    BY DEF EntriesEndure
  <2>1. ASSUME NEW c \in Candidates, Entered(ledger, c) PROVE Entered(ledger', c)
    <3>1. CASE ledger' = ledger
      BY <2>1, <3>1
    <3>2. CASE ledger' # ledger
      <4>1. PICK a \in Adopters : \/ ReplaceLedger(a) /\ scene.kind = "policy"
                                  \/ (WriteEmptyLedger(a) \/ EnterDecision(a)) /\ scene.kind = "skill"
        BY <1>2, <3>2, LedgerChanges
      <4>2. CASE ReplaceLedger(a) /\ scene.kind = "policy"
        <5>1. pc[a] = "installed" /\ ledger' = prepared[cand[a]]
          BY <4>2 DEF ReplaceLedger, Goto
        <5> QED BY <1>2, <2>1, <4>2, <5>1, Now DEF LoneOf, Installing
      <4>3. CASE WriteEmptyLedger(a) /\ scene.kind = "skill"
        <5>1. pc[a] = "creating"
          BY <4>3 DEF WriteEmptyLedger, Goto
        <5>2. ledger = None
          BY <1>2, <4>3, <5>1, Now DEF LoneOf
        <5> QED BY <2>1, <5>2 DEF Entered
      <4>4. CASE EnterDecision(a) /\ scene.kind = "skill"
        <5>1. pc[a] = "entering" /\ ledger' = draft[a]
          BY <4>4 DEF EnterDecision, Goto
        <5> QED BY <1>2, <2>1, <4>4, <5>1, Now DEF LoneOf
      <4> QED BY <4>1, <4>2, <4>3, <4>4
    <3> QED BY <3>1, <3>2
  <2>2. \A c \in adopted' : Entered(ledger', c)
    <3>1. scene' = scene
      BY <1>2 DEF Next, AdoptSkill, AdoptPolicy, Authorize, CreateLedger, WriteEmptyLedger, LoadLedger,
         RefuseEntry, EnterDecision, Prepare, EnterPrepared, KeepBaseline, ReplaceLedger, RollbackTmp,
         RollbackTarget, FailRollback, WriteTmp, ReplaceTarget, FailInstall, Crash, UserEdit
    <3>2. Alone'
      BY <3>1 DEF Alone
    <3> QED BY <1>2, <3>2 DEF IInv, Lone
  <2>3. \A a \in Adopters : pc[a] = "replacing" => cand[a] \notin adopted
    BY <1>2, Now DEF LoneOf, Installing
  <2> QED BY <2>1, <2>2, <2>3
<1>3. ASSUME IInv, Next PROVE FailedAttemptsCanBeRetried
  <2> SUFFICES ASSUME NEW a \in Adopters, pc[a] = "prepared", pc'[a] = "idle",
                      spent'.crashes = spent.crashes
               PROVE  cand[a] \in adopted /\ (Alone => Entered(ledger, cand[a]))
    BY DEF FailedAttemptsCanBeRetried
  <2>1. EnterPrepared(a)
    <3>1. ~Crash(a)
      BY <1>3 DEF Crash, IInv, Typed, Events
    <3>2. ~\E b \in Adopters \ {a} : pc'[a] # pc[a] /\ pc' = [pc EXCEPT ![b] = pc'[b]]
      BY <1>3 DEF IInv, Typed, TypeOK
    <3> QED
      BY <1>3, <3>1, <3>2 DEF Next, AdoptSkill, AdoptPolicy, Authorize, CreateLedger, WriteEmptyLedger,
         LoadLedger, RefuseEntry, EnterDecision, Prepare, EnterPrepared, KeepBaseline, ReplaceLedger,
         RollbackTmp, RollbackTarget, FailRollback, WriteTmp, ReplaceTarget, FailInstall, Failure,
         Crash, UserEdit, Goto, IInv, Typed, TypeOK
  <2>2. ~Enterable(prepared[cand[a]], cand[a])
    BY <1>3, <2>1 DEF EnterPrepared, Goto, IInv, Typed, TypeOK
  <2>3. scene.kind = "policy" /\ cand[a] \in Candidates /\ prepared[cand[a]] # None
    BY <1>3, Now DEF SourceOf
  <2>4. prepared[cand[a]] \in Ledgers
    BY <1>3, <2>3 DEF IInv, Typed, TypeOK
  <2>5. Entered(prepared[cand[a]], cand[a])
    BY <2>2, <2>3, <2>4, EnterIs
  <2> QED BY <1>3, <2>3, <2>5, Now DEF SourceOf, LoneOf
<1>4. IInv /\ IInv' /\ [Next]_vars => [EntriesStayTrue]_vars
  BY <1>1, <1>2, <1>3 DEF EntriesStayTrue
<1> QED BY <1>4, Invariance, PTL DEF Spec, EntriesAreTrue
=============================================================================
